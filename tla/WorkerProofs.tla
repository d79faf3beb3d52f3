---------------------------- MODULE WorkerProofs ----------------------------
(***************************************************************************)
(* What is proved of the components whose threads share out a list, for    *)
(* any number of threads and elements: Similarity, ThreadIterate as the    *)
(* instance Iterate, and BaseFind as the instance Base.  The parts of each *)
(* invariant say where an element is on its way from the list to the       *)
(* result or to the iterator.                                              *)
(***************************************************************************)
EXTENDS MCWorkers, FiniteSetTheorems, SequenceTheorems, TLAPS
-----------------------------------------------------------------------------
(* The matching of functions: the inductive invariant.                     *)

\* The labels of a thread that holds an element.
Busy == {"load", "compare", "push"}

\* The elements the result speaks of, as matched or as left over.
Matched == {matches[k].pair_a : k \in DOMAIN matches}
Left == ToSet(unmatch)

\* A thread between pop and push holds an element, which nobody else has.
ItemsFit ==
    /\ \A t \in Threads : w[t].pc \in Busy <=> w[t].item # None
    /\ \A t \in Threads : w[t].pc = "compare" => w[t].k >= 1
    /\ \A t, u \in Threads : w[t].item # None /\ w[t].item = w[u].item => t = u
    /\ \A t \in Threads : w[t].item \notin ToSet(queue)

\* An element has one place.
SpokenOnce ==
    /\ IsInjective(queue) /\ IsInjective(unmatch)
    /\ \A j, k \in DOMAIN matches : matches[j].pair_a = matches[k].pair_a => j = k
    /\ Matched \cap Left = {}
    /\ ToSet(queue) \cap (Matched \cup Left) = {}
    /\ \A t \in Threads : w[t].item \notin Matched \cup Left

\* Nothing that drops an element can happen.
Keeps == Mode = "one" => Unreadable = {} /\ "memory" \notin Faults

\* While nobody cancelled, or once there is a result, no element is lost.
NothingDropped ==
    (loop \/ result) /\ Keeps =>
        \A a \in Elements :
            a \in ToSet(queue) \cup Matched \cup Left \/ \E t \in Threads : w[t].item = a

\* What the place of the caller says of the threads and the queue.
CallerFits ==
    /\ at = "spawn" => i \in Threads /\ \A t \in Threads : t >= i => w[t].pc = "none"
    /\ at \in {"check", "join_ui", "done"} => \A t \in Threads : w[t].pc = "ended"
    /\ closed => queue = <<>>
    /\ at \in {"pool_wait", "check", "join_ui", "done"} /\ (loop \/ result) => closed
    /\ result => at \in {"join_ui", "done"}
    /\ ui = "pop_all" => ~loop
    /\ at = "done" /\ "memory" \notin Faults => ui = "ended"
    /\ at = "done" /\ result =>
         ToSet(unmatch_b) = ToSet(list_b) \ {matches[k].pair_b : k \in DOMAIN matches}

\* b is the counterpart of a that the search is for, of similarity m.
Chosen(a, b, m) ==
    /\ m = similarity[a][b]
    /\ \/ <<a, b>> \in SameName
       \/ m >= Threshold /\ \A c \in Candidates(a) : similarity[a][c] <= m

\* a has no counterpart.
Lone(a) == \A c \in Candidates(a) : similarity[a][c] < Threshold

\* The part of list_b that the loop of thread t has seen, without what cannot be read.
Seen(t) == {list_b[j] : j \in 1..(w[t].k - 1)} \ Unreadable

\* What the locals of a thread say of the elements it has compared.
SearchFits(t) ==
    /\ w[t].pc = "compare" =>
         /\ w[t].match = None =>
              w[t].max = 0 /\ \A c \in Seen(t) : similarity[w[t].item][c] < Threshold
         /\ w[t].match # None =>
              /\ w[t].max = similarity[w[t].item][w[t].match] /\ w[t].max >= Threshold
              /\ \A c \in Seen(t) : similarity[w[t].item][c] <= w[t].max
    /\ w[t].pc = "push" =>
         IF w[t].match = None THEN Lone(w[t].item)
         ELSE Chosen(w[t].item, w[t].match, w[t].max)

\* Searches that nobody cancelled go to the end.
BestFits ==
    (loop \/ result) /\ Mode = "functions" /\ "memory" \notin Faults =>
        /\ \A t \in Threads : SearchFits(t)
        /\ \A k \in DOMAIN matches :
             Chosen(matches[k].pair_a, matches[k].pair_b, matches[k].similarity)
        /\ \A k \in DOMAIN unmatch : unmatch[k] \in Unreadable \/ Lone(unmatch[k])

MatchInv ==
    /\ usage \in Usages /\ TypeOK /\ ItemsFit /\ SpokenOnce /\ NothingDropped
    /\ CallerFits /\ BestFits
-----------------------------------------------------------------------------
(* Lists.                                                                  *)

\* rz_list_append and rz_th_queue_push: one more element, at the end.
LEMMA PushFacts ==
    ASSUME NEW S, NEW s \in Seq(S), NEW x \in S
    PROVE  /\ Append(s, x) \in Seq(S)
           /\ DOMAIN s = 1..Len(s) /\ Len(s) \in Nat
           /\ DOMAIN Append(s, x) = 1..(Len(s) + 1)
           /\ \A k \in DOMAIN s : Append(s, x)[k] = s[k]
           /\ Append(s, x)[Len(s) + 1] = x
           /\ ToSet(Append(s, x)) = ToSet(s) \cup {x}
           /\ IsInjective(s) /\ x \notin ToSet(s) => IsInjective(Append(s, x))
    <1> DEFINE a == Append(s, x)
    <1>1. /\ a \in Seq(S) /\ Len(a) = Len(s) + 1 /\ Len(s) \in Nat
          /\ DOMAIN a = 1..(Len(s) + 1) /\ DOMAIN s = 1..Len(s)
          /\ \A k \in 1..Len(s) : a[k] = s[k]
          /\ a[Len(s) + 1] = x
        OBVIOUS
    <1> HIDE DEF a
    <1>2. \A y : y \in ToSet(a) <=> y \in ToSet(s) \/ y = x
        BY <1>1 DEF ToSet
    <1>3. ASSUME IsInjective(s), x \notin ToSet(s)
          PROVE  IsInjective(a)
        BY <1>1, <1>3 DEF IsInjective, ToSet
    <1> QED
        BY <1>1, <1>2, <1>3 DEF a

\* rz_th_queue_pop: the first element is taken from the others.
LEMMA PopFacts ==
    ASSUME NEW S, NEW s \in Seq(S), s # <<>>, IsInjective(s)
    PROVE  /\ Tail(s) \in Seq(S)
           /\ Head(s) \in S
           /\ IsInjective(Tail(s))
           /\ Head(s) \notin ToSet(Tail(s))
           /\ ToSet(s) = ToSet(Tail(s)) \cup {Head(s)}
    <1> DEFINE a == Tail(s)
    <1>1. /\ a \in Seq(S) /\ Len(s) \in Nat \ {0} /\ Head(s) = s[1] /\ s[1] \in S
          /\ DOMAIN a = 1..(Len(s) - 1) /\ DOMAIN s = 1..Len(s)
          /\ \A k \in 1..(Len(s) - 1) : a[k] = s[k + 1]
        OBVIOUS
    <1> HIDE DEF a
    <1> DEFINE n == Len(s) - 1
    <1>5. \A k \in 1..n : k + 1 \in DOMAIN s /\ k + 1 # 1 /\ 1 \in DOMAIN s
        BY <1>1
    <1>6. \A j, k \in DOMAIN s : s[j] = s[k] => j = k
        BY DEF IsInjective
    <1>7. \A j, k \in 1..n : a[j] = a[k] => j = k
        BY <1>1, <1>5, <1>6
    <1>2. IsInjective(a)
        BY <1>1, <1>7 DEF IsInjective
    <1>3. Head(s) \notin ToSet(a)
        BY <1>1, <1>5, <1>6 DEF ToSet
    <1>4. \A y : y \in ToSet(s) <=> y \in ToSet(a) \/ y = Head(s)
        <2>1. \A k \in 1..Len(s) : k = 1 \/ (k - 1 \in 1..(Len(s) - 1) /\ a[k - 1] = s[k])
            BY <1>1
        <2>2. \A k \in 1..(Len(s) - 1) : k + 1 \in 1..Len(s)
            BY <1>1
        <2>3. ASSUME NEW y \in ToSet(s)
              PROVE  y \in ToSet(a) \/ y = Head(s)
            BY <1>1, <2>1 DEF ToSet
        <2>4. ASSUME NEW y \in ToSet(a)
              PROVE  y \in ToSet(s)
            BY <1>1, <2>2 DEF ToSet
        <2>5. Head(s) \in ToSet(s)
            BY <1>1 DEF ToSet
        <2> QED
            BY <2>3, <2>4, <2>5
    <1> QED
        BY <1>1, <1>2, <1>3, <1>4 DEF a

\* Deleting from a list leaves the others.
LEMMA OnlyFacts ==
    ASSUME NEW T, NEW s \in Seq(T), NEW S
    PROVE  /\ Only(s, S) \in Seq(T)
           /\ ToSet(Only(s, S)) = ToSet(s) \cap S
    <1> DEFINE Kept == {p \in DOMAIN s : s[p] \in S}
               Upto(p) == {j \in Kept : j <= p}
               Rank(p) == Cardinality(Upto(p))
               n == Cardinality(Kept)
               rank == [p \in Kept |-> Rank(p)]
               At(k) == CHOOSE p \in Kept : Rank(p) = k
    <1>1. Kept \subseteq 1..Len(s) /\ Len(s) \in Nat /\ Kept \subseteq Int
        OBVIOUS
    <1>2. IsFiniteSet(Kept) /\ n \in Nat
        <2>1. IsFiniteSet(1..Len(s))
            BY <1>1, FS_Interval
        <2> QED
            BY <2>1, <1>1, FS_Subset, FS_CardinalityType
    <1>3. \A p \in Kept : IsFiniteSet(Upto(p)) /\ Rank(p) \in 1..n
        <2> SUFFICES ASSUME NEW p \in Kept
                     PROVE  IsFiniteSet(Upto(p)) /\ Rank(p) \in 1..n
            OBVIOUS
        <2>1. Upto(p) \in SUBSET Kept
            OBVIOUS
        <2>2. IsFiniteSet(Upto(p)) /\ Rank(p) <= n
            BY ONLY <2>1, <1>2, FS_Subset
        <2>3. Rank(p) \in Nat
            BY ONLY <2>2, FS_CardinalityType
        <2>4. p \in Upto(p)
            BY <1>1
        <2>5. Upto(p) # {}
            BY <2>4
        <2>6. Rank(p) # 0
            BY ONLY <2>2, <2>5, FS_EmptySet
        <2> HIDE DEF Rank, n
        <2> QED
            BY <2>2, <2>3, <2>6, <1>2
    <1>4. \A p, j \in Kept : p < j => Rank(p) # Rank(j)
        <2> SUFFICES ASSUME NEW p \in Kept, NEW j \in Kept, p < j
                     PROVE  Rank(p) # Rank(j)
            OBVIOUS
        <2>1. Upto(p) \in SUBSET Upto(j)
            BY <1>1
        <2>2. j \in Upto(j) /\ j \notin Upto(p)
            BY <1>1
        <2>3. Upto(p) # Upto(j)
            BY ONLY <2>2
        <2>4. IsFiniteSet(Upto(j))
            BY ONLY <1>3, j \in Kept
        <2> QED
            BY ONLY <2>1, <2>3, <2>4, FS_Subset
    <1>5. \A p, j \in Kept : Rank(p) = Rank(j) => p = j
        <2> SUFFICES ASSUME NEW p \in Kept, NEW j \in Kept, Rank(p) = Rank(j), p # j
                     PROVE  FALSE
            OBVIOUS
        <2>1. p < j \/ j < p
            BY ONLY <1>1, p \in Kept, j \in Kept, p # j
        <2> QED
            BY ONLY <2>1, <1>4, p \in Kept, j \in Kept, Rank(p) = Rank(j)
    <1>6. rank \in Injection(Kept, 1..n)
        <2> HIDE DEF Rank, Kept, n
        <2> QED
            BY <1>3, <1>5 DEF Injection, IsInjective
    <1>7. rank \in Surjection(Kept, 1..n)
        <2>1. IsFiniteSet(1..n) /\ Cardinality(1..n) = n
            BY ONLY <1>2, FS_Interval
        <2> HIDE DEF rank, Kept
        <2> QED
            BY <2>1, <1>6, FS_Injection
    <1>8. \A k \in 1..n : \E p \in Kept : Rank(p) = k
        <2> HIDE DEF Rank, Kept, n
        <2> QED
            BY <1>7 DEF Surjection
    <1>9. \A k \in 1..n : At(k) \in Kept /\ Rank(At(k)) = k
        <2> HIDE DEF Rank, Kept, n
        <2> QED
            BY <1>8
    <1>10. \A p \in Kept : Rank(p) \in 1..n /\ At(Rank(p)) = p
        <2> HIDE DEF Rank, Kept, n
        <2> QED
            BY <1>3, <1>5
    <1>11. Only(s, S) = [k \in 1..n |-> s[At(k)]]
        BY DEF Only
    <1>12. \A p \in Kept : s[p] \in T /\ s[p] \in S /\ p \in DOMAIN s
        BY <1>1
    <1>13. \A p \in DOMAIN s : s[p] \in S => p \in Kept
        OBVIOUS
    <1> HIDE DEF Rank, Kept, n, At
    <1> DEFINE r == [k \in 1..n |-> s[At(k)]]
    <1>14. r \in Seq(T)
        BY <1>2, <1>9, <1>12
    <1>16. ToSet(r) = ToSet(s) \cap S
        <2>1. ASSUME NEW x \in ToSet(r) PROVE x \in ToSet(s) \cap S
            BY <1>9, <1>12 DEF ToSet
        <2>2. ASSUME NEW x \in ToSet(s) \cap S PROVE x \in ToSet(r)
            <3>1. PICK p \in DOMAIN s : s[p] = x
                BY DEF ToSet
            <3>2. p \in Kept
                BY <3>1, <1>13
            <3>3. Rank(p) \in 1..n /\ r[Rank(p)] = x
                BY <3>1, <3>2, <1>10
            <3> QED
                BY <3>3 DEF ToSet
        <2> QED
            BY <2>1, <2>2
    <1> QED
        BY <1>11, <1>14, <1>16

\* What is empty has nothing in it.
LEMMA EmptyList ==
    ASSUME NEW S
    PROVE  /\ <<>> \in Seq(S) /\ ToSet(<<>>) = {} /\ IsInjective(<<>>)
           /\ DOMAIN (<<>>) = {}
    BY DEF ToSet, IsInjective
-----------------------------------------------------------------------------
(* What is matched, and the threads.                                       *)

Locals == [pc : {"none", "start", "test", "pop", "load", "compare", "push", "ended"},
           item : Elements \cup {None}, k : 0..(Len(list_b) + 1),
           max : 0..One, match : ToSet(list_b) \cup {None}]

\* What the assumption says of the behaviour's lists, whichever is exchanged for which.
LEMMA UsageFacts ==
    ASSUME SimilarityAssumption, usage \in Usages
    PROVE  /\ NThreads \in Nat \ {0} /\ One \in Nat /\ Threshold \in 1..One
           /\ list_a \in Seq(Elements) /\ IsInjective(list_a)
           /\ list_b \in Seq(ToSet(list_b)) /\ IsInjective(list_b)
           /\ None \notin Elements \cup ToSet(list_b)
           /\ Scores \subseteq 0..One
           /\ Mode = "one" => Len(list_b) = 1
    BY DEF SimilarityAssumption, list_a, list_b, Elements, Mode, InputA, InputB, Scores

\* The list that is searched is finite.
LEMMA ListsFit ==
    ASSUME SimilarityAssumption, usage \in Usages
    PROVE  Len(list_b) \in Nat /\ DOMAIN list_b = 1..Len(list_b)
    <1>1. list_b \in Seq(ToSet(list_b))
        BY UsageFacts
    <1> QED
        BY <1>1

\* analysis_match_one_function has a counterpart to read.
LEMMA HeadIn ==
    ASSUME SimilarityAssumption, usage \in Usages, Mode = "one"
    PROVE  Head(list_b) \in ToSet(list_b)
    <1>1. list_b \in Seq(ToSet(list_b)) /\ Len(list_b) = 1
        BY UsageFacts
    <1> QED
        BY <1>1

\* The inputs do not change.
LEMMA UsageKept ==
    ASSUME UNCHANGED usage
    PROVE  /\ list_a' = list_a /\ list_b' = list_b /\ Elements' = Elements
           /\ Mode' = Mode /\ Unreadable' = Unreadable /\ SameName' = SameName
           /\ Faults' = Faults /\ Keeps' = Keeps /\ Scores' = Scores /\ MayCancel' = MayCancel
           /\ Locals' = Locals /\ Pairs' = Pairs
    BY DEF list_a, list_b, Elements, Mode, Unreadable, SameName, Faults, Keeps, Scores,
           MayCancel, Locals, Pairs, InputA, InputB

\* One thread changes its locals.
LEMMA OneThread ==
    ASSUME TypeOK, NEW t \in Threads, NEW v \in Locals, w' = [w EXCEPT ![t] = v]
    PROVE  /\ w' \in [Threads -> Locals] /\ w'[t] = v
           /\ \A u \in Threads : u # t => w'[u] = w[u]
    BY DEF TypeOK, Locals

\* What each step of a thread makes of its locals.
LEMMA ThreadSteps ==
    ASSUME SimilarityAssumption, usage \in Usages, TypeOK, ItemsFit, NEW t \in Threads, Worker(t)
    PROVE  \E v \in Locals : w' = [w EXCEPT ![t] = v]
    <1> DEFINE x == w[t]
    <1>1. x \in Locals
        BY DEF TypeOK, Locals
    <1>2. \A l \in {"test", "pop", "load", "ended", "push"} :
              [x EXCEPT !.pc = l] \in Locals /\ [Idle EXCEPT !.pc = l] \in Locals
        <2>1. Len(list_b) \in Nat /\ One \in Nat
            BY UsageFacts, ListsFit
        <2>2. Idle \in Locals
            BY <2>1 DEF Locals, Idle
        <2> QED
            BY <1>1, <2>2 DEF Locals
    <1>3. CASE ReadOne(t)
        <2>1. w' = [w EXCEPT ![t] = [x EXCEPT !.pc = IF Head(list_b) \in Unreadable
                                                     THEN "ended" ELSE "test"]]
            BY <1>3 DEF ReadOne
        <2> QED
            BY <1>2, <2>1
    <1>4. CASE TestLoop(t)
        <2>1. w' = [w EXCEPT ![t] = [x EXCEPT !.pc = IF loop THEN "pop" ELSE "ended"]]
            BY <1>4 DEF TestLoop
        <2> QED
            BY <1>2, <2>1
    <1>5. CASE Pop(t)
        <2>1. CASE closed /\ w' = [w EXCEPT ![t].pc = "ended"]
            <3>1. w' = [w EXCEPT ![t] = [x EXCEPT !.pc = "ended"]]
                BY <2>1
            <3> QED
                BY <1>2, <3>1
        <2>2. CASE queue # <<>> /\ w' = [w EXCEPT ![t].pc = "load", ![t].item = Head(queue)]
            <3> DEFINE v == [x EXCEPT !.pc = "load", !.item = Head(queue)]
            <3>1. Head(queue) \in Elements
                BY <2>2 DEF TypeOK
            <3>2. v \in Locals
                BY <1>1, <3>1 DEF Locals
            <3>3. w' = [w EXCEPT ![t] = v]
                BY <2>2 DEF TypeOK
            <3> QED
                BY <3>2, <3>3
        <2> QED
            BY <1>5, <2>1, <2>2 DEF Pop
    <1>6. CASE LoadUnreadable(t)
        <2>1. w' = [w EXCEPT ![t] = [Idle EXCEPT !.pc = IF Mode = "one" THEN "ended" ELSE "test"]]
            BY <1>6 DEF LoadUnreadable
        <2> QED
            BY <1>2, <2>1
    <1>7. CASE Load(t)
        <2> DEFINE v == [x EXCEPT !.pc = "push", !.match = Head(list_b),
                                  !.max = similarity[x.item][Head(list_b)]]
                   u == [x EXCEPT !.pc = "compare", !.k = 1, !.max = 0, !.match = None]
        <2>1. CASE Mode = "one"
            <3>1. x.item \in Elements
                BY <1>7, UsageFacts DEF Load, ItemsFit, TypeOK, Busy
            <3>2. Head(list_b) \in ToSet(list_b)
                BY <2>1, HeadIn
            <3>3. similarity[x.item][Head(list_b)] \in 0..One
                BY <3>1, <3>2, UsageFacts DEF TypeOK
            <3>4. v \in Locals
                BY <1>1, <3>2, <3>3 DEF Locals
            <3>5. w' = [w EXCEPT ![t] = v]
                BY <1>7, <2>1 DEF Load
            <3> QED
                BY <3>4, <3>5
        <2>2. CASE Mode # "one"
            <3>3. 1 \in 0..(Len(list_b) + 1) /\ 0 \in 0..One
                <4>1. Len(list_b) \in Nat /\ One \in Nat
                    BY UsageFacts, ListsFit
                <4> QED
                    BY <4>1
            <3>1. u \in Locals
                BY <1>1, <3>3 DEF Locals
            <3>2. w' = [w EXCEPT ![t] = u]
                BY <1>7, <2>2 DEF Load
            <3> QED
                BY <3>1, <3>2
        <2> QED
            BY <2>1, <2>2
    <1>8. CASE Compare(t)
        <2>1. CASE w' = [w EXCEPT ![t].pc = "push"]
            <3>1. w' = [w EXCEPT ![t] = [x EXCEPT !.pc = "push"]]
                BY <2>1
            <3> QED
                BY <1>2, <3>1
        <2>2. CASE w[t].k <= Len(list_b) /\ w' # [w EXCEPT ![t].pc = "push"]
            <3> DEFINE b == list_b[x.k]
                       calc == similarity[x.item][b]
                       named == Mode = "functions" /\ <<x.item, b>> \in SameName
                       l == IF named \/ calc >= One THEN "push" ELSE "compare"
                       u == [x EXCEPT !.k = x.k + 1]
                       v == [x EXCEPT !.k = x.k + 1, !.max = calc, !.match = b, !.pc = l]
            <3>1. x.k + 1 \in 0..(Len(list_b) + 1)
                BY <1>1, <2>2, UsageFacts DEF Locals
            <3>2. u \in Locals
                BY <1>1, <3>1 DEF Locals
            <3>3. w' = [w EXCEPT ![t] = u] \/ w' = [w EXCEPT ![t] = v]
                BY <1>8, <2>2 DEF Compare
            <3>4. ASSUME w' = [w EXCEPT ![t] = v]
                  PROVE  v \in Locals
                <4>1. x.item \in Elements
                    BY <1>8, UsageFacts DEF Compare, ItemsFit, TypeOK, Busy
                <4>2. x.k \in 1..Len(list_b)
                    BY <1>1, <1>8, <2>2, UsageFacts DEF Compare, ItemsFit, Locals
                <4>3. b \in ToSet(list_b)
                    BY <4>2, UsageFacts
                <4>4. calc \in 0..One
                    BY <4>1, <4>3, UsageFacts DEF TypeOK
                <4>5. l \in {"push", "compare"}
                    OBVIOUS
                <4> HIDE DEF b, calc, l
                <4> QED
                    BY <1>1, <3>1, <4>3, <4>4, <4>5 DEF Locals
            <3> QED
                BY <3>2, <3>3, <3>4
        <2> QED
            BY <1>8, <2>1, <2>2 DEF Compare
    <1>9. CASE Push(t)
        <2>1. w' = [w EXCEPT ![t] = [Idle EXCEPT !.pc = "test"]]
            BY <1>9 DEF Push
        <2> QED
            BY <1>2, <2>1
    <1>10. CASE PushNoMemory(t)
        <2>1. w' = [w EXCEPT ![t] = [Idle EXCEPT !.pc = IF Mode = "one" THEN "ended" ELSE "test"]]
            BY <1>10 DEF PushNoMemory
        <2> QED
            BY <1>2, <2>1
    <1> QED
        BY <1>3, <1>4, <1>5, <1>6, <1>7, <1>8, <1>9, <1>10 DEF Worker
-----------------------------------------------------------------------------
(* What a step of a thread does to the elements.                           *)

\* What every step of thread t leaves alone.
StepOf(t) ==
    /\ w' \in [Threads -> Locals] /\ \A u \in Threads : u # t => w'[u] = w[u]
    /\ UNCHANGED <<similarity, closed, loop, ui, i, unmatch_b, result>>
    /\ at' = at \/ (at = "sleep" /\ at' = "close")
    /\ w[t].pc \notin {"none", "ended"}
    /\ w'[t].pc = "compare" => w'[t].k >= 1

\* It moves no element,
Quiet(t) ==
    /\ UNCHANGED <<queue, matches, unmatch>>
    /\ w'[t].item = w[t].item /\ (w'[t].pc \in Busy <=> w[t].pc \in Busy)

\* takes one from the queue,
Takes(t) ==
    /\ UNCHANGED <<matches, unmatch>>
    /\ ~closed /\ queue # <<>> /\ queue' = Tail(queue)
    /\ w[t].pc = "pop" /\ w'[t].pc = "load" /\ w'[t].item = Head(queue)

\* lets go of the one it has,
LetsGo(t) ==
    /\ UNCHANGED queue
    /\ w[t].pc \in Busy /\ w'[t].pc \notin Busy /\ w'[t].item = None

\* as unmatched, as one of a pair, or for nothing.
Leaves(t) ==
    /\ LetsGo(t) /\ unmatch' = Append(unmatch, w[t].item) /\ UNCHANGED matches
PutsPair(t) ==
    /\ LetsGo(t) /\ w[t].pc = "push" /\ w[t].match # None /\ UNCHANGED unmatch
    /\ matches' = Append(matches, [pair_a |-> w[t].item, pair_b |-> w[t].match,
                                   similarity |-> w[t].max])
Drops(t) == LetsGo(t) /\ UNCHANGED <<matches, unmatch>> /\ ~Keeps

\* Every step of a thread is one of these.
LEMMA WorkerCases ==
    ASSUME SimilarityAssumption, usage \in Usages, TypeOK, ItemsFit, NEW t \in Threads, Worker(t)
    PROVE  /\ StepOf(t)
           /\ Quiet(t) \/ Takes(t) \/ Leaves(t) \/ PutsPair(t) \/ Drops(t)
    <1> USE DEF workqueue, found, caller
    <1>0. PICK v \in Locals : w' = [w EXCEPT ![t] = v]
        BY ThreadSteps
    <1>1. /\ w' \in [Threads -> Locals] /\ w'[t] = v
          /\ \A u \in Threads : u # t => w'[u] = w[u]
        BY <1>0, OneThread
    <1>2. w \in [Threads -> Locals]
        BY DEF TypeOK, Locals
    <1> DEFINE Same == UNCHANGED <<similarity, closed, loop, ui, i, unmatch_b, result>>
    <1>3. CASE ReadOne(t)
        <2>1. w'[t] = [w[t] EXCEPT !.pc = IF Head(list_b) \in Unreadable THEN "ended" ELSE "test"]
            BY <1>2, <1>3 DEF ReadOne
        <2>2. w'[t].item = w[t].item /\ w'[t].pc \in {"ended", "test"} /\ w[t].pc = "start"
            BY <1>2, <1>3, <2>1 DEF ReadOne, Locals
        <2>3. Same /\ at' = at /\ UNCHANGED <<queue, matches, unmatch>>
            BY <1>3 DEF ReadOne
        <2> QED
            BY <1>1, <2>2, <2>3 DEF StepOf, Quiet, Busy
    <1>4. CASE TestLoop(t)
        <2>1. w'[t] = [w[t] EXCEPT !.pc = IF loop THEN "pop" ELSE "ended"]
            BY <1>2, <1>4 DEF TestLoop
        <2>2. w'[t].item = w[t].item /\ w'[t].pc \in {"ended", "pop"} /\ w[t].pc = "test"
            BY <1>2, <1>4, <2>1 DEF TestLoop, Locals
        <2>3. Same /\ at' = at /\ UNCHANGED <<queue, matches, unmatch>>
            BY <1>4 DEF TestLoop
        <2> QED
            BY <1>1, <2>2, <2>3 DEF StepOf, Quiet, Busy
    <1>5. CASE Pop(t)
        <2>1. Same /\ UNCHANGED <<matches, unmatch>> /\ w[t].pc = "pop"
            BY <1>5 DEF Pop
        <2>2. CASE /\ w' = [w EXCEPT ![t].pc = "ended"]
                   /\ UNCHANGED <<queue, at>>
            <3>1. w'[t] = [w[t] EXCEPT !.pc = "ended"]
                BY <1>2, <2>2
            <3>2. w'[t].item = w[t].item /\ w'[t].pc = "ended"
                BY <1>2, <3>1 DEF Locals
            <3> QED
                BY <1>1, <2>1, <2>2, <3>2 DEF StepOf, Quiet, Busy
        <2>3. CASE /\ ~closed /\ queue # <<>>
                   /\ w' = [w EXCEPT ![t].pc = "load", ![t].item = Head(queue)]
                   /\ queue' = Tail(queue)
                   /\ at' = IF at = "sleep" /\ Len(queue) = 1 THEN "close" ELSE at
            <3>1. w'[t] = [w[t] EXCEPT !.pc = "load", !.item = Head(queue)]
                BY <1>2, <2>3
            <3>2. w'[t].item = Head(queue) /\ w'[t].pc = "load"
                BY <1>2, <3>1 DEF Locals
            <3> QED
                BY <1>1, <2>1, <2>3, <3>2 DEF StepOf, Takes
        <2> QED
            BY <1>5, <2>2, <2>3 DEF Pop
    <1>6. CASE LoadUnreadable(t)
        <2>1. w'[t] = [Idle EXCEPT !.pc = IF Mode = "one" THEN "ended" ELSE "test"]
            BY <1>2, <1>6 DEF LoadUnreadable
        <2>2. w'[t].item = None /\ w'[t].pc \in {"ended", "test"} /\ w[t].pc = "load"
            BY <1>6, <2>1 DEF LoadUnreadable, Idle
        <2>3. Same /\ at' = at /\ UNCHANGED <<queue, matches>> /\ w[t].item \in Unreadable
            BY <1>6 DEF LoadUnreadable
        <2>4. CASE Mode = "one"
            <3>1. UNCHANGED unmatch /\ ~Keeps
                BY <1>6, <2>3, <2>4 DEF LoadUnreadable, Keeps
            <3> QED
                BY <1>1, <2>2, <2>3, <3>1 DEF StepOf, Drops, LetsGo, Busy
        <2>5. CASE Mode # "one"
            <3>1. unmatch' = Append(unmatch, w[t].item)
                BY <1>6, <2>5 DEF LoadUnreadable
            <3> QED
                BY <1>1, <2>2, <2>3, <3>1 DEF StepOf, Leaves, LetsGo, Busy
        <2> QED
            BY <2>4, <2>5
    <1>7. CASE Load(t)
        <2>1. Same /\ at' = at /\ UNCHANGED <<queue, matches, unmatch>> /\ w[t].pc = "load"
            BY <1>7 DEF Load
        <2>2. w'[t] = IF Mode = "one"
                      THEN [w[t] EXCEPT !.pc = "push", !.match = Head(list_b),
                                        !.max = similarity[w[t].item][Head(list_b)]]
                      ELSE [w[t] EXCEPT !.pc = "compare", !.k = 1, !.max = 0, !.match = None]
            BY <1>2, <1>7 DEF Load
        <2>3. /\ w'[t].item = w[t].item
              /\ w'[t].pc = "push" \/ (w'[t].pc = "compare" /\ w'[t].k = 1)
            BY <1>2, <2>2 DEF Locals
        <2> QED
            BY <1>1, <2>1, <2>3 DEF StepOf, Quiet, Busy
    <1>8. CASE Compare(t)
        <2>1. Same /\ at' = at /\ UNCHANGED <<queue, matches, unmatch>> /\ w[t].pc = "compare"
            BY <1>8 DEF Compare
        <2>2. w[t].k \in Nat /\ w[t].k >= 1
            BY <1>2, <2>1, ListsFit DEF ItemsFit, Locals
        <2>3. CASE w' = [w EXCEPT ![t].pc = "push"]
            <3>1. w'[t] = [w[t] EXCEPT !.pc = "push"]
                BY <1>2, <2>3
            <3>2. w'[t].item = w[t].item /\ w'[t].pc = "push"
                BY <1>2, <3>1 DEF Locals
            <3> QED
                BY <1>1, <2>1, <3>2 DEF StepOf, Quiet, Busy
        <2>4. CASE w' # [w EXCEPT ![t].pc = "push"]
            <3> DEFINE x == w[t]
                       b == list_b[x.k]
                       calc == similarity[x.item][b]
                       named == Mode = "functions" /\ <<x.item, b>> \in SameName
                       l == IF named \/ calc >= One THEN "push" ELSE "compare"
            <3>1. \/ w' = [w EXCEPT ![t] = [x EXCEPT !.k = x.k + 1]]
                  \/ w' = [w EXCEPT ![t] = [x EXCEPT !.k = x.k + 1, !.max = calc, !.match = b,
                                                     !.pc = l]]
                BY <1>8, <2>4 DEF Compare
            <3>2. l \in {"push", "compare"}
                OBVIOUS
            <3> HIDE DEF l, calc, b
            <3>4. w[t] \in Locals
                BY <1>2
            <3>5. \/ w'[t] = [x EXCEPT !.k = x.k + 1]
                  \/ w'[t] = [x EXCEPT !.k = x.k + 1, !.max = calc, !.match = b, !.pc = l]
                BY <1>2, <3>1
            <3>3. /\ w'[t].item = w[t].item /\ w'[t].pc \in {"push", "compare"}
                  /\ w'[t].k = w[t].k + 1
                BY <3>4, <2>1, <3>5, <3>2 DEF Locals
            <3> QED
                BY <1>1, <2>1, <2>2, <3>3 DEF StepOf, Quiet, Busy
        <2> QED
            BY <2>3, <2>4
    <1>9. CASE Push(t)
        <2>1. w'[t] = [Idle EXCEPT !.pc = "test"]
            BY <1>2, <1>9 DEF Push
        <2>2. w'[t].item = None /\ w'[t].pc = "test" /\ w[t].pc = "push"
            BY <1>9, <2>1 DEF Push, Idle
        <2>3. Same /\ at' = at /\ UNCHANGED queue
            BY <1>9 DEF Push
        <2>4. StepOf(t) /\ LetsGo(t)
            BY <1>1, <2>2, <2>3 DEF StepOf, LetsGo, Busy
        <2> QED
            BY <1>9, <2>2, <2>4 DEF Push, Leaves, PutsPair
    <1>10. CASE PushNoMemory(t)
        <2>1. w'[t] = [Idle EXCEPT !.pc = IF Mode = "one" THEN "ended" ELSE "test"]
            BY <1>2, <1>10 DEF PushNoMemory
        <2>2. w'[t].item = None /\ w'[t].pc \in {"ended", "test"} /\ w[t].pc = "push"
            BY <1>10, <2>1 DEF PushNoMemory, Idle
        <2>3. Same /\ at' = at /\ UNCHANGED <<queue, matches>> /\ "memory" \in Faults
            BY <1>10 DEF PushNoMemory
        <2>4. StepOf(t) /\ LetsGo(t)
            BY <1>1, <2>2, <2>3 DEF StepOf, LetsGo, Busy
        <2>5. CASE Mode = "one"
            <3>1. UNCHANGED unmatch /\ ~Keeps
                BY <1>10, <2>3, <2>5 DEF PushNoMemory, Keeps
            <3> QED
                BY <2>3, <2>4, <3>1 DEF Drops
        <2>6. CASE Mode # "one"
            <3>1. unmatch' = Append(unmatch, w[t].item)
                BY <1>10, <2>6 DEF PushNoMemory
            <3> QED
                BY <2>3, <2>4, <3>1 DEF Leaves
        <2> QED
            BY <2>5, <2>6
    <1> QED
        BY <1>3, <1>4, <1>5, <1>6, <1>7, <1>8, <1>9, <1>10 DEF Worker

\* The caller and the thread of the user interface move no element, but may empty the queue of a
\* search that was cancelled.
Control ==
    /\ UNCHANGED <<similarity, matches, unmatch>>
    /\ w' \in [Threads -> Locals]
    /\ \A u \in Threads :
         /\ w'[u] = w[u] \/ (w'[u].pc \notin Busy /\ w[u].pc \notin Busy /\ w'[u].item = w[u].item)
         /\ at # "spawn" => w'[u] = w[u]
    /\ queue' = queue \/ (queue' = <<>> /\ ~loop')
    /\ loop' => loop
    /\ result' => result \/ (loop /\ at = "check")

\* Every other step is such a one.
LEMMA ControlSteps ==
    ASSUME SimilarityAssumption, usage \in Usages, TypeOK, CallerFits, Caller \/ Ui
    PROVE  Control
    <1> USE DEF workqueue, found, caller
    <1>2. w \in [Threads -> Locals]
        BY DEF TypeOK, Locals
    <1>3. CASE Spawn
        <2>1. i \in Threads /\ w[i].pc = "none"
            <3>1. i \in Threads /\ i >= i
                BY <1>3 DEF Spawn, CallerFits, Threads
            <3> QED
                BY <1>3, <3>1 DEF Spawn, CallerFits
        <2>2. \E l \in {"start", "test", "ended"} : w' = [w EXCEPT ![i] = [w[i] EXCEPT !.pc = l]]
            BY <1>3 DEF Spawn
        <2>3. PICK l \in {"start", "test", "ended"} : w' = [w EXCEPT ![i] = [w[i] EXCEPT !.pc = l]]
            BY <2>2
        <2>4. [w[i] EXCEPT !.pc = l] \in Locals
            BY <1>2, <2>1, <2>3 DEF Locals
        <2>5. w' \in [Threads -> Locals] /\ w'[i] = [w[i] EXCEPT !.pc = l]
              /\ \A u \in Threads : u # i => w'[u] = w[u]
            BY <1>2, <2>1, <2>3, <2>4
        <2>6. w'[i].pc = l /\ w'[i].item = w[i].item
            BY <1>2, <2>1, <2>5 DEF Locals
        <2>7. UNCHANGED <<similarity, matches, unmatch, queue, loop, result>> /\ at = "spawn"
            BY <1>3 DEF Spawn
        <2>8. l \notin Busy /\ w[i].pc \notin Busy
            BY <2>1, <2>3 DEF Busy
        <2> QED
            BY <2>5, <2>6, <2>7, <2>8 DEF Control
    <1>4. CASE SpawnUi
        BY <1>2, <1>4 DEF SpawnUi, Control
    <1>5. CASE SpawnUiFails
        BY <1>2, <1>5 DEF SpawnUiFails, Control
    <1>6. CASE CloseWhenEmpty
        BY <1>2, <1>6 DEF CloseWhenEmpty, Control
    <1>7. CASE PoolWait
        BY <1>2, <1>7 DEF PoolWait, Control
    <1>8. CASE CheckLoop
        BY <1>2, <1>8 DEF CheckLoop, Control
    <1>9. CASE CheckNoMemory
        BY <1>2, <1>9 DEF CheckNoMemory, Control
    <1>10. CASE JoinUi
        BY <1>2, <1>10 DEF JoinUi, Control
    <1>11. CASE UiCallback
        BY <1>2, <1>11 DEF UiCallback, Control
    <1>12. CASE UiPopAll
        BY <1>2, <1>12 DEF UiPopAll, Control, CallerFits
    <1>13. CASE UiTestEmpty
        BY <1>2, <1>13 DEF UiTestEmpty, Control
    <1> QED
        BY <1>3, <1>4, <1>5, <1>6, <1>7, <1>8, <1>9, <1>10, <1>11, <1>12, <1>13 DEF Caller, Ui
-----------------------------------------------------------------------------
(* Types.                                                                  *)

\* The types hold at first,
LEMMA InitTypes ==
    ASSUME SimilarityAssumption, Init
    PROVE  TypeOK
    <1>1. usage \in Usages
        BY DEF Init
    <1>2. Idle \in Locals
        BY <1>1, UsageFacts, ListsFit DEF Idle, Locals
    <1>3. w \in [Threads -> Locals]
        BY <1>2 DEF Init
    <1>4. queue \in Seq(Elements) /\ matches \in Seq(Pairs) /\ unmatch \in Seq(Elements)
        BY <1>1, UsageFacts DEF Init
    <1>5. unmatch_b \in Seq(ToSet(list_b)) /\ i \in 1..(NThreads + 1)
        BY <1>1, UsageFacts DEF Init
    <1>6. closed \in BOOLEAN /\ loop \in BOOLEAN /\ result \in BOOLEAN
        BY DEF Init
    <1>7. /\ similarity \in [Elements -> [ToSet(list_b) -> Scores]]
          /\ ui = "none" /\ at = "spawn"
        BY DEF Init, Elements
    <1> QED
        BY <1>3, <1>4, <1>5, <1>6, <1>7 DEF TypeOK, Locals

\* after every step of a thread,
LEMMA WorkerTypes ==
    ASSUME SimilarityAssumption, usage \in Usages, UNCHANGED usage, TypeOK, ItemsFit, SpokenOnce,
           NEW t \in Threads, Worker(t)
    PROVE  TypeOK'
    <1>1. StepOf(t) /\ (Quiet(t) \/ Takes(t) \/ Leaves(t) \/ PutsPair(t) \/ Drops(t))
        BY WorkerCases
    <1>2. w[t].pc \in Busy => w[t].item \in Elements
        BY DEF ItemsFit, TypeOK
    <1>3. queue' \in Seq(Elements)
        <2>1. CASE queue' = queue
            BY <2>1 DEF TypeOK
        <2>2. CASE queue # <<>> /\ queue' = Tail(queue)
            BY <2>2, PopFacts DEF TypeOK, SpokenOnce
        <2> QED
            BY <1>1, <2>1, <2>2 DEF Quiet, Takes, Leaves, PutsPair, Drops, LetsGo
    <1>4. unmatch' \in Seq(Elements)
        <2>1. CASE unmatch' = unmatch
            BY <2>1 DEF TypeOK
        <2>2. CASE Leaves(t)
            BY <2>2, <1>2, PushFacts DEF TypeOK, Leaves, LetsGo
        <2> QED
            BY <1>1, <2>1, <2>2 DEF Quiet, Takes, PutsPair, Drops
    <1>5. matches' \in Seq(Pairs)
        <2>1. CASE matches' = matches
            BY <2>1 DEF TypeOK
        <2>2. CASE PutsPair(t)
            <3> DEFINE p == [pair_a |-> w[t].item, pair_b |-> w[t].match, similarity |-> w[t].max]
            <3>1. w[t].match \in ToSet(list_b) /\ w[t].max \in 0..One /\ w[t].item \in Elements
                BY <2>2, <1>2 DEF TypeOK, PutsPair, LetsGo
            <3>2. p \in Pairs
                BY <3>1 DEF Pairs
            <3>3. matches' = Append(matches, p)
                BY <2>2 DEF PutsPair
            <3> QED
                BY <3>2, <3>3, PushFacts DEF TypeOK
        <2> QED
            BY <1>1, <2>1, <2>2 DEF Quiet, Takes, Leaves, Drops
    <1>6. /\ similarity' = similarity /\ closed' = closed /\ loop' = loop /\ ui' = ui
          /\ i' = i /\ unmatch_b' = unmatch_b /\ result' = result /\ (at' = at \/ at' = "close")
          /\ w' \in [Threads -> Locals]
        BY <1>1 DEF StepOf
    <1> QED
        BY <1>3, <1>4, <1>5, <1>6, UsageKept DEF TypeOK, Locals

\* and after every other step.
LEMMA ControlTypes ==
    ASSUME SimilarityAssumption, usage \in Usages, UNCHANGED usage, TypeOK, CallerFits, Caller \/ Ui
    PROVE  TypeOK'
    <1> USE DEF workqueue, found, caller
    <1>1. Control
        BY ControlSteps
    <1>2. /\ similarity' = similarity /\ matches' \in Seq(Pairs) /\ unmatch' \in Seq(Elements)
          /\ w' \in [Threads -> Locals] /\ queue' \in Seq(Elements)
        BY <1>1, EmptyList DEF Control, TypeOK
    <1>3. closed' \in BOOLEAN
        BY DEF Caller, Ui, Spawn, SpawnUi, SpawnUiFails, CloseWhenEmpty, PoolWait, CheckLoop,
               CheckNoMemory, JoinUi, UiCallback, UiPopAll, UiTestEmpty, TypeOK
    <1>4. loop' \in BOOLEAN /\ result' \in BOOLEAN
        BY DEF Caller, Ui, Spawn, SpawnUi, SpawnUiFails, CloseWhenEmpty, PoolWait, CheckLoop,
               CheckNoMemory, JoinUi, UiCallback, UiPopAll, UiTestEmpty, TypeOK
    <1>5. /\ ui' \in {"none", "callback", "pop_all", "test_empty", "ended"}
          /\ at' \in {"spawn", "spawn_ui", "close", "sleep", "pool_wait", "check", "join_ui", "done"}
        BY DEF Caller, Ui, Spawn, SpawnUi, SpawnUiFails, CloseWhenEmpty, PoolWait, CheckLoop,
               CheckNoMemory, JoinUi, UiCallback, UiPopAll, UiTestEmpty, TypeOK
    <1>6. i' \in 1..(NThreads + 1)
        <2>1. CASE Spawn
            BY <2>1, UsageFacts DEF Spawn, CallerFits, Threads
        <2>2. CASE i' = i
            BY <2>2 DEF TypeOK
        <2> QED
            BY <2>1, <2>2 DEF Caller, Ui, SpawnUi, SpawnUiFails, CloseWhenEmpty, PoolWait,
               CheckLoop,
               CheckNoMemory, JoinUi, UiCallback, UiPopAll, UiTestEmpty
    <1>7. unmatch_b' \in Seq(ToSet(list_b))
        <2>1. CASE JoinUi
            BY <2>1, UsageFacts, OnlyFacts DEF JoinUi
        <2>2. CASE unmatch_b' = unmatch_b
            BY <2>2 DEF TypeOK
        <2> QED
            BY <2>1, <2>2 DEF Caller, Ui, Spawn, SpawnUi, SpawnUiFails, CloseWhenEmpty, PoolWait,
               CheckLoop, CheckNoMemory, UiCallback, UiPopAll, UiTestEmpty
    <1> QED
        BY <1>2, <1>3, <1>4, <1>5, <1>6, <1>7, UsageKept DEF TypeOK, Locals
-----------------------------------------------------------------------------
(* Every element has one place.                                            *)

\* A pair speaks of one more element.
LEMMA PairSpoken ==
    ASSUME TypeOK, NEW p \in Pairs, matches' = Append(matches, p)
    PROVE  /\ Matched' = Matched \cup {p.pair_a}
           /\ DOMAIN matches' = DOMAIN matches \cup {Len(matches) + 1}
           /\ \A k \in DOMAIN matches : matches'[k] = matches[k] /\ k # Len(matches) + 1
           /\ matches'[Len(matches) + 1] = p
    <1>1. /\ DOMAIN matches = 1..Len(matches) /\ Len(matches) \in Nat
          /\ DOMAIN matches' = 1..(Len(matches) + 1)
          /\ \A k \in DOMAIN matches : matches'[k] = matches[k]
          /\ matches'[Len(matches) + 1] = p
        BY PushFacts DEF TypeOK
    <1>2. DOMAIN matches' = DOMAIN matches \cup {Len(matches) + 1}
        BY <1>1
    <1>3. \A k \in DOMAIN matches : k # Len(matches) + 1
        BY <1>1
    <1>4. Matched' = Matched \cup {p.pair_a}
        BY <1>1, <1>2, <1>3 DEF Matched
    <1> QED
        BY <1>1, <1>2, <1>3, <1>4

\* Thread t puts its element into a pair.
LEMMA PairPut ==
    ASSUME TypeOK, ItemsFit, NEW t \in Threads, PutsPair(t)
    PROVE  \E p \in Pairs : /\ matches' = Append(matches, p)
                            /\ p.pair_a = w[t].item /\ p.pair_b = w[t].match
                            /\ p.similarity = w[t].max
    <1> DEFINE p == [pair_a |-> w[t].item, pair_b |-> w[t].match, similarity |-> w[t].max]
    <1>1. w[t].match \in ToSet(list_b) /\ w[t].max \in 0..One /\ w[t].item \in Elements
        BY DEF TypeOK, ItemsFit, PutsPair, LetsGo
    <1>2. p \in Pairs
        BY <1>1 DEF Pairs
    <1>3. matches' = Append(matches, p)
        BY DEF PutsPair
    <1> QED
        BY <1>2, <1>3

\* A thread moves its element from one place to one other.
LEMMA WorkerItems ==
    ASSUME SimilarityAssumption, usage \in Usages, UNCHANGED usage, TypeOK, ItemsFit, SpokenOnce,
           NothingDropped, NEW t \in Threads, Worker(t)
    PROVE  ItemsFit' /\ SpokenOnce' /\ NothingDropped'
    <1>1. StepOf(t) /\ (Quiet(t) \/ Takes(t) \/ Leaves(t) \/ PutsPair(t) \/ Drops(t))
        BY WorkerCases
    <1>2. /\ \A u \in Threads : u # t => w'[u] = w[u]
          /\ loop' = loop /\ result' = result
          /\ w'[t].pc = "compare" => w'[t].k >= 1
        BY <1>1 DEF StepOf
    <1>3. w[t].pc \in Busy => w[t].item \in Elements /\ w[t].item # None
        BY DEF ItemsFit, TypeOK
    <1>4. None \notin Elements /\ ToSet(queue) \subseteq Elements
        BY UsageFacts DEF TypeOK, ToSet
    <1>5. Keeps' = Keeps /\ Elements' = Elements
        BY UsageKept
    <1>6. CASE Quiet(t)
        <2>1. /\ \A u \in Threads : w'[u].item = w[u].item /\ (w'[u].pc \in Busy <=> w[u].pc \in Busy)
              /\ \A u \in Threads : w'[u].pc = "compare" => w'[u].k >= 1
            BY <1>2, <1>6 DEF Quiet, ItemsFit
        <2>2. queue' = queue /\ unmatch' = unmatch /\ matches' = matches
            BY <1>6 DEF Quiet
        <2>3. Matched' = Matched /\ Left' = Left /\ ToSet(queue)' = ToSet(queue)
            BY <2>2 DEF Matched, Left
        <2>4. ItemsFit'
            BY <2>1, <2>3 DEF ItemsFit
        <2>5. SpokenOnce'
            BY <2>1, <2>2, <2>3 DEF SpokenOnce
        <2>6. NothingDropped'
            BY <1>2, <1>5, <2>1, <2>3 DEF NothingDropped
        <2> QED
            BY <2>4, <2>5, <2>6
    <1>7. CASE Takes(t)
        <2> DEFINE x == Head(queue)
        <2>1. /\ w[t].item = None /\ w'[t].item = x /\ w'[t].pc = "load"
              /\ unmatch' = unmatch /\ matches' = matches /\ queue' = Tail(queue)
            BY <1>7 DEF Takes, ItemsFit, Busy
        <2>2. /\ x \in Elements /\ IsInjective(Tail(queue)) /\ x \notin ToSet(Tail(queue))
              /\ ToSet(queue) = ToSet(Tail(queue)) \cup {x}
            BY <1>7, PopFacts DEF Takes, TypeOK, SpokenOnce
        <2>3. Matched' = Matched /\ Left' = Left /\ ToSet(queue)' = ToSet(Tail(queue))
            BY <2>1 DEF Matched, Left
        <2>4. x # None /\ \A u \in Threads : w[u].item # x
            BY <1>4, <2>2 DEF ItemsFit
        <2>5. "load" \in Busy
            BY DEF Busy
        <2> HIDE DEF x
        <2>6. ItemsFit'
            <3>1. \A u \in Threads : /\ w'[u].pc \in Busy <=> w'[u].item # None
                                     /\ w'[u].pc = "compare" => w'[u].k >= 1
                BY <1>2, <2>1, <2>4, <2>5 DEF ItemsFit
            <3>2. \A u, v \in Threads : w'[u].item # None /\ w'[u].item = w'[v].item => u = v
                BY <1>2, <2>1, <2>4 DEF ItemsFit
            <3>3. \A u \in Threads : w'[u].item \notin ToSet(queue)'
                BY <1>2, <2>1, <2>2, <2>3 DEF ItemsFit
            <3> QED
                BY <3>1, <3>2, <3>3 DEF ItemsFit
        <2>7. SpokenOnce'
            <3>1. ToSet(queue)' \cap (Matched' \cup Left') = {} /\ x \notin Matched \cup Left
                BY <2>2, <2>3 DEF SpokenOnce
            <3>2. \A u \in Threads : w'[u].item \notin Matched' \cup Left'
                BY <1>2, <2>1, <2>3, <3>1 DEF SpokenOnce
            <3> QED
                BY <2>1, <2>2, <2>3, <3>1, <3>2 DEF SpokenOnce
        <2>8. NothingDropped'
            <3>1. \A a \in Elements :
                    (a \in ToSet(queue) \cup Matched \cup Left \/ \E u \in Threads : w[u].item = a)
                    => (a \in ToSet(queue)' \cup Matched' \cup Left' \/ \E u \in Threads : w'[u].item = a)
                BY <1>2, <1>4, <2>1, <2>2, <2>3
            <3> QED
                BY <1>2, <1>5, <3>1 DEF NothingDropped
        <2> QED
            BY <2>6, <2>7, <2>8
    <1>8. ASSUME LetsGo(t),
                 Matched' \cup Left' \subseteq Matched \cup Left \cup {w[t].item},
                 Keeps => Matched' \cup Left' = Matched \cup Left \cup {w[t].item}
          PROVE  /\ ItemsFit' /\ NothingDropped'
                 /\ ToSet(queue)' \cap (Matched' \cup Left') = {}
                 /\ \A u \in Threads : w'[u].item \notin Matched' \cup Left'
        <2>1. /\ w[t].item \in Elements /\ w[t].item # None /\ w'[t].item = None /\ w'[t].pc \notin Busy
              /\ queue' = queue /\ ToSet(queue)' = ToSet(queue)
            BY <1>3, <1>8 DEF LetsGo
        <2>2. None \notin Matched' \cup Left'
            <3>1. Matched \cup Left \subseteq Elements
                <4>1. \A k \in DOMAIN matches : matches[k] \in Pairs
                    BY DEF TypeOK
                <4>2. \A k \in DOMAIN unmatch : unmatch[k] \in Elements
                    BY DEF TypeOK
                <4>3. Matched \subseteq Elements
                    BY <4>1 DEF Matched, Pairs
                <4>4. Left \subseteq Elements
                    BY <4>2 DEF Left, ToSet
                <4> QED
                    BY <4>3, <4>4
            <3> QED
                BY <1>4, <1>8, <2>1, <3>1
        <2>3. ItemsFit'
            <3>1. \A u \in Threads : /\ w'[u].pc \in Busy <=> w'[u].item # None
                                     /\ w'[u].pc = "compare" => w'[u].k >= 1
                BY <1>2, <2>1 DEF ItemsFit
            <3>2. \A u, v \in Threads : w'[u].item # None /\ w'[u].item = w'[v].item => u = v
                BY <1>2, <2>1 DEF ItemsFit
            <3>3. \A u \in Threads : w'[u].item \notin ToSet(queue)'
                BY <1>2, <1>4, <2>1 DEF ItemsFit
            <3> QED
                BY <3>1, <3>2, <3>3 DEF ItemsFit
        <2>4. \A u \in Threads : u # t => w[u].item # w[t].item
            BY <2>1 DEF ItemsFit
        <2>5. \A u \in Threads : w'[u].item \notin Matched' \cup Left'
            BY <1>2, <1>8, <2>1, <2>2, <2>4 DEF SpokenOnce
        <2>6. ToSet(queue)' \cap (Matched' \cup Left') = {}
            BY <1>8, <2>1 DEF SpokenOnce, ItemsFit
        <2>7. NothingDropped'
            <3>1. Keeps => \A a \in Elements :
                    (a \in ToSet(queue) \cup Matched \cup Left \/ \E u \in Threads : w[u].item = a)
                    => (a \in ToSet(queue)' \cup Matched' \cup Left' \/ \E u \in Threads : w'[u].item = a)
                BY <1>2, <1>8, <2>1
            <3> QED
                BY <1>2, <1>5, <3>1 DEF NothingDropped
        <2> QED
            BY <2>3, <2>5, <2>6, <2>7
    <1>9. CASE Leaves(t)
        <2>1. /\ LetsGo(t) /\ unmatch' = Append(unmatch, w[t].item) /\ matches' = matches
              /\ queue' = queue /\ w[t].item \in Elements
            BY <1>3, <1>9 DEF Leaves, LetsGo
        <2>2. Matched' = Matched
            BY <2>1 DEF Matched
        <2>3. Left' = Left \cup {w[t].item} /\ IsInjective(unmatch')
            BY <2>1, PushFacts DEF Left, TypeOK, SpokenOnce
        <2>4. /\ ItemsFit' /\ NothingDropped'
              /\ ToSet(queue)' \cap (Matched' \cup Left') = {}
              /\ \A u \in Threads : w'[u].item \notin Matched' \cup Left'
            <3>1. Matched' \cup Left' = Matched \cup Left \cup {w[t].item}
                BY <2>2, <2>3
            <3> QED
                BY <1>8, <2>1, <3>1
        <2>5. Matched' \cap Left' = {}
            BY <2>2, <2>3 DEF SpokenOnce
        <2>6. SpokenOnce'
            BY <2>1, <2>3, <2>4, <2>5 DEF SpokenOnce
        <2> QED
            BY <2>4, <2>6
    <1>10. CASE PutsPair(t)
        <2>0. PICK p \in Pairs : matches' = Append(matches, p) /\ p.pair_a = w[t].item
            BY <1>10, PairPut
        <2>1. LetsGo(t) /\ unmatch' = unmatch /\ queue' = queue /\ w[t].item \in Elements
            BY <1>3, <1>10 DEF PutsPair, LetsGo
        <2>2. /\ Matched' = Matched \cup {w[t].item}
              /\ DOMAIN matches' = DOMAIN matches \cup {Len(matches) + 1}
              /\ \A k \in DOMAIN matches : matches'[k] = matches[k] /\ k # Len(matches) + 1
              /\ matches'[Len(matches) + 1].pair_a = w[t].item
            BY <2>0, PairSpoken
        <2>3. Left' = Left
            BY <2>1 DEF Left
        <2>4. /\ ItemsFit' /\ NothingDropped'
              /\ ToSet(queue)' \cap (Matched' \cup Left') = {}
              /\ \A u \in Threads : w'[u].item \notin Matched' \cup Left'
            <3>1. Matched' \cup Left' = Matched \cup Left \cup {w[t].item}
                BY <2>2, <2>3
            <3> QED
                BY <1>8, <2>1, <3>1
        <2>5. Matched' \cap Left' = {}
            BY <2>2, <2>3 DEF SpokenOnce
        <2>6. \A k \in DOMAIN matches : matches[k].pair_a # w[t].item
            BY DEF SpokenOnce, Matched
        <2>7. \A j, k \in DOMAIN matches' : matches'[j].pair_a = matches'[k].pair_a => j = k
            BY <2>2, <2>6 DEF SpokenOnce
        <2>8. SpokenOnce'
            BY <2>1, <2>4, <2>5, <2>7 DEF SpokenOnce
        <2> QED
            BY <2>4, <2>8
    <1>11. CASE Drops(t)
        <2>1. LetsGo(t) /\ unmatch' = unmatch /\ matches' = matches /\ queue' = queue /\ ~Keeps
            BY <1>11 DEF Drops, LetsGo
        <2>2. Matched' = Matched /\ Left' = Left
            BY <2>1 DEF Matched, Left
        <2>4. /\ ItemsFit' /\ NothingDropped'
              /\ ToSet(queue)' \cap (Matched' \cup Left') = {}
              /\ \A u \in Threads : w'[u].item \notin Matched' \cup Left'
            BY <1>8, <2>1, <2>2
        <2>5. SpokenOnce'
            BY <2>1, <2>2, <2>4 DEF SpokenOnce
        <2> QED
            BY <2>4, <2>5
    <1> QED
        BY <1>1, <1>6, <1>7, <1>9, <1>10, <1>11

\* The others lose elements of a cancelled search only.
LEMMA ControlItems ==
    ASSUME SimilarityAssumption, usage \in Usages, UNCHANGED usage, TypeOK, ItemsFit, SpokenOnce,
           NothingDropped, CallerFits, Caller \/ Ui
    PROVE  ItemsFit' /\ SpokenOnce' /\ NothingDropped'
    <1>1. Control
        BY ControlSteps
    <1>2. /\ \A u \in Threads : /\ w'[u].item = w[u].item
                                /\ w'[u].pc \in Busy <=> w[u].pc \in Busy
                                /\ w'[u].pc = "compare" => w'[u].k >= 1
          /\ matches' = matches /\ unmatch' = unmatch
        BY <1>1 DEF Control, ItemsFit, Busy
    <1>3. Matched' = Matched /\ Left' = Left
        BY <1>2 DEF Matched, Left
    <1>4. ToSet(queue)' \subseteq ToSet(queue) /\ IsInjective(queue')
        BY <1>1, EmptyList DEF Control, SpokenOnce
    <1>5. ItemsFit'
        BY <1>2, <1>4 DEF ItemsFit
    <1>6. SpokenOnce'
        BY <1>2, <1>3, <1>4 DEF SpokenOnce
    <1>7. NothingDropped'
        <2>1. Keeps' = Keeps /\ Elements' = Elements
            BY UsageKept
        <2>2. CASE ~(loop' \/ result')
            BY <2>2 DEF NothingDropped
        <2>3. CASE (loop' \/ result') /\ queue' = queue
            <3>1. loop \/ result
                BY <1>1, <2>3 DEF Control
            <3> QED
                BY <1>2, <1>3, <2>1, <2>3, <3>1 DEF NothingDropped
        <2>4. CASE result' /\ ~loop' /\ queue' # queue
            <3>1. queue' = <<>>
                BY <1>1, <2>4 DEF Control
            <3>2. result /\ at \in {"join_ui", "done"}
                BY <2>4, <1>1 DEF Control, CallerFits, Caller, Ui, Spawn, SpawnUi, SpawnUiFails,
                   CloseWhenEmpty, PoolWait, CheckLoop, CheckNoMemory, JoinUi, UiCallback, UiPopAll,
                   UiTestEmpty, workqueue, caller
            <3>3. queue = <<>>
                BY <3>2 DEF CallerFits
            <3> QED
                BY <2>4, <3>1, <3>3
        <2> QED
            BY <1>1, <2>2, <2>3, <2>4 DEF Control
    <1> QED
        BY <1>5, <1>6, <1>7
-----------------------------------------------------------------------------
(* The caller.                                                             *)

\* No thread steps once the caller has waited for it.
LEMMA WorkerCaller ==
    ASSUME SimilarityAssumption, usage \in Usages, UNCHANGED usage, TypeOK, ItemsFit, SpokenOnce,
           CallerFits, NEW t \in Threads, Worker(t)
    PROVE  CallerFits'
    <1>1. StepOf(t) /\ (Quiet(t) \/ Takes(t) \/ Leaves(t) \/ PutsPair(t) \/ Drops(t))
        BY WorkerCases
    <1>2. /\ \A u \in Threads : u # t => w'[u] = w[u]
          /\ closed' = closed /\ loop' = loop /\ ui' = ui /\ i' = i /\ unmatch_b' = unmatch_b
          /\ result' = result /\ (at' = at \/ (at = "sleep" /\ at' = "close"))
          /\ w[t].pc \notin {"none", "ended"}
        BY <1>1 DEF StepOf
    <1>3. at \notin {"check", "join_ui", "done"} /\ at' \notin {"check", "join_ui", "done"} /\ ~result
        BY <1>2 DEF CallerFits
    <1>4. at' = "spawn" => i' \in Threads /\ \A u \in Threads : u >= i' => w'[u].pc = "none"
        BY <1>2 DEF CallerFits
    <1>5. closed' => queue' = <<>>
        BY <1>1, <1>2 DEF CallerFits, Quiet, Takes, Leaves, PutsPair, Drops, LetsGo
    <1>6. at' \in {"pool_wait"} /\ (loop' \/ result') => closed'
        BY <1>2 DEF CallerFits
    <1>7. ui' = "pop_all" => ~loop'
        BY <1>2 DEF CallerFits
    <1> QED
        BY <1>2, <1>3, <1>4, <1>5, <1>6, <1>7 DEF CallerFits

\* The caller's place is what it says.
LEMMA ControlCaller ==
    ASSUME SimilarityAssumption, usage \in Usages, UNCHANGED usage, TypeOK, CallerFits, Caller \/ Ui
    PROVE  CallerFits'
    <1> USE DEF workqueue, found, caller
    <1>1. Faults' = Faults /\ list_b' = list_b /\ Mode' = Mode
        BY UsageKept
    <1>2. NThreads \in Nat \ {0}
        BY UsageFacts
    <1>3. CASE Spawn
        <2>1. /\ i \in Threads /\ i' = i + 1 /\ at = "spawn"
              /\ at' = IF i = NThreads THEN "spawn_ui" ELSE "spawn"
              /\ closed' = closed /\ queue' = queue /\ result' = result /\ ui' = ui /\ loop' = loop
            BY <1>3 DEF Spawn, CallerFits
        <2>2. \A u \in Threads : u # i => w'[u] = w[u]
            BY <1>3 DEF Spawn, TypeOK
        <2>3. at' = "spawn" => i' \in Threads /\ \A u \in Threads : u >= i' => w'[u].pc = "none"
            BY <1>2, <2>1, <2>2 DEF CallerFits, Threads
        <2>4. at' \in {"spawn", "spawn_ui"}
            BY <2>1
        <2> QED
            BY <2>1, <2>3, <2>4 DEF CallerFits
    <1>4. CASE SpawnUi
        BY <1>1, <1>4 DEF SpawnUi, CallerFits
    <1>5. CASE SpawnUiFails
        BY <1>1, <1>5 DEF SpawnUiFails, CallerFits
    <1>6. CASE CloseWhenEmpty
        BY <1>1, <1>6 DEF CloseWhenEmpty, CallerFits
    <1>7. CASE PoolWait
        BY <1>1, <1>7 DEF PoolWait, CallerFits
    <1>8. CASE CheckLoop
        BY <1>1, <1>8 DEF CheckLoop, CallerFits
    <1>9. CASE CheckNoMemory
        BY <1>1, <1>9 DEF CheckNoMemory, CallerFits
    <1>10. CASE JoinUi
        <2> DEFINE M == {p.pair_b : p \in ToSet(matches)}
        <2>1. ToSet(unmatch_b') = ToSet(list_b) \cap (ToSet(list_b) \ M)
            BY <1>10, UsageFacts, OnlyFacts DEF JoinUi
        <2>2. M = {matches[k].pair_b : k \in DOMAIN matches}
            BY DEF ToSet
        <2>3. ToSet(unmatch_b)' = ToSet(list_b) \ {matches[k].pair_b : k \in DOMAIN matches}
            BY <2>1, <2>2
        <2>4. /\ at = "join_ui" /\ ui = "ended" /\ at' = "done" /\ w' = w /\ closed' = closed
              /\ queue' = queue /\ result' = result /\ ui' = ui /\ loop' = loop /\ matches' = matches
            BY <1>10 DEF JoinUi
        <2> HIDE DEF M
        <2> QED
            BY <1>1, <2>3, <2>4 DEF CallerFits
    <1>11. CASE UiCallback
        BY <1>1, <1>11 DEF UiCallback, CallerFits
    <1>12. CASE UiPopAll
        BY <1>1, <1>12 DEF UiPopAll, CallerFits
    <1>13. CASE UiTestEmpty
        BY <1>1, <1>13 DEF UiTestEmpty, CallerFits
    <1> QED
        BY <1>3, <1>4, <1>5, <1>6, <1>7, <1>8, <1>9, <1>10, <1>11, <1>12, <1>13 DEF Caller, Ui
-----------------------------------------------------------------------------
(* The best counterpart.                                                   *)

\* A thread that does nothing knows what it knew.
LEMMA SearchKept ==
    ASSUME UNCHANGED <<usage, similarity>>, NEW u \in Threads, SearchFits(u),
           w'[u] = w[u] \/ w'[u].pc \notin {"compare", "push"}
    PROVE  SearchFits(u)'
    <1>1. CASE w'[u] = w[u]
        <2>1. Seen(u)' = Seen(u)
            BY <1>1, UsageKept DEF Seen
        <2>2. /\ Lone(w[u].item)' <=> Lone(w[u].item)
            BY <1>1, UsageKept DEF Lone, Candidates
        <2>3. Chosen(w[u].item, w[u].match, w[u].max)' <=> Chosen(w[u].item, w[u].match, w[u].max)
            BY <1>1, UsageKept DEF Chosen, Candidates
        <2> QED
            BY <1>1, <2>1, <2>2, <2>3 DEF SearchFits
    <1>2. CASE w'[u].pc \notin {"compare", "push"}
        BY <1>2 DEF SearchFits
    <1> QED
        BY <1>1, <1>2

\* One round of the loop.
LEMMA CompareFits ==
    ASSUME SimilarityAssumption, usage \in Usages, UNCHANGED usage, TypeOK, ItemsFit,
           Mode = "functions", loop, NEW t \in Threads, SearchFits(t), Compare(t)
    PROVE  SearchFits(t)'
    <1> DEFINE x == w[t]
               a == x.item
               Sim(c) == similarity[a][c]
               b == list_b[x.k]
               calc == Sim(b)
               named == <<a, b>> \in SameName
    <1>1. /\ x.pc = "compare" /\ a \in Elements /\ x.k \in 1..(Len(list_b) + 1)
          /\ similarity' = similarity /\ x \in Locals /\ w \in [Threads -> Locals]
        BY UsageFacts, ListsFit DEF Compare, ItemsFit, TypeOK, Busy, Locals
    <1>2. Len(list_b) \in Nat /\ DOMAIN list_b = 1..Len(list_b)
        BY ListsFit
    <1>3. One \in Nat /\ Threshold \in 1..One /\ None \notin ToSet(list_b)
        BY UsageFacts
    <1>4. \A c \in ToSet(list_b) : Sim(c) \in 0..One
        BY <1>1, UsageFacts DEF TypeOK
    <1>5. Candidates(a) = ToSet(list_b) \ Unreadable
        BY DEF Candidates
    <1>6. Seen(t) \subseteq Candidates(a)
        BY <1>1, <1>2, <1>5 DEF Seen, ToSet
    <1>7. /\ x.max \in 0..One
          /\ x.match = None => x.max = 0 /\ \A c \in Seen(t) : Sim(c) < Threshold
          /\ x.match # None => /\ x.max = Sim(x.match) /\ x.max >= Threshold
                               /\ \A c \in Seen(t) : Sim(c) <= x.max
        BY <1>1 DEF SearchFits, Locals
    <1>8. CASE w' = [w EXCEPT ![t].pc = "push"] /\ x.k > Len(list_b)
        <2>1. w'[t] = [x EXCEPT !.pc = "push"]
            BY <1>1, <1>8
        <2>2. w'[t].pc = "push" /\ w'[t].item = a /\ w'[t].match = x.match /\ w'[t].max = x.max
            BY <1>1, <2>1 DEF Locals
        <2>3. x.k - 1 = Len(list_b)
            BY <1>1, <1>2, <1>8
        <2>4. Seen(t) = Candidates(a)
            BY <2>3, <1>2, <1>5 DEF Seen, ToSet
        <2>5. x.match = None => Lone(a)
            BY <1>7, <2>4 DEF Lone
        <2>6. x.match # None => Chosen(a, x.match, x.max)
            BY <1>7, <2>4 DEF Chosen
        <2>7. x.match = None => Lone(w[t].item)'
            BY <1>1, <2>2, <2>5, UsageKept DEF Lone, Candidates
        <2>8. x.match # None => Chosen(w[t].item, w[t].match, w[t].max)'
            BY <1>1, <2>2, <2>6, UsageKept DEF Chosen, Candidates
        <2> QED
            BY <2>2, <2>7, <2>8 DEF SearchFits
    <1>9. CASE x.k <= Len(list_b) /\ ~(x.k > Len(list_b))
        <2>1. x.k \in 1..Len(list_b) /\ b \in ToSet(list_b) /\ calc \in 0..One /\ b # None
            <3>1. x.k \in 1..Len(list_b)
                BY <1>1, <1>2, <1>9
            <3>2. b \in ToSet(list_b)
                BY <3>1, <1>2 DEF ToSet
            <3> QED
                BY <3>1, <3>2, <1>3, <1>4
        <2>2. Better(t, b, calc) <=> named \/ (calc >= Threshold /\ calc > x.max)
            BY DEF Better
        <2> DEFINE skip == b \in Unreadable \/ ~Better(t, b, calc)
                   l == IF named \/ calc >= One THEN "push" ELSE "compare"
        <2>3. w' = [w EXCEPT ![t] = IF skip THEN [x EXCEPT !.k = x.k + 1]
                                    ELSE [x EXCEPT !.k = x.k + 1, !.max = calc, !.match = b,
                                                   !.pc = l]]
            BY <1>9 DEF Compare
        <2>4. ASSUME NEW n, n = x.k + 1
              PROVE  {list_b[j] : j \in 1..(n - 1)} = {list_b[j] : j \in 1..(x.k - 1)} \cup {b}
            <3>1. \A j : j \in 1..(n - 1) <=> j \in 1..(x.k - 1) \/ j = x.k
                BY <2>1, <2>4
            <3> QED
                BY <3>1
        <2>5. ASSUME w'[t].k = x.k + 1
              PROVE  Seen(t)' = Seen(t) \cup ({b} \ Unreadable)
            BY <2>4, <2>5, UsageKept DEF Seen
        <2>6. CASE skip
            <3>1. w'[t] = [x EXCEPT !.k = x.k + 1]
                BY <1>1, <2>3, <2>6
            <3>2. /\ w'[t].pc = "compare" /\ w'[t].item = a /\ w'[t].match = x.match
                  /\ w'[t].max = x.max /\ w'[t].k = x.k + 1
                BY <1>1, <3>1 DEF Locals
            <3>3. b \notin Unreadable => ~(calc >= Threshold /\ calc > x.max)
                BY <2>2, <2>6
            <3>4. Seen(t)' = Seen(t) \cup ({b} \ Unreadable)
                BY <2>5, <3>2
            <3> HIDE DEF b, calc, skip
            <3>5. x.match = None => \A c \in Seen(t)' : Sim(c) < Threshold
                <4>1. x.match = None /\ b \notin Unreadable => calc < Threshold
                    BY <1>3, <1>7, <2>1, <3>3
                <4> QED
                    BY <4>1, <1>7, <3>4 DEF calc
            <3>6. x.match # None => \A c \in Seen(t)' : Sim(c) <= x.max
                <4>1. x.match # None /\ b \notin Unreadable => calc <= x.max
                    BY <1>3, <1>7, <2>1, <3>3
                <4> QED
                    BY <4>1, <1>7, <3>4 DEF calc
            <3> QED
                BY <1>1, <1>7, <3>2, <3>5, <3>6 DEF SearchFits
        <2>7. CASE ~skip
            <3>1. w'[t] = [x EXCEPT !.k = x.k + 1, !.max = calc, !.match = b, !.pc = l]
                BY <1>1, <2>3, <2>7
            <3>2. /\ w'[t].pc = l /\ w'[t].item = a /\ w'[t].match = b
                  /\ w'[t].max = calc /\ w'[t].k = x.k + 1
                BY <1>1, <3>1 DEF Locals
            <3>3. named \/ (calc >= Threshold /\ calc > x.max)
                BY <2>2, <2>7
            <3>4. Seen(t)' = Seen(t) \cup ({b} \ Unreadable)
                BY <2>5, <3>2
            <3>5. CASE named \/ calc >= One
                <4>1. calc >= One => \A c \in Candidates(a) : Sim(c) <= calc
                    <5> HIDE DEF calc
                    <5> QED
                        BY <1>3, <1>4, <1>5, <2>1
                <4>2. Chosen(a, b, calc)
                    BY <3>3, <3>5, <4>1 DEF Chosen
                <4>3. Chosen(w[t].item, w[t].match, w[t].max)'
                    BY <1>1, <3>2, <4>2, UsageKept DEF Chosen, Candidates
                <4>4. w'[t].pc = "push"
                    BY <3>2, <3>5
                <4> QED
                    BY <2>1, <3>2, <4>3, <4>4 DEF SearchFits
            <3>6. CASE ~(named \/ calc >= One)
                <4>1. calc >= Threshold /\ calc > x.max /\ w'[t].pc = "compare"
                    BY <3>2, <3>3, <3>6
                <4>2. \A c \in Seen(t) : Sim(c) \in 0..One /\ Sim(c) <= calc
                    <5>1. \A c \in Seen(t) : Sim(c) \in 0..One
                        BY <1>4, <1>5, <1>6
                    <5> HIDE DEF calc
                    <5> QED
                        BY <1>3, <1>7, <2>1, <4>1, <5>1
                <4>3. \A c \in Seen(t)' : Sim(c) <= calc
                    BY <2>1, <3>4, <4>2
                <4>4. w'[t].max = similarity'[w'[t].item][w'[t].match]
                    BY <1>1, <3>2
                <4> HIDE DEF calc, b
                <4> QED
                    BY <1>1, <2>1, <3>2, <4>1, <4>3, <4>4 DEF SearchFits
            <3> QED
                BY <3>5, <3>6
        <2> QED
            BY <2>6, <2>7
    <1>10. CASE x.k > Len(list_b)
        <2>1. w' = [w EXCEPT ![t].pc = "push"]
            BY <1>1, <1>2, <1>10 DEF Compare
        <2> QED
            BY <1>8, <1>10, <2>1
    <1> QED
        BY <1>1, <1>2, <1>9, <1>10

\* The search of an element starts.
LEMMA SearchStarts ==
    ASSUME SimilarityAssumption, usage \in Usages, UNCHANGED usage, TypeOK, Mode = "functions",
           NEW t \in Threads, Load(t)
    PROVE  SearchFits(t)'
    <1>1. w[t] \in Locals /\ w \in [Threads -> Locals]
        BY DEF TypeOK, Locals
    <1>2. w'[t] = [w[t] EXCEPT !.pc = "compare", !.k = 1, !.max = 0, !.match = None]
        BY <1>1 DEF Load
    <1>3. w'[t].pc = "compare" /\ w'[t].k = 1 /\ w'[t].max = 0 /\ w'[t].match = None
        BY <1>1, <1>2 DEF Locals
    <1>4. 1..(w'[t].k - 1) = {}
        BY <1>3
    <1>5. Seen(t)' = {}
        BY <1>4 DEF Seen
    <1> QED
        BY <1>3, <1>5 DEF SearchFits

\* What the threads report are the best counterparts.
LEMMA WorkerBest ==
    ASSUME SimilarityAssumption, usage \in Usages, UNCHANGED usage, TypeOK, ItemsFit, SpokenOnce,
           CallerFits, BestFits, NEW t \in Threads, Worker(t)
    PROVE  BestFits'
    <1>1. StepOf(t) /\ (Quiet(t) \/ Takes(t) \/ Leaves(t) \/ PutsPair(t) \/ Drops(t))
        BY WorkerCases
    <1>2. /\ \A u \in Threads : u # t => w'[u] = w[u]
          /\ similarity' = similarity /\ loop' = loop /\ result' = result
        BY <1>1 DEF StepOf
    <1>3. ~result
        BY <1>1 DEF StepOf, CallerFits
    <1>4. Mode' = Mode /\ Faults' = Faults /\ Unreadable' = Unreadable
        BY UsageKept
    <1> SUFFICES ASSUME loop, Mode = "functions", "memory" \notin Faults
                 PROVE  /\ \A u \in Threads : SearchFits(u)'
                        /\ \A k \in DOMAIN matches' :
                             Chosen(matches[k].pair_a, matches[k].pair_b, matches[k].similarity)'
                        /\ \A k \in DOMAIN unmatch' : unmatch'[k] \in Unreadable \/ Lone(unmatch[k])'
        BY <1>2, <1>3, <1>4 DEF BestFits
    <1>5. /\ \A u \in Threads : SearchFits(u)
          /\ \A k \in DOMAIN matches :
               Chosen(matches[k].pair_a, matches[k].pair_b, matches[k].similarity)
          /\ \A k \in DOMAIN unmatch : unmatch[k] \in Unreadable \/ Lone(unmatch[k])
        BY DEF BestFits
    <1>6. ASSUME NEW a, NEW b, NEW m
          PROVE  (Chosen(a, b, m)' <=> Chosen(a, b, m)) /\ (Lone(a)' <=> Lone(a))
        BY <1>2, UsageKept DEF Chosen, Lone, Candidates
    <1>7. \A u \in Threads : SearchFits(u)'
        <2>1. \A u \in Threads : u # t => SearchFits(u)'
            BY <1>2, <1>5, SearchKept
        <2>2. SearchFits(t)'
            <3>1. CASE Load(t)
                BY <3>1, SearchStarts
            <3>2. CASE Compare(t)
                BY <3>2, <1>5, CompareFits
            <3>3. CASE w'[t].pc \notin {"compare", "push"}
                BY <3>3, <1>2, <1>5, SearchKept
            <3>4. ASSUME NEW l \in {"test", "ended", "pop"}, NEW x \in Locals,
                         w' = [w EXCEPT ![t] = [x EXCEPT !.pc = l]]
                  PROVE  w'[t].pc \notin {"compare", "push"}
                BY <3>4 DEF TypeOK, Locals
            <3>5. w[t] \in Locals /\ Idle \in Locals
                BY UsageFacts, ListsFit DEF TypeOK, Locals, Idle
            <3>6. CASE ReadOne(t)
                BY <3>3, <3>4, <3>5, <3>6 DEF ReadOne
            <3>7. CASE TestLoop(t)
                BY <3>3, <3>4, <3>5, <3>7 DEF TestLoop
            <3>8. CASE Pop(t)
                <4>1. CASE w' = [w EXCEPT ![t].pc = "ended"]
                    BY <3>3, <3>4, <3>5, <4>1
                <4>2. CASE w' = [w EXCEPT ![t].pc = "load", ![t].item = Head(queue)]
                    <5>1. w'[t] = [w[t] EXCEPT !.pc = "load", !.item = Head(queue)]
                        BY <4>2 DEF TypeOK
                    <5>2. w'[t].pc = "load"
                        BY <3>5, <5>1 DEF Locals
                    <5> QED
                        BY <3>3, <5>2
                <4> QED
                    BY <3>8, <4>1, <4>2 DEF Pop
            <3>9. CASE LoadUnreadable(t)
                BY <3>3, <3>4, <3>5, <3>9 DEF LoadUnreadable
            <3>10. CASE Push(t)
                BY <3>3, <3>4, <3>5, <3>10 DEF Push
            <3>11. CASE PushNoMemory(t)
                BY <3>11 DEF PushNoMemory
            <3> QED
                BY <3>1, <3>2, <3>6, <3>7, <3>8, <3>9, <3>10, <3>11 DEF Worker
        <2> QED
            BY <2>1, <2>2
    <1>8. \A k \in DOMAIN matches' :
            Chosen(matches[k].pair_a, matches[k].pair_b, matches[k].similarity)'
        <2>1. CASE PutsPair(t)
            <3>1. PICK p \in Pairs : /\ matches' = Append(matches, p)
                                     /\ p.pair_a = w[t].item /\ p.pair_b = w[t].match
                                     /\ p.similarity = w[t].max
                BY <2>1, PairPut
            <3>2. /\ DOMAIN matches' = DOMAIN matches \cup {Len(matches) + 1}
                  /\ \A k \in DOMAIN matches : matches'[k] = matches[k]
                  /\ matches'[Len(matches) + 1] = p
                BY <3>1, PairSpoken
            <3>3. Chosen(p.pair_a, p.pair_b, p.similarity)
                BY <1>5, <2>1, <3>1 DEF SearchFits, PutsPair
            <3>4. \A k \in DOMAIN matches' :
                    Chosen(matches'[k].pair_a, matches'[k].pair_b, matches'[k].similarity)
                BY <1>5, <3>2, <3>3
            <3> QED
                BY <1>2, <3>4, UsageKept DEF Chosen, Candidates
        <2>2. CASE matches' = matches
            BY <1>2, <1>5, <2>2, UsageKept DEF Chosen, Candidates
        <2> QED
            BY <1>1, <2>1, <2>2 DEF Quiet, Takes, Leaves, Drops
    <1>9. \A k \in DOMAIN unmatch' : unmatch'[k] \in Unreadable \/ Lone(unmatch[k])'
        <2>1. CASE Leaves(t)
            <3>1. w[t].item \in Unreadable \/ Lone(w[t].item)
                <4>1. CASE LoadUnreadable(t)
                    BY <4>1 DEF LoadUnreadable
                <4>2. CASE Push(t)
                    <5>1. w[t].pc = "push"
                        BY <4>2 DEF Push
                    <5>2. w[t].match = None
                        <6>1. CASE w[t].match # None
                            <7>1. matches' # matches
                                <8>1. PutsPair(t)
                                    BY <2>1, <4>2, <6>1, <5>1 DEF Push, PutsPair, Leaves
                                <8>2. PICK p \in Pairs : matches' = Append(matches, p)
                                    BY <8>1, PairPut
                                <8>3. DOMAIN matches' # DOMAIN matches
                                    BY <8>2, PairSpoken
                                <8> QED
                                    BY <8>3
                            <7> QED
                                BY <2>1, <7>1 DEF Leaves
                        <6> QED
                            BY <6>1
                    <5> QED
                        BY <1>5, <5>1, <5>2 DEF SearchFits
                <4>3. w'[t].item = None /\ w[t].item # None
                    BY <2>1 DEF Leaves, LetsGo, ItemsFit
                <4>4. ~PushNoMemory(t)
                    BY DEF PushNoMemory
                <4>5. unmatch' # unmatch
                    <5>1. w[t].item \in Elements
                        BY <2>1 DEF Leaves, LetsGo, ItemsFit, TypeOK
                    <5>2. Len(unmatch') = Len(unmatch) + 1 /\ Len(unmatch) \in Nat
                        BY <2>1, <5>1 DEF Leaves, TypeOK
                    <5> QED
                        BY <5>2
                <4>6. ~ReadOne(t) /\ ~TestLoop(t) /\ ~Pop(t) /\ ~Load(t) /\ ~Compare(t)
                    BY <4>5 DEF ReadOne, TestLoop, Pop, Load, Compare, found
                <4> QED
                    BY <4>1, <4>2, <4>4, <4>6 DEF Worker
            <3>2. w[t].item \in Elements /\ unmatch' = Append(unmatch, w[t].item)
                BY <2>1 DEF Leaves, LetsGo, ItemsFit, TypeOK
            <3>3. /\ DOMAIN unmatch' = 1..(Len(unmatch) + 1) /\ DOMAIN unmatch = 1..Len(unmatch)
                  /\ Len(unmatch) \in Nat
                  /\ \A k \in DOMAIN unmatch : unmatch'[k] = unmatch[k]
                  /\ unmatch'[Len(unmatch) + 1] = w[t].item
                BY <3>2, PushFacts DEF TypeOK
            <3>4. DOMAIN unmatch' = DOMAIN unmatch \cup {Len(unmatch) + 1}
                BY <3>3
            <3>5. \A k \in DOMAIN unmatch' : unmatch'[k] \in Unreadable \/ Lone(unmatch'[k])
                BY <1>5, <3>1, <3>3, <3>4
            <3> QED
                BY <1>2, <3>5, UsageKept DEF Lone, Candidates
        <2>2. CASE unmatch' = unmatch
            BY <1>2, <1>5, <2>2, UsageKept DEF Lone, Candidates
        <2> QED
            BY <1>1, <2>1, <2>2 DEF Quiet, Takes, PutsPair, Drops
    <1> QED
        BY <1>7, <1>8, <1>9

\* A search that was not cancelled is not disturbed.
LEMMA ControlBest ==
    ASSUME SimilarityAssumption, usage \in Usages, UNCHANGED usage, TypeOK, CallerFits, BestFits,
           Caller \/ Ui
    PROVE  BestFits'
    <1>1. Control
        BY ControlSteps
    <1>2. Mode' = Mode /\ Faults' = Faults /\ Unreadable' = Unreadable
        BY UsageKept
    <1>3. similarity' = similarity /\ matches' = matches /\ unmatch' = unmatch
        BY <1>1 DEF Control
    <1> SUFFICES ASSUME loop' \/ result', Mode = "functions", "memory" \notin Faults
                 PROVE  /\ \A u \in Threads : SearchFits(u)'
                        /\ \A k \in DOMAIN matches' :
                             Chosen(matches[k].pair_a, matches[k].pair_b, matches[k].similarity)'
                        /\ \A k \in DOMAIN unmatch' : unmatch'[k] \in Unreadable \/ Lone(unmatch[k])'
        BY <1>2 DEF BestFits
    <1>4. loop \/ result
        BY <1>1 DEF Control
    <1>5. /\ \A u \in Threads : SearchFits(u)
          /\ \A k \in DOMAIN matches :
               Chosen(matches[k].pair_a, matches[k].pair_b, matches[k].similarity)
          /\ \A k \in DOMAIN unmatch : unmatch[k] \in Unreadable \/ Lone(unmatch[k])
        BY <1>4 DEF BestFits
    <1>6. \A u \in Threads : w'[u] = w[u] \/ w'[u].pc \notin {"compare", "push"}
        BY <1>1 DEF Control, Busy
    <1>7. \A u \in Threads : SearchFits(u)'
        BY <1>3, <1>5, <1>6, SearchKept
    <1>8. \A k \in DOMAIN matches' :
            Chosen(matches[k].pair_a, matches[k].pair_b, matches[k].similarity)'
        BY <1>3, <1>5, UsageKept DEF Chosen, Candidates
    <1>9. \A k \in DOMAIN unmatch' : unmatch'[k] \in Unreadable \/ Lone(unmatch[k])'
        BY <1>3, <1>5, UsageKept DEF Lone, Candidates
    <1> QED
        BY <1>7, <1>8, <1>9
-----------------------------------------------------------------------------
(* The invariant.                                                          *)

\* The invariant holds at first,
LEMMA MatchInit ==
    ASSUME SimilarityAssumption, Init
    PROVE  MatchInv
    <1>1. usage \in Usages /\ TypeOK
        BY InitTypes DEF Init
    <1>2. /\ w = [t \in Threads |-> Idle] /\ queue = list_a /\ matches = <<>> /\ unmatch = <<>>
          /\ at = "spawn" /\ i = 1 /\ result = FALSE /\ closed = FALSE /\ loop = TRUE /\ ui = "none"
        BY DEF Init
    <1>3. \A t \in Threads : w[t].pc = "none" /\ w[t].item = None
        BY <1>2 DEF Idle
    <1>4. /\ Matched = {} /\ Left = {} /\ IsInjective(unmatch) /\ DOMAIN matches = {}
          /\ DOMAIN unmatch = {}
        BY <1>2, EmptyList DEF Matched, Left
    <1>5. ToSet(queue) = Elements /\ IsInjective(queue) /\ None \notin Elements /\ NThreads \in Nat \ {0}
        BY <1>1, <1>2, UsageFacts DEF Elements
    <1>6. ItemsFit
        BY <1>3, <1>5 DEF ItemsFit, Busy
    <1>7. SpokenOnce
        BY <1>4, <1>5 DEF SpokenOnce
    <1>8. NothingDropped
        BY <1>5 DEF NothingDropped
    <1>9. CallerFits
        BY <1>2, <1>3, <1>5 DEF CallerFits, Threads
    <1>10. BestFits
        BY <1>3, <1>4 DEF BestFits, SearchFits
    <1> QED
        BY <1>1, <1>6, <1>7, <1>8, <1>9, <1>10 DEF MatchInv

\* every step keeps it,
LEMMA MatchNext ==
    ASSUME SimilarityAssumption, MatchInv, [Next]_<<vars, usage>>
    PROVE  MatchInv'
    <1> USE DEF MatchInv
    <1>1. CASE (Caller \/ Ui) /\ UNCHANGED usage
        BY <1>1, ControlTypes, ControlItems, ControlCaller, ControlBest
    <1>2. ASSUME NEW t \in Threads, Worker(t), UNCHANGED usage
          PROVE  MatchInv'
        BY <1>2, WorkerTypes, WorkerItems, WorkerCaller, WorkerBest
    <1>3. CASE UNCHANGED <<vars, usage>>
        <2>1. /\ similarity' = similarity /\ queue' = queue /\ closed' = closed /\ loop' = loop
              /\ matches' = matches /\ unmatch' = unmatch /\ w' = w /\ ui' = ui /\ at' = at /\ i' = i
              /\ unmatch_b' = unmatch_b /\ result' = result /\ usage' = usage
            BY <1>3 DEF vars, workqueue, found, caller
        <2>2. TypeOK'
            BY <2>1, UsageKept DEF TypeOK
        <2>3. Matched' = Matched /\ Left' = Left
            BY <2>1 DEF Matched, Left
        <2>4. ItemsFit' /\ SpokenOnce'
            BY <2>1, <2>3 DEF ItemsFit, SpokenOnce
        <2>5. NothingDropped' /\ CallerFits'
            BY <2>1, <2>3, UsageKept DEF NothingDropped, CallerFits
        <2>6. BestFits'
            <3>1. \A u \in Threads : SearchFits(u)' <=> SearchFits(u)
                BY <2>1, UsageKept DEF SearchFits, Seen, Lone, Chosen, Candidates
            <3>2. \A k \in DOMAIN matches :
                    Chosen(matches[k].pair_a, matches[k].pair_b, matches[k].similarity)' <=>
                    Chosen(matches[k].pair_a, matches[k].pair_b, matches[k].similarity)
                BY <2>1, UsageKept DEF Chosen, Candidates
            <3>3. \A k \in DOMAIN unmatch : Lone(unmatch[k])' <=> Lone(unmatch[k])
                BY <2>1, UsageKept DEF Lone, Candidates
            <3> QED
                BY <2>1, <3>1, <3>2, <3>3, UsageKept DEF BestFits
        <2> QED
            BY <2>1, <2>2, <2>4, <2>5, <2>6
    <1> QED
        BY <1>1, <1>2, <1>3 DEF Next

\* and the properties follow from it.
LEMMA MatchCorrect ==
    ASSUME SimilarityAssumption, MatchInv
    PROVE  SimilarCorrect
    <1> USE DEF MatchInv
    <1>1. SharedOutlivesThreads
        BY DEF SharedOutlivesThreads, CallerFits
    <1>2. BestMatch
        <2> SUFFICES ASSUME Returned, Mode = "functions", "memory" \notin Faults
                     PROVE  /\ \A k \in DOMAIN matches :
                                 Chosen(matches[k].pair_a, matches[k].pair_b, matches[k].similarity)
                            /\ \A a \in ToSet(unmatch) \ Unreadable : Lone(a)
            BY DEF BestMatch, Chosen, Lone
        <2>1. result
            BY DEF Returned
        <2> QED
            BY <2>1 DEF BestFits, ToSet
    <1>3. ResultIsComplete
        <2> SUFFICES ASSUME Returned, Keeps
                     PROVE  /\ \A a \in Elements :
                                 Cardinality({k \in DOMAIN matches : matches[k].pair_a = a})
                                 + Cardinality({k \in DOMAIN unmatch : unmatch[k] = a}) = 1
                            /\ ToSet(unmatch_b) = ToSet(list_b) \ {matches[k].pair_b : k \in DOMAIN matches}
            BY DEF ResultIsComplete, Keeps
        <2>1. /\ result /\ at = "done" /\ closed /\ queue = <<>> /\ \A t \in Threads : w[t].pc = "ended"
              /\ ToSet(unmatch_b) = ToSet(list_b) \ {matches[k].pair_b : k \in DOMAIN matches}
            BY DEF Returned, CallerFits
        <2>2. ToSet(queue) = {} /\ \A t \in Threads : w[t].item = None
            BY <2>1, EmptyList DEF ItemsFit, Busy
        <2>3. ASSUME NEW a \in Elements
              PROVE  Cardinality({k \in DOMAIN matches : matches[k].pair_a = a})
                     + Cardinality({k \in DOMAIN unmatch : unmatch[k] = a}) = 1
            <3> DEFINE S == {k \in DOMAIN matches : matches[k].pair_a = a}
                       T == {k \in DOMAIN unmatch : unmatch[k] = a}
            <3>1. a # None
                BY UsageFacts
            <3>2. a \in Matched \cup Left
                BY <2>1, <2>2, <3>1 DEF NothingDropped
            <3>3. CASE a \in Matched
                <4>1. PICK c \in DOMAIN matches : matches[c].pair_a = a
                    BY <3>3 DEF Matched
                <4>2. S = {c}
                    BY <4>1 DEF SpokenOnce
                <4>3. T = {}
                    BY <3>3 DEF SpokenOnce, Left, ToSet
                <4>4. Cardinality(S) = 1 /\ Cardinality(T) = 0
                    BY <4>2, <4>3, FS_Singleton, FS_EmptySet
                <4> QED
                    BY <4>4
            <3>4. CASE a \in Left
                <4>1. PICK c \in DOMAIN unmatch : unmatch[c] = a
                    BY <3>4 DEF Left, ToSet
                <4>2. T = {c}
                    BY <4>1 DEF SpokenOnce, IsInjective
                <4>3. S = {}
                    BY <3>4 DEF SpokenOnce, Matched
                <4>4. Cardinality(S) = 0 /\ Cardinality(T) = 1
                    BY <4>2, <4>3, FS_Singleton, FS_EmptySet
                <4> QED
                    BY <4>4
            <3> QED
                BY <3>2, <3>3, <3>4
        <2> QED
            BY <2>1, <2>3
    <1> QED
        BY <1>1, <1>2, <1>3 DEF SimilarCorrect

\* However many threads search however long lists, and whenever the search is cancelled, a result
\* of analysis_match_result_new speaks of every element exactly once, names the best counterparts
\* and is returned after the threads that made it.
THEOREM EveryElementOnce ==
    ASSUME SimilarityAssumption
    PROVE  Spec => []SimilarCorrect
    <1>1. Init => MatchInv
        BY MatchInit
    <1>2. MatchInv /\ [Next]_<<vars, usage>> => MatchInv'
        BY MatchNext
    <1>3. MatchInv => SimilarCorrect
        BY MatchCorrect
    <1> QED
        BY <1>1, <1>2, <1>3, PTL DEF Spec
-----------------------------------------------------------------------------
(* The parallel iterators: the inductive invariant.                        *)

\* The labels of a worker that uses nothing.
Resting == {"none", "done"}

\* The lock is held exactly between taking an element and moving on.
LockHeld == \A t \in Iterate!Threads : pc[t] \in {"take", "advance"} <=> lock = t

\* What a worker has taken: the element at the position, or one before it.
Held(t) ==
    /\ pc[t] = "advance" => index < Length /\ element[t] = index + 1
    /\ pc[t] = "call" => element[t] \in 1 .. index
    /\ pc[t] \notin {"advance", "call"} => element[t] = 0

HeldOnce ==
    \A t, u \in Iterate!Threads : t # u /\ element[t] # 0 => element[t] # element[u]

\* An element is called for when the position has passed it and no worker has it.
CalledOnce ==
    \A e \in Iterate!Elements :
        /\ calls[e] <= 1
        /\ calls[e] = 1 => e <= index /\ \A t \in Iterate!Threads : element[t] # e

\* An element the position has passed was called for, is NULL, or is with a worker.
Passed ==
    \A e \in Iterate!Elements \ Nulls :
        e <= index => calls[e] = 1 \/ \E t \in Iterate!Threads : element[t] = e

\* A worker ends at the end of the list or when somebody refused.
Ended ==
    /\ ~i_loop => refused
    /\ \A t \in Iterate!Threads : pc[t] = "done" => index = Length \/ ~i_loop

\* Calls after a refusal are the last ones of their workers.
LateOnce ==
    \A t \in Iterate!Threads : late[t] = 0 \/ (late[t] = 1 /\ pc[t] \in {"test", "done"} /\ ~i_loop)

\* The caller has waited for the slots before the one it is at.
Joined ==
    /\ main = "alloc" => \A t \in Iterate!Threads : pc[t] = "none"
    /\ main = "spawn" => \A t \in Iterate!Threads : t >= slot => pc[t] = "none"
    /\ main = "wait" => \A t \in Iterate!Threads : t < slot => pc[t] \in Resting
    /\ main = "returned" => \A t \in Iterate!Threads : pc[t] \in Resting

IterateInv ==
    /\ Iterate!TypeOK /\ LockHeld /\ (\A t \in Iterate!Threads : Held(t)) /\ HeldOnce /\ CalledOnce
    /\ Passed /\ Ended /\ LateOnce /\ Joined

\* The invariant of the iterators holds at first,
LEMMA IterateInit ==
    ASSUME Iterate!ThreadIterateAssumption, Iterate!Init
    PROVE  IterateInv
    <1> USE DEF Iterate!ThreadIterateAssumption, Iterate!Init, Iterate!Threads, Iterate!Elements
    <1>1. Iterate!TypeOK
        <2>1. i_loop \in BOOLEAN /\ refused \in BOOLEAN /\ ok \in BOOLEAN
            OBVIOUS
        <2> QED
            BY <2>1 DEF Iterate!TypeOK
    <1>2. LockHeld /\ (\A t \in Iterate!Threads : Held(t)) /\ HeldOnce
        BY DEF LockHeld, Held, HeldOnce
    <1>3. CalledOnce /\ Passed
        BY DEF CalledOnce, Passed
    <1>4. Ended /\ LateOnce /\ Joined
        BY DEF Ended, LateOnce, Joined
    <1> QED
        BY <1>1, <1>2, <1>3, <1>4 DEF IterateInv

\* The caller moves no element.
LEMMA MainStep ==
    ASSUME Iterate!ThreadIterateAssumption, IterateInv, Iterate!Main
    PROVE  IterateInv'
    <1> USE DEF Iterate!ThreadIterateAssumption
    <1>1. CASE Iterate!Allocate
        BY <1>1 DEF Iterate!Allocate, IterateInv, Iterate!TypeOK, LockHeld, Held, HeldOnce,
           CalledOnce, Passed, Ended,
                    LateOnce, Joined, Resting
    <1>2. CASE Iterate!Wait
        <2>0. slot' \in 1 .. PoolSize + 1 /\ main' \in {"wait", "returned"}
            BY <1>2 DEF Iterate!Wait, IterateInv, Iterate!TypeOK
        <2>b. ok' \in BOOLEAN
            BY <1>2 DEF Iterate!Wait, IterateInv, Iterate!TypeOK
        <2>1. Iterate!TypeOK'
            BY <1>2, <2>0, <2>b DEF Iterate!Wait, IterateInv, Iterate!TypeOK
        <2>2. Joined'
            BY <1>2 DEF Iterate!Wait, IterateInv, Iterate!TypeOK, Joined, Resting, Iterate!Threads
        <2> QED
            BY <1>2, <2>1, <2>2 DEF Iterate!Wait, IterateInv, LockHeld, Held, HeldOnce,
               CalledOnce, Passed,
                                   Ended, LateOnce
    <1>3. CASE Iterate!Spawn
        <2>1. CASE pc' = pc
            <3>1. Iterate!TypeOK'
                BY <1>3, <2>1 DEF Iterate!Spawn, IterateInv, Iterate!TypeOK
            <3>2. Joined'
                BY <1>3, <2>1 DEF Iterate!Spawn, IterateInv, Iterate!TypeOK, Joined, Resting,
                   Iterate!Threads
            <3> QED
                BY <1>3, <2>1, <3>1, <3>2 DEF Iterate!Spawn, IterateInv, LockHeld, Held, HeldOnce,
                   CalledOnce,
                                              Passed, Ended, LateOnce
        <2>2. CASE pc' = [pc EXCEPT ![slot] = "enter"] /\ ~(slot > PoolSize)
            <3>0. slot \in Iterate!Threads /\ pc[slot] = "none" /\ main = "spawn" /\ slot' = slot + 1
                BY <1>3, <2>2 DEF Iterate!Spawn, IterateInv, Iterate!TypeOK, Joined, Iterate!Threads
            <3>1. /\ pc'[slot] = "enter"
                  /\ \A t \in Iterate!Threads : t # slot => pc'[t] = pc[t]
                BY <2>2, <3>0 DEF IterateInv, Iterate!TypeOK
            <3>2. Iterate!TypeOK'
                BY <1>3, <2>2, <3>0 DEF Iterate!Spawn, IterateInv, Iterate!TypeOK, Iterate!Threads
            <3>3. Joined'
                BY <1>3, <2>2, <3>0, <3>1 DEF Iterate!Spawn, IterateInv, Iterate!TypeOK, Joined,
                   Resting, Iterate!Threads
            <3>4. LockHeld' /\ (\A t \in Iterate!Threads : Held(t)')
                BY <1>3, <3>0, <3>1 DEF Iterate!Spawn, IterateInv, LockHeld, Held
            <3>5. LateOnce' /\ Ended'
                BY <1>3, <3>0, <3>1 DEF Iterate!Spawn, IterateInv, LateOnce, Ended
            <3> QED
                BY <1>3, <3>2, <3>3, <3>4, <3>5 DEF Iterate!Spawn, IterateInv, HeldOnce,
                   CalledOnce, Passed
        <2> QED
            BY <1>3, <2>1, <2>2 DEF Iterate!Spawn
    <1> QED
        BY <1>1, <1>2, <1>3 DEF Iterate!Main

\* What every step of a worker leaves alone.
LEMMA WorkerJoined ==
    ASSUME Iterate!ThreadIterateAssumption, IterateInv, NEW t \in Iterate!Threads,
           pc[t] \notin Resting, main' = main, slot' = slot,
           \A u \in Iterate!Threads : u # t => pc'[u] = pc[u]
    PROVE  Joined'
    <1>1. main \in {"spawn", "wait"} /\ (main = "spawn" => t < slot) /\ (main = "wait" => t >= slot)
        <2>1. slot \in Int /\ t \in Int
            BY DEF IterateInv, Iterate!TypeOK, Iterate!Threads
        <2> QED
            BY <2>1 DEF IterateInv, Iterate!TypeOK, Joined, Resting
    <1>2. slot \in Int /\ t \in Int
        BY DEF IterateInv, Iterate!TypeOK, Iterate!Threads
    <1> QED
        BY <1>1, <1>2 DEF IterateInv, Joined, Resting

\* A worker enters the lock.
LEMMA EnterStep ==
    ASSUME Iterate!ThreadIterateAssumption, IterateInv, NEW t \in Iterate!Threads, Iterate!Enter(t)
    PROVE  IterateInv'
    <1>1. pc'[t] = "take" /\ pc[t] = "enter" /\ \A u \in Iterate!Threads : u # t => pc'[u] = pc[u]
        BY DEF Iterate!Enter, Iterate!Goto, IterateInv, Iterate!TypeOK
    <1>2. Joined'
        BY <1>1, WorkerJoined DEF Iterate!Enter, Iterate!Mine, Resting
    <1>3. Iterate!TypeOK'
        BY DEF Iterate!Enter, Iterate!Goto, Iterate!Mine, IterateInv, Iterate!TypeOK
    <1>4. LockHeld'
        <2>1. \A u \in Iterate!Threads : u # 0 /\ (pc[u] \in {"take", "advance"} <=> lock = u)
            BY DEF IterateInv, LockHeld, Iterate!Threads
        <2> QED
            BY <1>1, <2>1 DEF Iterate!Enter, LockHeld
    <1>5. \A u \in Iterate!Threads : Held(u)'
        BY <1>1 DEF Iterate!Enter, IterateInv, Held
    <1>6. Ended' /\ LateOnce'
        BY <1>1 DEF Iterate!Enter, IterateInv, Ended, LateOnce
    <1> QED
        BY <1>2, <1>3, <1>4, <1>5, <1>6 DEF Iterate!Enter, IterateInv, HeldOnce, CalledOnce, Passed

\* A worker finds nothing left.
LEMMA EndStep ==
    ASSUME Iterate!ThreadIterateAssumption, IterateInv, NEW t \in Iterate!Threads, Iterate!End(t)
    PROVE  IterateInv'
    <1>1. pc'[t] = "done" /\ pc[t] = "take" /\ \A u \in Iterate!Threads : u # t => pc'[u] = pc[u]
        BY DEF Iterate!End, Iterate!Goto, IterateInv, Iterate!TypeOK
    <1>2. Joined'
        BY <1>1, WorkerJoined DEF Iterate!End, Iterate!Mine, Resting
    <1>3. Iterate!TypeOK'
        BY DEF Iterate!End, Iterate!Goto, Iterate!Mine, IterateInv, Iterate!TypeOK
    <1>4. LockHeld'
        <2>1. \A u \in Iterate!Threads : u # 0 /\ (pc[u] \in {"take", "advance"} <=> lock = u)
            BY DEF IterateInv, LockHeld, Iterate!Threads
        <2> QED
            BY <1>1, <2>1 DEF Iterate!End, LockHeld
    <1>5. \A u \in Iterate!Threads : Held(u)'
        BY <1>1 DEF Iterate!End, IterateInv, Held
    <1>6. Ended' /\ LateOnce'
        <2>1. index = Length
            BY DEF Iterate!ThreadIterateAssumption, Iterate!End, IterateInv, Iterate!TypeOK
        <2> QED
            BY <1>1, <2>1 DEF Iterate!End, IterateInv, Ended, LateOnce
    <1> QED
        BY <1>2, <1>3, <1>4, <1>5, <1>6 DEF Iterate!End, IterateInv, HeldOnce, CalledOnce, Passed

\* A worker takes the element at the position, which nobody else can have.
LEMMA TakeStep ==
    ASSUME Iterate!ThreadIterateAssumption, IterateInv, NEW t \in Iterate!Threads, Iterate!Take(t)
    PROVE  IterateInv'
    <1>0. index \in 0 .. Length /\ Length \in Nat /\ index < Length /\ lock = t
        BY DEF Iterate!ThreadIterateAssumption, Iterate!Take, IterateInv, Iterate!TypeOK, LockHeld
    <1>1. pc'[t] = "advance" /\ pc[t] = "take" /\ \A u \in Iterate!Threads : u # t => pc'[u] = pc[u]
        BY DEF Iterate!Take, Iterate!Goto, IterateInv, Iterate!TypeOK
    <1>2. element'[t] = index + 1 /\ \A u \in Iterate!Threads : u # t => element'[u] = element[u]
        BY DEF Iterate!Take, IterateInv, Iterate!TypeOK
    <1>3. Joined'
        BY <1>1, WorkerJoined DEF Iterate!Take, Iterate!Mine, Resting
    <1>4. Iterate!TypeOK'
        BY <1>0 DEF Iterate!Take, Iterate!Goto, Iterate!Mine, IterateInv, Iterate!TypeOK,
           Iterate!Elements
    <1>5. LockHeld'
        BY <1>0, <1>1 DEF Iterate!Take, IterateInv, LockHeld
    <1>6. \A u \in Iterate!Threads : Held(u)'
        BY <1>0, <1>1, <1>2 DEF Iterate!Take, IterateInv, Held
    <1>7. \A u \in Iterate!Threads : u # t => element[u] \in 0 .. index
        BY <1>0, <1>1 DEF IterateInv, LockHeld, Held, Iterate!TypeOK, Iterate!Threads
    <1>8. HeldOnce'
        BY <1>0, <1>2, <1>7 DEF IterateInv, HeldOnce
    <1>9. CalledOnce'
        BY <1>0, <1>2 DEF Iterate!Take, IterateInv, CalledOnce, Iterate!Elements
    <1>10. Passed'
        <2>1. element[t] = 0
            BY <1>1 DEF IterateInv, Held
        <2> QED
            BY <1>2, <2>1 DEF Iterate!Take, IterateInv, Passed, Iterate!Elements
    <1>11. Ended' /\ LateOnce'
        BY <1>1 DEF Iterate!Take, IterateInv, Ended, LateOnce
    <1> QED
        BY <1>3, <1>4, <1>5, <1>6, <1>8, <1>9, <1>10, <1>11 DEF IterateInv

\* The position moves past the element that was taken.
LEMMA AdvanceStep ==
    ASSUME Iterate!ThreadIterateAssumption, IterateInv, NEW t \in Iterate!Threads, Iterate!Advance(t)
    PROVE  IterateInv'
    <1>0. /\ index \in 0 .. Length /\ Length \in Nat /\ index < Length /\ lock = t
          /\ element[t] = index + 1 /\ index' = index + 1 /\ UNCHANGED <<element, calls>>
        BY DEF Iterate!ThreadIterateAssumption, Iterate!Advance, IterateInv, Iterate!TypeOK,
           LockHeld, Held
    <1>1. pc'[t] = "call" /\ pc[t] = "advance" /\ \A u \in Iterate!Threads : u # t => pc'[u] = pc[u]
        BY DEF Iterate!Advance, Iterate!Goto, IterateInv, Iterate!TypeOK
    <1>2. Joined'
        BY <1>1, WorkerJoined DEF Iterate!Advance, Iterate!Mine, Resting
    <1>3. Iterate!TypeOK'
        BY <1>0 DEF Iterate!Advance, Iterate!Goto, Iterate!Mine, IterateInv, Iterate!TypeOK
    <1>4. LockHeld'
        <2>1. \A u \in Iterate!Threads : u # 0 /\ (pc[u] \in {"take", "advance"} <=> lock = u)
            BY DEF IterateInv, LockHeld, Iterate!Threads
        <2> QED
            BY <1>0, <1>1, <2>1 DEF Iterate!Advance, LockHeld
    <1>5. \A u \in Iterate!Threads : Held(u)'
        <2>1. \A u \in Iterate!Threads : u # t => pc[u] # "advance"
            BY <1>0 DEF IterateInv, LockHeld
        <2>2. Held(t)'
            BY <1>0, <1>1 DEF Held
        <2>3. ASSUME NEW u \in Iterate!Threads, u # t PROVE Held(u)'
            BY <1>0, <1>1, <2>1, <2>3 DEF IterateInv, Held
        <2> QED
            BY <2>2, <2>3
    <1>6. HeldOnce'
        BY <1>0 DEF IterateInv, HeldOnce
    <1>7. CalledOnce'
        BY <1>0 DEF IterateInv, CalledOnce, Iterate!Elements
    <1>8. Passed'
        <2>1. ASSUME NEW e \in Iterate!Elements \ Nulls, e <= index'
              PROVE  calls[e] = 1 \/ \E u \in Iterate!Threads : element[u] = e
            <3>1. e <= index \/ e = index + 1
                BY <1>0, <2>1 DEF Iterate!Elements
            <3> QED
                BY <1>0, <3>1 DEF IterateInv, Passed
        <2> QED
            BY <1>0, <2>1 DEF Passed, Iterate!Elements
    <1>9. Ended' /\ LateOnce'
        BY <1>0, <1>1 DEF Iterate!Advance, IterateInv, Ended, LateOnce
    <1> QED
        BY <1>2, <1>3, <1>4, <1>5, <1>6, <1>7, <1>8, <1>9 DEF IterateInv

\* The iterator is called for the element of one worker, and for nobody else's.
LEMMA CallStep ==
    ASSUME Iterate!ThreadIterateAssumption, IterateInv, NEW t \in Iterate!Threads, Iterate!Call(t)
    PROVE  IterateInv'
    <1> DEFINE e == element[t]
    <1>0. /\ e \in Iterate!Elements /\ e <= index /\ index \in 0 .. Length /\ index' = index
          /\ calls[e] = 0 /\ pc[t] = "call"
        <2>1. pc[t] = "call" /\ index' = index /\ index \in 0 .. Length
            BY DEF Iterate!Call, IterateInv, Iterate!TypeOK
        <2>2. e \in 1 .. index
            BY <2>1 DEF IterateInv, Held
        <2>3. e \in Iterate!Elements
            BY <2>1, <2>2 DEF Iterate!ThreadIterateAssumption, Iterate!Elements
        <2>4. calls[e] = 0
            <3>1. calls[e] \in Nat /\ calls[e] <= 1 /\ calls[e] # 1
                BY <2>3 DEF IterateInv, Iterate!TypeOK, CalledOnce
            <3> QED
                BY <3>1
        <2> QED
            BY <2>1, <2>2, <2>3, <2>4
    <1>1. element'[t] = 0 /\ \A u \in Iterate!Threads : u # t => element'[u] = element[u]
        BY DEF Iterate!Call, IterateInv, Iterate!TypeOK
    <1>2. \A u \in Iterate!Threads : u # t => pc'[u] = pc[u] /\ late'[u] = late[u]
        BY DEF Iterate!Call, Iterate!Goto, IterateInv, Iterate!TypeOK
    <1>3. pc'[t] \in {"test", "done"} /\ (pc'[t] = "done" => ~i_loop' /\ refused')
        BY DEF Iterate!Call, Iterate!Goto, IterateInv, Iterate!TypeOK
    <1>4. Joined'
        BY <1>0, <1>2, WorkerJoined DEF Iterate!Call, Iterate!Mine, Resting
    <1>5. \A f \in Iterate!Elements : f # e => calls'[f] = calls[f]
        BY DEF Iterate!Call, IterateInv, Iterate!TypeOK
    <1>6. IF e \in Nulls THEN calls' = calls ELSE calls'[e] = 1
        BY <1>0 DEF Iterate!Call, IterateInv, Iterate!TypeOK
    <1>7. i_loop' \in BOOLEAN /\ refused' \in BOOLEAN
        BY DEF Iterate!Call, IterateInv, Iterate!TypeOK
    <1>8. Iterate!TypeOK'
        <2>1. pc' \in [Iterate!Threads -> {"none", "enter", "take", "advance", "call", "test", "done"}]
            BY DEF Iterate!Call, Iterate!Goto, IterateInv, Iterate!TypeOK
        <2>2. calls' \in [Iterate!Elements -> Nat] /\ late' \in [Iterate!Threads -> Nat]
            BY <1>0 DEF Iterate!Call, IterateInv, Iterate!TypeOK
        <2>3. element' \in [Iterate!Threads -> Iterate!Elements \cup {0}]
            BY DEF Iterate!Call, IterateInv, Iterate!TypeOK
        <2> QED
            BY <1>7, <2>1, <2>2, <2>3 DEF Iterate!Call, Iterate!Mine, IterateInv, Iterate!TypeOK
    <1>9. LockHeld'
        BY <1>0, <1>2, <1>3 DEF Iterate!Call, IterateInv, LockHeld
    <1>10. \A u \in Iterate!Threads : Held(u)'
        BY <1>0, <1>1, <1>2, <1>3 DEF Iterate!Call, IterateInv, Held
    <1>11. HeldOnce'
        BY <1>1 DEF IterateInv, HeldOnce
    <1>12. CalledOnce'
        <2>1. ASSUME NEW f \in Iterate!Elements
              PROVE  /\ calls'[f] <= 1
                     /\ calls'[f] = 1 => f <= index /\ \A u \in Iterate!Threads : element'[u] # f
            <3>0. f # 0 /\ e # 0
                BY <1>0 DEF Iterate!Elements
            <3>1. CASE f # e
                BY <1>1, <1>5, <3>0, <3>1 DEF IterateInv, CalledOnce
            <3>2. CASE f = e
                <4>1. \A u \in Iterate!Threads : element'[u] # e
                    BY <1>1, <3>0 DEF IterateInv, HeldOnce
                <4> QED
                    BY <1>0, <1>6, <3>2, <4>1
            <3> QED
                BY <3>1, <3>2
        <2> QED
            BY <1>0, <2>1 DEF CalledOnce
    <1>13. Passed'
        <2>1. ASSUME NEW f \in Iterate!Elements \ Nulls, f <= index
              PROVE  calls'[f] = 1 \/ \E u \in Iterate!Threads : element'[u] = f
            <3>1. CASE f = e
                BY <1>6, <2>1, <3>1
            <3>2. CASE f # e
                <4>1. calls[f] = 1 \/ \E u \in Iterate!Threads : u # t /\ element[u] = f
                    BY <2>1, <3>2 DEF IterateInv, Passed
                <4> QED
                    BY <1>1, <1>5, <3>2, <4>1
            <3> QED
                BY <3>1, <3>2
        <2> QED
            BY <1>0, <2>1 DEF Passed
    <1>14. Ended'
        <2>1. ~i_loop' => refused'
            BY DEF Iterate!Call, IterateInv, Ended
        <2>2. ~i_loop => ~i_loop'
            BY DEF Iterate!Call
        <2> QED
            BY <1>0, <1>2, <1>3, <2>1, <2>2 DEF IterateInv, Ended
    <1>15. LateOnce'
        <2>1. late[t] = 0
            BY <1>0 DEF IterateInv, LateOnce
        <2>2. ~i_loop => ~i_loop'
            BY DEF Iterate!Call
        <2>3. late'[t] = 0 \/ (late'[t] = 1 /\ ~i_loop)
            BY <2>1 DEF Iterate!Call, IterateInv, Iterate!TypeOK
        <2> QED
            BY <1>2, <1>3, <2>2, <2>3 DEF IterateInv, LateOnce
    <1> QED
        BY <1>4, <1>8, <1>9, <1>10, <1>11, <1>12, <1>13, <1>14, <1>15 DEF IterateInv

\* A worker goes on or ends.
LEMMA TestStep ==
    ASSUME Iterate!ThreadIterateAssumption, IterateInv, NEW t \in Iterate!Threads, Iterate!Test(t)
    PROVE  IterateInv'
    <1>1. /\ pc'[t] = (IF i_loop THEN "enter" ELSE "done") /\ pc[t] = "test"
          /\ \A u \in Iterate!Threads : u # t => pc'[u] = pc[u]
        BY DEF Iterate!Test, Iterate!Goto, IterateInv, Iterate!TypeOK
    <1>2. Joined'
        BY <1>1, WorkerJoined DEF Iterate!Test, Iterate!Mine, Resting
    <1>3. Iterate!TypeOK'
        BY DEF Iterate!Test, Iterate!Goto, Iterate!Mine, IterateInv, Iterate!TypeOK
    <1>4. LockHeld'
        BY <1>1 DEF Iterate!Test, IterateInv, LockHeld
    <1>5. \A u \in Iterate!Threads : Held(u)'
        BY <1>1 DEF Iterate!Test, IterateInv, Held
    <1>6. Ended' /\ LateOnce'
        BY <1>1 DEF Iterate!Test, IterateInv, Ended, LateOnce
    <1> QED
        BY <1>2, <1>3, <1>4, <1>5, <1>6 DEF Iterate!Test, IterateInv, HeldOnce, CalledOnce, Passed

\* and always.
LEMMA IterateInvariance ==
    ASSUME Iterate!ThreadIterateAssumption
    PROVE  Iterate!Spec => []IterateInv
    <1>1. Iterate!Init => IterateInv
        BY IterateInit
    <1>2. IterateInv /\ [Iterate!Next]_(Iterate!vars) => IterateInv'
        <2> SUFFICES ASSUME IterateInv, [Iterate!Next]_(Iterate!vars) PROVE IterateInv'
            OBVIOUS
        <2>1. CASE UNCHANGED Iterate!vars
            BY <2>1 DEF Iterate!vars, IterateInv, Iterate!TypeOK, LockHeld, Held, HeldOnce,
               CalledOnce, Passed, Ended,
                        LateOnce, Joined
        <2>2. ASSUME NEW t \in Iterate!Threads, Iterate!Worker(t) PROVE IterateInv'
            BY <2>2, EnterStep, EndStep, TakeStep, AdvanceStep, CallStep, TestStep
               DEF Iterate!Worker
        <2> QED
            BY <2>1, <2>2, MainStep DEF Iterate!Next
    <1> QED
        BY <1>1, <1>2, PTL DEF Iterate!Spec

\* However many workers race over however many elements, the iterator is called at most
\* once on each.
THEOREM CalledAtMostOnce ==
    ASSUME Iterate!ThreadIterateAssumption
    PROVE  Iterate!Spec => []Iterate!EachOnce
    <1>1. IterateInv => Iterate!EachOnce
        BY DEF IterateInv, CalledOnce, Iterate!EachOnce
    <1> QED
        BY <1>1, IterateInvariance, PTL

\* rz_th_iterate_list and rz_th_iterate_pvector never return while a worker can still use
\* the context in their frame.
THEOREM FrameIsSafe ==
    ASSUME Iterate!ThreadIterateAssumption
    PROVE  Iterate!Spec => []Iterate!NoUseAfterReturn
    <1>1. IterateInv => Iterate!NoUseAfterReturn
        BY DEF IterateInv, Joined, Iterate!NoUseAfterReturn, Resting
    <1> QED
        BY <1>1, IterateInvariance, PTL

\* If one worker could be started and nobody refused, every element was handed to the
\* iterator.
THEOREM NothingSkipped ==
    ASSUME Iterate!ThreadIterateAssumption
    PROVE  Iterate!Spec => []Iterate!Complete
    <1>1. ASSUME IterateInv, main = "returned", ~refused, NEW t \in Iterate!Threads, pc[t] = "done",
                 NEW e \in Iterate!Elements \ Nulls
          PROVE  calls[e] = 1
        <2>1. index = Length
            BY <1>1 DEF IterateInv, Ended
        <2>2. e <= index
            BY <2>1 DEF Iterate!ThreadIterateAssumption, Iterate!Elements
        <2>3. \A u \in Iterate!Threads : element[u] = 0
            BY <1>1 DEF IterateInv, Joined, Resting, Held
        <2>4. e # 0
            BY DEF Iterate!Elements
        <2> QED
            BY <1>1, <2>2, <2>3, <2>4 DEF IterateInv, Passed
    <1>2. IterateInv => Iterate!Complete
        BY <1>1 DEF Iterate!Complete
    <1> QED
        BY <1>2, IterateInvariance, PTL

\* After a refusal each worker calls the iterator once more at most.
THEOREM StopIsPrompt ==
    ASSUME Iterate!ThreadIterateAssumption
    PROVE  Iterate!Spec => []Iterate!StopsSoon
    <1>1. IterateInv => Iterate!StopsSoon
        BY DEF IterateInv, LateOnce, Iterate!StopsSoon
    <1> QED
        BY <1>1, IterateInvariance, PTL

\* For any number of workers and any list rz_th_iterate_list hands each element to the
\* iterator once, leaves none out, stops on a refusal and returns after its workers.
THEOREM IteratorIsSafe ==
    ASSUME Iterate!ThreadIterateAssumption
    PROVE  Iterate!Spec => []IteratorSafe
    <1>1. IterateInv => Iterate!TypeOK
        BY DEF IterateInv
    <1>2. Iterate!TypeOK /\ Iterate!EachOnce /\ Iterate!NoUseAfterReturn /\ Iterate!Complete
          /\ Iterate!StopsSoon => IteratorSafe
        BY DEF IteratorSafe, Iterate!IteratorSafe
    <1> QED
        BY <1>1, <1>2, IterateInvariance, CalledAtMostOnce, FrameIsSafe, NothingSkipped,
           StopIsPrompt, PTL
-----------------------------------------------------------------------------
(* The search for base addresses: sectors, alignment and the order of the  *)
(* pairs.                                                                  *)

\* Sectors lie side by side from the start of the range on.
LEMMA SectorFacts ==
    ASSUME Base!BaseFindAssumption, Base!Fits
    PROVE  /\ Base!Sector \in Nat /\ MaxBase \in Nat
           /\ PoolSize * Base!Sector >= EndAddress - StartAddress
           /\ \A t \in Base!Threads :
                /\ Base!SectorStart(t) = StartAddress + (t - 1) * Base!Sector
                /\ Base!SectorEnd(t) = StartAddress + t * Base!Sector
                /\ Base!SectorEnd(t) + Alignment <= MaxBase + 1
    <1> DEFINE n == (EndAddress - StartAddress) + PoolSize - 1
               q == Base!Sector
    <1>1. /\ PoolSize \in Nat /\ PoolSize >= 1 /\ StartAddress \in Nat /\ EndAddress \in Nat
          /\ MaxBase \in Nat /\ StartAddress < EndAddress /\ Alignment \in Nat /\ Alignment >= 1
        BY DEF Base!BaseFindAssumption
    <1>2. n \in Nat /\ n < MaxBase + 1
        BY <1>1 DEF Base!Fits, Base!W
    <1>3. n % (MaxBase + 1) = n
        BY <1>1, <1>2
    <1>4. q = n \div PoolSize
        BY <1>3 DEF Base!Sector, Base!W
    <1> HIDE DEF n
    <1>5. q \in Nat /\ PoolSize * q <= n /\ n < PoolSize * q + PoolSize
        BY <1>1, <1>2, <1>4
    <1>6. PoolSize * q >= EndAddress - StartAddress
        BY <1>1, <1>5 DEF n
    <1>7. StartAddress + q * PoolSize + Alignment <= MaxBase + 1
        BY DEF Base!Fits, Base!W
    <1> HIDE DEF q
    <1>8. ASSUME NEW t \in Base!Threads
          PROVE  /\ (t - 1) * q \in Nat /\ t * q \in Nat
                 /\ (t - 1) * q + q = t * q
                 /\ t * q <= PoolSize * q
                 /\ q * (t - 1) = (t - 1) * q
        <2>1. t \in Nat /\ t >= 1 /\ t <= PoolSize
            BY <1>1 DEF Base!Threads
        <2>2. PICK d \in Nat : PoolSize = t + d
            BY <1>1, <2>1
        <2>3. d * q \in Nat /\ PoolSize * q = t * q + d * q
            BY <1>5, <2>1, <2>2
        <2> QED
            BY <1>5, <2>1, <2>3
    <1>9. ASSUME NEW t \in Base!Threads
          PROVE  /\ Base!SectorStart(t) = StartAddress + (t - 1) * q
                 /\ Base!SectorEnd(t) = StartAddress + t * q
                 /\ Base!SectorEnd(t) + Alignment <= MaxBase + 1
        <2> DEFINE a == StartAddress + (t - 1) * q
                   b == StartAddress + t * q
        <2>1. a \in Nat /\ b \in Nat /\ a + q = b /\ b + Alignment <= MaxBase + 1 /\ a <= b
            BY <1>1, <1>5, <1>7, <1>8
        <2>2. Base!SectorStart(t) = a % (MaxBase + 1)
            BY <1>8 DEF Base!SectorStart, Base!W, q
        <2> HIDE DEF a, b
        <2>3. a % (MaxBase + 1) = a /\ b % (MaxBase + 1) = b
            BY <1>1, <2>1
        <2>4. Base!SectorEnd(t) = b
            BY <2>1, <2>2, <2>3 DEF Base!SectorEnd, Base!W, q
        <2> QED
            BY <2>1, <2>2, <2>3, <2>4 DEF a, b
    <1> QED
        BY <1>1, <1>5, <1>6, <1>9 DEF q

\* The sectors of two threads have no base in common.
LEMMA SectorsApart ==
    ASSUME Base!BaseFindAssumption, Base!Fits,
           NEW t \in Base!Threads, NEW u \in Base!Threads, t # u
    PROVE  Base!SectorEnd(t) <= Base!SectorStart(u) \/ Base!SectorEnd(u) <= Base!SectorStart(t)
    <1> DEFINE q == Base!Sector
    <1>1. t \in Nat /\ u \in Nat /\ StartAddress \in Nat
        BY DEF Base!Threads, Base!BaseFindAssumption
    <1>2. q \in Nat
        BY SectorFacts
    <1> HIDE DEF q
    <1>3. ASSUME NEW x \in Nat, NEW y \in Nat, x < y
          PROVE  x * q <= (y - 1) * q
        <2>1. PICK d \in Nat : y - 1 = x + d
            BY <1>3
        <2>2. (y - 1) * q = x * q + d * q /\ d * q \in Nat /\ x * q \in Nat
            BY <1>2, <2>1
        <2> QED
            BY <2>2
    <1>4. /\ Base!SectorEnd(t) = StartAddress + t * q /\ Base!SectorStart(t) = StartAddress + (t - 1) * q
          /\ Base!SectorEnd(u) = StartAddress + u * q /\ Base!SectorStart(u) = StartAddress + (u - 1) * q
        BY SectorFacts DEF q
    <1>5. t * q \in Nat /\ u * q \in Nat /\ (t - 1) * q \in Int /\ (u - 1) * q \in Int
        BY <1>1, <1>2
    <1>6. CASE t < u
        <2>1. t * q <= (u - 1) * q
            BY <1>1, <1>3, <1>6
        <2> QED
            BY <1>1, <1>4, <1>5, <2>1
    <1>7. CASE u < t
        <2>1. u * q <= (t - 1) * q
            BY <1>1, <1>3, <1>7
        <2> QED
            BY <1>1, <1>4, <1>5, <2>1
    <1> QED
        BY <1>1, <1>6, <1>7

\* Every base of the range is in a sector.
LEMMA SectorsCovering ==
    ASSUME Base!BaseFindAssumption, Base!Fits
    PROVE  Base!SectorsCover
    <1> SUFFICES ASSUME NEW b \in StartAddress .. EndAddress - 1
                 PROVE  \E t \in Base!Threads : Base!SectorStart(t) <= b /\ b < Base!SectorEnd(t)
        BY DEF Base!SectorsCover
    <1> DEFINE q == Base!Sector
               x == b - StartAddress
               d == x \div q
    <1>1. /\ PoolSize \in Nat /\ PoolSize >= 1 /\ StartAddress \in Nat /\ EndAddress \in Nat
          /\ StartAddress < EndAddress
        BY DEF Base!BaseFindAssumption
    <1>2. q \in Nat /\ PoolSize * q >= EndAddress - StartAddress
        BY SectorFacts
    <1>3. x \in Nat /\ x < EndAddress - StartAddress /\ b = StartAddress + x
        BY <1>1
    <1> HIDE DEF q, x
    <1>4. q >= 1
        BY <1>1, <1>2
    <1>5. d \in Nat /\ q * d <= x /\ x < q * d + q
        BY <1>2, <1>3, <1>4
    <1> HIDE DEF d
    <1>6. d < PoolSize
        <2> SUFFICES ASSUME d >= PoolSize PROVE FALSE
            BY <1>1, <1>5
        <2>1. PICK e \in Nat : d = PoolSize + e
            BY <1>1, <1>5
        <2>2. q * d = PoolSize * q + q * e /\ q * e \in Nat /\ PoolSize * q \in Nat
            BY <1>1, <1>2, <2>1
        <2> QED
            BY <1>1, <1>2, <1>3, <1>5, <2>2
    <1>7. d + 1 \in Base!Threads
        BY <1>1, <1>5, <1>6 DEF Base!Threads
    <1>8. /\ Base!SectorStart(d + 1) = StartAddress + ((d + 1) - 1) * q
          /\ Base!SectorEnd(d + 1) = StartAddress + (d + 1) * q
        BY <1>7, SectorFacts DEF q
    <1>9. ((d + 1) - 1) * q = q * d /\ (d + 1) * q = q * d + q /\ q * d \in Nat
        BY <1>2, <1>5
    <1>10. Base!SectorStart(d + 1) <= b /\ b < Base!SectorEnd(d + 1)
        BY <1>1, <1>2, <1>3, <1>5, <1>8, <1>9
    <1> QED
        BY <1>7, <1>10

\* Division with a remainder.
LEMMA Division ==
    ASSUME NEW a \in Nat, a >= 1, NEW z \in Nat
    PROVE  \E s \in Nat, r \in Nat : r < a /\ z = a * s + r /\ r = z % a
    <1>1. z \div a \in Nat
        OBVIOUS
    <1>2. z % a \in Nat /\ z % a < a
        OBVIOUS
    <1>3. z = a * (z \div a) + (z % a)
        OBVIOUS
    <1> QED
        BY <1>1, <1>2, <1>3

\* From a multiple of the alignment the next one is an alignment further.
LEMMA AlignedStep ==
    ASSUME NEW a \in Nat, a >= 1, NEW x \in Nat, x % a = 0
    PROVE  /\ (x + a) % a = 0
           /\ \A y \in Nat : y % a = 0 /\ x <= y /\ y < x + a => y = x
    <1> DEFINE p == x \div a
    <1>1. p \in Nat /\ x = a * p
        OBVIOUS
    <1> HIDE DEF p
    <1>2. (x + a) % a = 0
        <2> DEFINE z == x + a
        <2>1. z = a * (p + 1) /\ z \in Nat
            BY <1>1
        <2> HIDE DEF z
        <2>2. PICK s \in Nat, r \in Nat : r < a /\ z = a * s + r /\ r = z % a
            BY <2>1, Division
        <2>3. CASE s <= p
            <3>1. PICK e \in Nat : p = s + e
                BY <1>1, <2>2, <2>3
            <3>2. a * (p + 1) = a * s + a * e + a /\ a * e \in Nat /\ a * s \in Nat
                BY <2>2, <3>1
            <3> QED
                BY <2>1, <2>2, <3>2
        <2>4. CASE s > p + 1
            <3>1. PICK e \in Nat : s = p + 1 + e + 1
                BY <1>1, <2>2, <2>4
            <3>2. a * s = a * (p + 1) + a * e + a /\ a * e \in Nat /\ a * (p + 1) \in Nat
                BY <1>1, <3>1
            <3> QED
                BY <2>1, <2>2, <3>2
        <2>5. CASE s = p + 1
            BY <1>1, <2>1, <2>2, <2>5 DEF z
        <2> QED
            BY <1>1, <2>2, <2>3, <2>4, <2>5
    <1>3. ASSUME NEW y \in Nat, y % a = 0, x <= y, y < x + a
          PROVE  y = x
        <2> DEFINE s == y \div a
        <2>1. s \in Nat /\ y = a * s
            BY <1>3
        <2> HIDE DEF s
        <2>2. CASE s < p
            <3>1. PICK e \in Nat : p = s + e + 1
                BY <1>1, <2>1, <2>2
            <3>2. a * p = a * s + a * e + a /\ a * e \in Nat /\ a * s \in Nat
                BY <2>1, <3>1
            <3> QED
                BY <1>1, <1>3, <2>1, <3>2
        <2>3. CASE s > p
            <3>1. PICK e \in Nat : s = p + e + 1
                BY <1>1, <2>1, <2>3
            <3>2. a * s = a * p + a * e + a /\ a * e \in Nat /\ a * p \in Nat
                BY <1>1, <3>1
            <3> QED
                BY <1>1, <1>3, <2>1, <3>2
        <2> QED
            BY <1>1, <2>1, <2>2, <2>3
    <1> QED
        BY <1>2, <1>3

\* basefind_score_compare orders the pairs.
LEMMA BeforeOrder ==
    ASSUME NEW a \in Base!Pair, NEW b \in Base!Pair, NEW c \in Base!Pair
    PROVE  /\ ~Base!Before(a, a)
           /\ Base!Before(a, b) => ~Base!Before(b, a)
           /\ Base!Before(a, b) /\ ~Base!Before(c, b) => Base!Before(a, c)
           /\ ~Base!Before(b, a) /\ Base!Before(b, c) => Base!Before(a, c)
           /\ ~Base!Before(b, a) /\ ~Base!Before(c, b) => ~Base!Before(c, a)
    <1>1. /\ a.score \in Int /\ b.score \in Int /\ c.score \in Int
          /\ a.candidate \in Int /\ b.candidate \in Int /\ c.candidate \in Int
        BY DEF Base!Pair
    <1> QED
        BY <1>1 DEF Base!Before

\* rz_list_sort moves the pairs around, and leaves none behind a pair it is before.
LEMMA SortedFacts ==
    ASSUME NEW s \in Seq(Base!Pair)
    PROVE  /\ Base!Sorted(s) \in Seq(Base!Pair)
           /\ DOMAIN Base!Sorted(s) = DOMAIN s
           /\ \E p \in [DOMAIN s -> DOMAIN s] :
                /\ \A k \in DOMAIN s : Base!Sorted(s)[k] = s[p[k]]
                /\ \A j, k \in DOMAIN s : p[j] = p[k] => j = k
                /\ \A i0 \in DOMAIN s : \E k \in DOMAIN s : p[k] = i0
           /\ \A j, k \in DOMAIN s :
                j < k => ~Base!Before(Base!Sorted(s)[k], Base!Sorted(s)[j])
    <1> DEFINE D == DOMAIN s
               n == Len(s)
               B(x, y) == Base!Before(s[x], s[y])
               Upto(x) == {j \in D : B(j, x) \/ (~B(x, j) /\ j <= x)}
               Place(x) == Cardinality(Upto(x))
               place == [x \in D |-> Place(x)]
               At(k) == CHOOSE x \in D : Place(x) = k
               p == [k \in D |-> At(k)]
    <1>1. D = 1..n /\ n \in Nat /\ D \subseteq Int /\ \A x \in D : s[x] \in Base!Pair
        OBVIOUS
    <1>2. IsFiniteSet(D) /\ Cardinality(D) = n
        BY <1>1, FS_Interval
    <1>3. \A x, y, z \in D :
            /\ ~B(x, x)
            /\ B(x, y) => ~B(y, x)
            /\ B(x, y) /\ ~B(z, y) => B(x, z)
            /\ ~B(y, x) /\ B(y, z) => B(x, z)
            /\ ~B(y, x) /\ ~B(z, y) => ~B(z, x)
        BY <1>1, BeforeOrder
    <1> HIDE DEF D, B
    <1>4. \A x \in D : x \in Upto(x)
        BY <1>1, <1>3
    <1>5. ASSUME NEW x \in D
          PROVE  IsFiniteSet(Upto(x)) /\ Place(x) \in D
        <2>1. Upto(x) \in SUBSET D
            OBVIOUS
        <2>2. x \in Upto(x)
            BY <1>4
        <2> HIDE DEF Upto
        <2>3. IsFiniteSet(Upto(x)) /\ Place(x) <= n
            BY <2>1, <1>2, FS_Subset
        <2>4. Place(x) \in Nat /\ Place(x) # 0
            BY <2>2, <2>3, FS_CardinalityType, FS_EmptySet
        <2> HIDE DEF Place, n
        <2> QED
            BY <1>1, <2>3, <2>4
    <1>6. ASSUME NEW x \in D, NEW y \in D, x # y, x \in Upto(y)
          PROVE  Place(x) < Place(y)
        <2>1. Upto(x) \in SUBSET Upto(y)
            BY <1>1, <1>3, <1>6
        <2>2. y \notin Upto(x) /\ y \in Upto(y)
            BY <1>1, <1>3, <1>4, <1>6
        <2>3. IsFiniteSet(Upto(y)) /\ Place(x) \in Int /\ Place(y) \in Int
            BY <1>1, <1>5
        <2> HIDE DEF Upto
        <2>4. Place(x) <= Place(y) /\ Place(x) # Place(y)
            BY <2>1, <2>2, <2>3, FS_Subset
        <2> HIDE DEF Place
        <2> QED
            BY <2>3, <2>4
    <1>7. \A x, y \in D : x \in Upto(y) \/ y \in Upto(x)
        BY <1>1
    <1>8. \A x, y \in D : Place(x) = Place(y) => x = y
        <2>1. \A x \in D : Place(x) \in Int
            BY <1>1, <1>5
        <2> HIDE DEF Upto, Place
        <2> QED
            BY <2>1, <1>6, <1>7
    <1>9. \A x, y \in D : Place(x) < Place(y) => ~B(y, x)
        <2> SUFFICES ASSUME NEW x \in D, NEW y \in D, Place(x) < Place(y), B(y, x)
                     PROVE  FALSE
            OBVIOUS
        <2>1. x # y
            BY <1>3
        <2>2. y \in Upto(x)
            OBVIOUS
        <2>3. Place(y) < Place(x)
            BY <1>6, <2>1, <2>2
        <2>4. Place(x) \in Int /\ Place(y) \in Int
            BY <1>1, <1>5
        <2> HIDE DEF Place
        <2> QED
            BY <2>3, <2>4
    <1>10. \A x \in D : Place(x) \in D
        BY <1>5
    <1> HIDE DEF Place
    <1>11. place \in Injection(D, D)
        BY <1>8, <1>10 DEF Injection, IsInjective
    <1>12. place \in Surjection(D, D)
        <2> HIDE DEF place
        <2> QED
            BY <1>2, <1>11, FS_Injection
    <1>13. \A k \in D : \E x \in D : Place(x) = k
        BY <1>12 DEF Surjection
    <1>14. \A k \in D : At(k) \in D /\ Place(At(k)) = k
        BY <1>13
    <1>15. \A x \in D : At(Place(x)) = x
        BY <1>8, <1>10, <1>14
    <1>16. Base!Sorted(s) = [k \in D |-> s[At(k)]]
        BY Zenon DEF Base!Sorted, Place, Upto, D, B, At, Base!Cardinality, Cardinality
    <1> HIDE DEF At
    <1>17. p \in [D -> D] /\ \A k \in D : Base!Sorted(s)[k] = s[p[k]]
        BY <1>14, <1>16
    <1>18. \A j, k \in D : p[j] = p[k] => j = k
        BY <1>14
    <1>19. \A x \in D : p[Place(x)] = x
        BY <1>10, <1>15
    <1>20. \A x \in D : \E k \in D : p[k] = x
        BY <1>10, <1>19
    <1>21. Base!Sorted(s) \in Seq(Base!Pair) /\ DOMAIN Base!Sorted(s) = D
        BY <1>1, <1>14, <1>16
    <1>22. \A j, k \in D : j < k => ~Base!Before(Base!Sorted(s)[k], Base!Sorted(s)[j])
        <2>1. \A j, k \in D : j < k => ~B(At(k), At(j))
            BY <1>9, <1>14
        <2> QED
            BY <2>1, <1>16 DEF B
    <1> QED
        BY <1>17, <1>18, <1>20, <1>21, <1>22 DEF D
-----------------------------------------------------------------------------
(* The search for base addresses: the inductive invariant.                 *)

\* The list is changed under its lock, from what it is then.
ListLocked ==
    \A t \in Base!Threads :
        /\ b_pc[t] = "append" <=> b_lock = t
        /\ b_pc[t] = "append" => copy[t] = scores

\* A candidate added after the thread was told to stop is its last.
Stopping ==
    \A t \in Base!Threads :
        extra[t] = 0 \/ (extra[t] = 1 /\ ~b_loop[t] /\ b_pc[t] \in {"step", "done"})

\* What the place of the caller says of the threads.
Phases ==
    /\ b_main = "create" =>
         b_ui = "none" /\ \A t \in Base!Threads : b_pc[t] = "none" <=> t >= b_slot
    /\ b_main \in {"ui", "wait", "wait_ui"} => \A t \in Base!Threads : b_pc[t] # "none"
    /\ b_main = "ui" => b_ui = "none" /\ b_slot = 1
    /\ b_main = "wait" => \A t \in Base!Threads : t < b_slot => b_pc[t] = "done"
    /\ b_main = "wait_ui" => \A t \in Base!Threads : b_pc[t] = "done"
    /\ b_main = "freed" => b_ui # "show"
    /\ b_main = "freed" /\ ~failed => \A t \in Base!Threads : b_pc[t] = "done"
    /\ failed => b_main = "freed"

SearchControl == Base!TypeOK /\ ListLocked /\ Stopping /\ Phases /\ Base!Ranked

\* The invariant of the search holds at first,
LEMMA SearchInit ==
    ASSUME Base!BaseFindAssumption, Base!Init
    PROVE  SearchControl
    <1> USE DEF Base!BaseFindAssumption, Base!Init, Base!Threads
    <1>1. Base!TypeOK
        <2>1. failed \in BOOLEAN /\ b_lost \in BOOLEAN /\ b_loop \in [Base!Threads -> BOOLEAN]
            OBVIOUS
        <2>2. scores \in Seq(Base!Pair) /\ copy \in [Base!Threads -> Seq(Base!Pair)]
            OBVIOUS
        <2> QED
            BY <2>1, <2>2 DEF Base!TypeOK
    <1>2. ListLocked /\ Stopping /\ Phases /\ Base!Ranked
        BY DEF ListLocked, Stopping, Phases, Base!Ranked
    <1> QED
        BY <1>1, <1>2 DEF SearchControl

\* The next base is a base.
LEMMA AdvanceFacts ==
    ASSUME Base!BaseFindAssumption, Base!TypeOK, NEW t \in Base!Threads, Base!Advance(t)
    PROVE  /\ base' \in [Base!Threads -> 0 .. MaxBase]
           /\ base'[t] = (base[t] + Alignment) % (MaxBase + 1)
           /\ \A u \in Base!Threads : u # t => base'[u] = base[u]
    <1>1. /\ base \in [Base!Threads -> 0 .. MaxBase] /\ Alignment \in Nat /\ MaxBase \in Nat
        BY DEF Base!TypeOK, Base!BaseFindAssumption
    <1>2. (base[t] + Alignment) % (MaxBase + 1) \in 0 .. MaxBase
        BY <1>1
    <1> QED
        BY <1>1, <1>2 DEF Base!Advance, Base!W

\* and a step of a search thread keeps it.
LEMMA RunnerControl ==
    ASSUME Base!BaseFindAssumption, SearchControl, NEW t \in Base!Threads, Base!Runner(t)
    PROVE  SearchControl'
    <1> USE DEF SearchControl
    <1>1. /\ b_main \in {"create", "ui", "wait", "wait_ui"} /\ b_main' = b_main
          /\ b_slot' = b_slot /\ failed' = failed /\ b_loop' = b_loop /\ b_ui' = b_ui
        BY DEF Base!Runner, Base!TypeOK, Base!Step, Base!ScoreBase, Base!Enter, Base!AppendPair,
               Base!Shared
    <1>2. Base!Ranked'
        BY <1>1 DEF Base!Ranked
    <1>3. t \in Int /\ t # 0 /\ b_slot \in Int
        BY DEF Base!Threads, Base!TypeOK
    <1>4. ASSUME b_pc[t] \notin {"none", "done"}, b_pc'[t] # "none",
                 \A u \in Base!Threads : u # t => b_pc'[u] = b_pc[u]
          PROVE  Phases'
        BY <1>1, <1>3, <1>4 DEF Phases
    <1>5. CASE Base!Step(t)
        <2>1. /\ b_pc[t] = "step" /\ b_pc'[t] \in {"score", "done"} /\ (b_pc'[t] = "score" => b_loop[t])
              /\ \A u \in Base!Threads : u # t => b_pc'[u] = b_pc[u]
              /\ b_pc' \in [Base!Threads -> {"none", "step", "score", "lock", "append", "done"}]
            BY <1>5 DEF Base!Step, Base!Goto, Base!TypeOK
        <2>2. UNCHANGED <<b_lost, base, b_found, copy, scores, b_lock, extra>>
            BY <1>5 DEF Base!Step
        <2>3. Base!TypeOK'
            BY <1>1, <2>1, <2>2 DEF Base!TypeOK
        <2>4. ListLocked' /\ Stopping'
            BY <1>1, <2>1, <2>2 DEF ListLocked, Stopping
        <2> QED
            BY <1>2, <1>4, <2>1, <2>3, <2>4
    <1>6. CASE Base!ScoreBase(t)
        <2>1. /\ b_pc[t] = "score" /\ b_pc'[t] \in {"step", "lock", "done"}
              /\ \A u \in Base!Threads : u # t => b_pc'[u] = b_pc[u]
              /\ b_pc' \in [Base!Threads -> {"none", "step", "score", "lock", "append", "done"}]
            BY <1>6 DEF Base!ScoreBase, Base!Goto, Base!TypeOK
        <2>2. UNCHANGED <<copy, scores, b_lock, extra>>
            BY <1>6 DEF Base!ScoreBase
        <2>3. base' \in [Base!Threads -> 0 .. MaxBase]
            BY <1>6, AdvanceFacts DEF Base!ScoreBase, Base!TypeOK
        <2>4. b_found' \in [Base!Threads -> Nat] /\ b_lost' \in BOOLEAN
            <3>1. Score[base[t]] \in Nat
                BY DEF Base!TypeOK, Base!BaseFindAssumption
            <3>2. \A s \in 0 .. Score[base[t]] : s \in Nat
                BY <3>1
            <3>3. b_lost' = b_lost \/ b_lost' = TRUE
                BY <1>6 DEF Base!ScoreBase
            <3> QED
                BY <1>6, <3>2, <3>3 DEF Base!ScoreBase, Base!TypeOK
        <2>5. Base!TypeOK'
            BY <1>1, <2>1, <2>2, <2>3, <2>4 DEF Base!TypeOK
        <2>6. ListLocked' /\ Stopping'
            BY <1>1, <2>1, <2>2 DEF ListLocked, Stopping
        <2> QED
            BY <1>2, <1>4, <2>1, <2>5, <2>6
    <1>7. CASE Base!Enter(t)
        <2>1. /\ b_pc[t] = "lock" /\ b_pc'[t] = "append" /\ b_lock = 0 /\ b_lock' = t
              /\ \A u \in Base!Threads : u # t => b_pc'[u] = b_pc[u]
              /\ b_pc' \in [Base!Threads -> {"none", "step", "score", "lock", "append", "done"}]
              /\ copy' = [copy EXCEPT ![t] = scores]
            BY <1>7 DEF Base!Enter, Base!Goto, Base!TypeOK
        <2>2. UNCHANGED <<b_lost, base, b_found, scores, extra>>
            BY <1>7 DEF Base!Enter
        <2>3. Base!TypeOK'
            BY <1>1, <2>1, <2>2 DEF Base!TypeOK
        <2>4. \A u \in Base!Threads : u # 0
            BY DEF Base!Threads
        <2>5. copy'[t] = scores
            BY <2>1 DEF Base!TypeOK
        <2>6. ListLocked' /\ Stopping'
            BY <1>1, <2>1, <2>2, <2>4, <2>5 DEF ListLocked, Stopping
        <2> QED
            BY <1>2, <1>4, <2>1, <2>3, <2>6
    <1>8. CASE Base!AppendPair(t)
        <2>1. /\ b_pc[t] = "append" /\ b_pc'[t] = "step" /\ b_lock' = 0
              /\ \A u \in Base!Threads : u # t => b_pc'[u] = b_pc[u]
              /\ b_pc' \in [Base!Threads -> {"none", "step", "score", "lock", "append", "done"}]
              /\ copy' = [copy EXCEPT ![t] = <<>>] /\ b_found' = [b_found EXCEPT ![t] = 0]
              /\ b_lost' = b_lost
            BY <1>8 DEF Base!AppendPair, Base!Goto, Base!TypeOK
        <2>2. base' \in [Base!Threads -> 0 .. MaxBase]
            BY <1>8, AdvanceFacts DEF Base!AppendPair
        <2>3. scores' \in Seq(Base!Pair)
            <3>1. [candidate |-> base[t], score |-> b_found[t]] \in Base!Pair
                BY DEF Base!TypeOK, Base!Pair
            <3> QED
                BY <1>8, <3>1 DEF Base!AppendPair, Base!TypeOK
        <2>4. /\ extra[t] = 0
              /\ extra' = IF b_loop[t] THEN extra ELSE [extra EXCEPT ![t] = @ + 1]
            BY <1>8, <2>1 DEF Stopping, Base!AppendPair
        <2>5. /\ extra' \in [Base!Threads -> Nat]
              /\ extra'[t] = 0 \/ (extra'[t] = 1 /\ ~b_loop[t])
              /\ \A u \in Base!Threads : u # t => extra'[u] = extra[u]
            BY <2>4 DEF Base!TypeOK
        <2>0. /\ copy' \in [Base!Threads -> Seq(Base!Pair)] /\ b_found' \in [Base!Threads -> Nat]
              /\ b_lock' \in Base!Threads \cup {0}
            BY <2>1 DEF Base!TypeOK
        <2>6. Base!TypeOK'
            BY <1>1, <2>0, <2>1, <2>2, <2>3, <2>5 DEF Base!TypeOK
        <2>7. \A u \in Base!Threads : u # 0 /\ (u # t => b_pc[u] # "append")
            BY <2>1 DEF Base!Threads, ListLocked
        <2>8. ListLocked'
            BY <2>1, <2>7 DEF ListLocked
        <2>9. Stopping'
            BY <1>1, <2>1, <2>5 DEF Stopping
        <2> QED
            BY <1>2, <1>4, <2>1, <2>6, <2>8, <2>9
    <1> QED
        BY <1>5, <1>6, <1>7, <1>8 DEF Base!Runner

\* The caller and the callback keep it, too.
LEMMA CallerControl ==
    ASSUME Base!BaseFindAssumption, SearchControl, Base!Main \/ Base!Show
    PROVE  SearchControl'
    <1> USE DEF SearchControl
    <1>0. \A t \in Base!Threads : t \in Int /\ t >= 1 /\ t <= PoolSize
        BY DEF Base!Threads, Base!BaseFindAssumption
    <1>a. b_slot \in Int /\ PoolSize \in Nat /\ PoolSize >= 1
        BY DEF Base!TypeOK, Base!BaseFindAssumption
    <1>s. ASSUME Base!StopAll
          PROVE  /\ b_loop' \in [Base!Threads -> BOOLEAN]
                 /\ \A t \in Base!Threads : b_loop'[t] => b_loop[t]
        BY <1>s DEF Base!StopAll
    <1>m. ASSUME Base!Rest, UNCHANGED <<b_pc, scores>>,
                 \A t \in Base!Threads : b_loop'[t] => b_loop[t]
          PROVE  ListLocked' /\ Stopping'
        BY <1>m DEF Base!Rest, ListLocked, Stopping
    <1>1. CASE Base!Create
        <2>1. b_main = "create" /\ Base!Rest /\ UNCHANGED <<scores, b_ui>>
            BY <1>1 DEF Base!Create
        <2>2. CASE /\ b_slot > PoolSize /\ b_main' = "ui" /\ b_slot' = 1
                   /\ UNCHANGED <<b_pc, base, b_loop, failed>>
            <3>1. Base!TypeOK'
                BY <1>a, <2>1, <2>2 DEF Base!TypeOK, Base!Rest
            <3>2. Phases' /\ Base!Ranked'
                BY <1>0, <1>a, <2>1, <2>2 DEF Phases, Base!Ranked
            <3> QED
                BY <1>m, <2>1, <2>2, <3>1, <3>2
        <2>3. CASE /\ b_slot <= PoolSize /\ Base!Goto(b_slot, "step")
                   /\ base' = [base EXCEPT ![b_slot] = Base!SectorStart(b_slot)]
                   /\ b_slot' = b_slot + 1 /\ UNCHANGED <<b_main, b_loop, failed>>
            <3>1. b_slot \in Base!Threads
                BY <1>a, <2>3 DEF Base!Threads, Base!TypeOK
            <3>2. Base!SectorStart(b_slot) \in 0 .. MaxBase
                <4>1. /\ StartAddress \in Int /\ Base!W \in Nat /\ Base!W >= 1 /\ EndAddress \in Int
                      /\ MaxBase + 1 = Base!W /\ MaxBase \in Int
                    BY DEF Base!BaseFindAssumption, Base!W
                <4>2. Base!Sector \in Int
                    <5>1. ((EndAddress - StartAddress) + PoolSize - 1) % Base!W \in Nat
                        BY <1>a, <4>1
                    <5>2. \A x \in Nat : x \div PoolSize \in Int
                        BY <1>a
                    <5> QED
                        BY <5>1, <5>2 DEF Base!Sector
                <4>3. StartAddress + (Base!Sector * (b_slot - 1)) \in Int
                    BY <1>a, <4>1, <4>2
                <4> QED
                    BY <4>1, <4>3 DEF Base!SectorStart
            <3>3. /\ b_pc' \in [Base!Threads -> {"none", "step", "score", "lock", "append", "done"}]
                  /\ base' \in [Base!Threads -> 0 .. MaxBase]
                  /\ b_pc'[b_slot] = "step" /\ b_pc[b_slot] = "none"
                  /\ \A t \in Base!Threads : t # b_slot => b_pc'[t] = b_pc[t]
                BY <1>a, <2>1, <2>3, <3>1, <3>2 DEF Base!TypeOK, Base!Goto, Phases
            <3>4. Base!TypeOK'
                BY <1>a, <2>1, <2>3, <3>3 DEF Base!TypeOK, Base!Rest
            <3>5. Phases' /\ Base!Ranked'
                BY <1>0, <1>a, <2>1, <2>3, <3>3 DEF Phases, Base!Ranked
            <3>6. ListLocked' /\ Stopping'
                BY <2>1, <2>3, <3>3 DEF Base!Rest, ListLocked, Stopping
            <3> QED
                BY <3>4, <3>5, <3>6
        <2>4. CASE /\ b_slot <= PoolSize /\ Base!StopAll /\ b_main' = "freed" /\ failed' = TRUE
                   /\ UNCHANGED <<b_pc, base, b_slot>>
            <3>1. Base!TypeOK'
                BY <1>s, <2>1, <2>4 DEF Base!TypeOK, Base!Rest
            <3>2. Phases' /\ Base!Ranked'
                BY <2>1, <2>4 DEF Phases, Base!Ranked
            <3> QED
                BY <1>m, <1>s, <2>1, <2>4, <3>1, <3>2
        <2> QED
            BY <1>1, <2>2, <2>3, <2>4 DEF Base!Create
    <1>2. CASE Base!CreateUi
        <2>1. b_main = "ui" /\ Base!Rest /\ UNCHANGED <<b_slot, b_pc, base, scores>>
            BY <1>2 DEF Base!CreateUi
        <2>2. CASE b_main' = "wait" /\ b_ui' \in {b_ui, "show"} /\ UNCHANGED <<b_loop, failed>>
            <3>1. Base!TypeOK'
                BY <2>1, <2>2 DEF Base!TypeOK, Base!Rest
            <3>2. Phases' /\ Base!Ranked'
                BY <1>0, <2>1, <2>2 DEF Phases, Base!Ranked
            <3> QED
                BY <1>m, <2>1, <2>2, <3>1, <3>2
        <2>3. CASE Base!StopAll /\ b_main' = "freed" /\ failed' = TRUE /\ UNCHANGED b_ui
            <3>1. Base!TypeOK'
                BY <1>s, <2>1, <2>3 DEF Base!TypeOK, Base!Rest
            <3>2. Phases' /\ Base!Ranked'
                BY <2>1, <2>3 DEF Phases, Base!Ranked
            <3> QED
                BY <1>m, <1>s, <2>1, <2>3, <3>1, <3>2
        <2> QED
            BY <1>2, <2>2, <2>3 DEF Base!CreateUi
    <1>3. CASE Base!Wait
        <2>1. b_main = "wait" /\ Base!Rest /\ UNCHANGED <<failed, b_pc, base, b_loop, scores, b_ui>>
            BY <1>3 DEF Base!Wait
        <2>2. \/ b_slot > PoolSize /\ b_main' = "wait_ui" /\ b_slot' = b_slot
              \/ b_slot <= PoolSize /\ b_pc[b_slot] = "done" /\ b_slot' = b_slot + 1 /\ b_main' = b_main
            BY <1>3 DEF Base!Wait
        <2>3. Base!TypeOK'
            BY <1>a, <2>1, <2>2 DEF Base!TypeOK, Base!Rest
        <2>4. Phases' /\ Base!Ranked'
            BY <1>0, <1>a, <2>1, <2>2 DEF Phases, Base!Ranked
        <2> QED
            BY <1>m, <2>1, <2>3, <2>4
    <1>4. CASE Base!Finish
        <2>1. /\ b_main = "wait_ui" /\ b_ui \in {"none", "done"} /\ b_main' = "freed"
              /\ scores' = Base!Sorted(scores) /\ Base!Rest
              /\ UNCHANGED <<b_slot, failed, b_pc, base, b_loop, b_ui>>
            BY <1>4 DEF Base!Finish
        <2>2. /\ scores' \in Seq(Base!Pair) /\ DOMAIN scores' = DOMAIN scores
              /\ \A j, k \in DOMAIN scores : j < k => ~Base!Before(scores'[k], scores'[j])
            BY <2>1, SortedFacts DEF Base!TypeOK
        <2>3. Base!TypeOK'
            BY <2>1, <2>2 DEF Base!TypeOK, Base!Rest
        <2>4. Phases'
            BY <2>1 DEF Phases
        <2>5. Base!Ranked'
            BY <2>2 DEF Base!Ranked, Base!Before
        <2>6. ListLocked' /\ Stopping'
            BY <2>1 DEF ListLocked, Stopping, Base!Rest, Phases
        <2> QED
            BY <2>3, <2>4, <2>5, <2>6
    <1>5. CASE Base!Show
        <2>1. /\ b_ui = "show" /\ b_ui' = "done" /\ Base!Rest
              /\ UNCHANGED <<b_main, b_slot, failed, b_pc, base, scores>>
            BY <1>5 DEF Base!Show
        <2>2. Base!StopAll \/ b_loop' = b_loop
            BY <1>5 DEF Base!Show
        <2>3. Base!TypeOK'
            BY <1>s, <2>1, <2>2 DEF Base!TypeOK, Base!Rest
        <2>4. Phases' /\ Base!Ranked'
            BY <2>1 DEF Phases, Base!Ranked
        <2> QED
            BY <1>m, <1>s, <2>1, <2>2, <2>3, <2>4
    <1> QED
        BY <1>1, <1>2, <1>3, <1>4, <1>5 DEF Base!Main

\* The control of the search, whatever the range is.
LEMMA SearchControlInv ==
    ASSUME Base!BaseFindAssumption
    PROVE  Base!Spec => []SearchControl
    <1>1. Base!Init => SearchControl
        BY SearchInit
    <1>2. SearchControl /\ [Base!Next]_Base!vars => SearchControl'
        <2> SUFFICES ASSUME SearchControl, [Base!Next]_Base!vars PROVE SearchControl'
            OBVIOUS
        <2>1. CASE UNCHANGED Base!vars
            BY <2>1 DEF Base!vars, SearchControl, Base!TypeOK, ListLocked, Stopping, Phases, Base!Ranked
        <2>2. CASE Base!Next
            BY <2>2, RunnerControl, CallerControl DEF Base!Next
        <2> QED
            BY <2>1, <2>2
    <1> QED
        BY <1>1, <1>2, PTL DEF Base!Spec
-----------------------------------------------------------------------------
(* What the threads have met, and what is in the list.                     *)

\* The base a thread is at: on the grid of its sector, and with its score when it has one.
BaseAt(t) ==
    /\ b_pc[t] = "none" => base[t] = 0
    /\ b_pc[t] # "none" =>
         base[t] >= Base!SectorStart(t) /\ (base[t] - Base!SectorStart(t)) % Alignment = 0
    /\ b_pc[t] \in {"score", "lock", "append"} => base[t] < Base!SectorEnd(t)
    /\ b_pc[t] \in {"lock", "append"} /\ b_loop[t] =>
         b_found[t] = Score[base[t]] /\ Score[base[t]] >= MinScore
    /\ b_pc[t] = "done" /\ ~b_lost /\ b_loop[t] => base[t] >= Base!SectorEnd(t)

\* Nobody was stopped and nothing was lost.
Whole == ~b_lost /\ \A t \in Base!Threads : b_loop[t]

\* The good bases a thread has left behind.
Met(t) == {b \in Base!Good(t) : b < base[t]}

\* The list holds what was met, each base once and with its score.
Listed ==
    Whole =>
        /\ \A j, k \in DOMAIN scores : scores[j].candidate = scores[k].candidate => j = k
        /\ \A k \in DOMAIN scores :
             /\ scores[k].score = Score[scores[k].candidate]
             /\ \E t \in Base!Threads : scores[k].candidate \in Met(t)
        /\ \A t \in Base!Threads : \A b \in Met(t) :
             \E k \in DOMAIN scores : scores[k] = [candidate |-> b, score |-> Score[b]]

SearchInv == SearchControl /\ (\A t \in Base!Threads : BaseAt(t)) /\ Listed

\* Sectors, as numbers.
LEMMA SectorNumbers ==
    ASSUME Base!BaseFindAssumption, Base!Fits, NEW t \in Base!Threads
    PROVE  /\ Base!SectorStart(t) \in Nat /\ Base!SectorEnd(t) \in Nat
           /\ Base!SectorEnd(t) + Alignment <= MaxBase + 1
           /\ Alignment \in Nat /\ Alignment >= 1 /\ MaxBase \in Nat
    <1>1. StartAddress \in Nat /\ t \in Nat /\ t - 1 \in Nat /\ Alignment \in Nat /\ Alignment >= 1
        BY DEF Base!BaseFindAssumption, Base!Threads
    <1> DEFINE q == Base!Sector
    <1>2. /\ q \in Nat /\ MaxBase \in Nat
          /\ Base!SectorStart(t) = StartAddress + (t - 1) * q
          /\ Base!SectorEnd(t) = StartAddress + t * q
          /\ Base!SectorEnd(t) + Alignment <= MaxBase + 1
        BY SectorFacts
    <1> HIDE DEF q
    <1>3. (t - 1) * q \in Nat /\ t * q \in Nat
        BY <1>1, <1>2
    <1> QED
        BY <1>1, <1>2, <1>3

\* A step of the loop leaves the base behind, and passes no other good one.
LEMMA MetNext ==
    ASSUME Base!BaseFindAssumption, Base!Fits, Base!TypeOK, NEW t \in Base!Threads,
           base[t] >= Base!SectorStart(t), (base[t] - Base!SectorStart(t)) % Alignment = 0,
           base[t] < Base!SectorEnd(t), Base!Advance(t)
    PROVE  /\ base'[t] >= Base!SectorStart(t)
           /\ (base'[t] - Base!SectorStart(t)) % Alignment = 0
           /\ Met(t)' = Met(t) \cup ({base[t]} \cap Base!Good(t))
           /\ \A u \in Base!Threads : u # t => Met(u)' = Met(u)
    <1> DEFINE s == Base!SectorStart(t)
               e == Base!SectorEnd(t)
               x == base[t] - s
    <1>1. /\ s \in Nat /\ e \in Nat /\ e + Alignment <= MaxBase + 1
          /\ Alignment \in Nat /\ Alignment >= 1 /\ MaxBase \in Nat
        BY SectorNumbers
    <1>2. base[t] \in Nat
        BY DEF Base!TypeOK
    <1>3. /\ base'[t] = (base[t] + Alignment) % (MaxBase + 1)
          /\ \A u \in Base!Threads : u # t => base'[u] = base[u]
        BY AdvanceFacts
    <1>4. base[t] >= s /\ base[t] < e
        OBVIOUS
    <1> HIDE DEF s, e
    <1>5. base'[t] = base[t] + Alignment
        <2>1. base[t] + Alignment \in Nat /\ base[t] + Alignment < MaxBase + 1
            BY <1>1, <1>2, <1>4
        <2> QED
            BY <1>1, <1>3, <2>1
    <1>6. x \in Nat /\ x % Alignment = 0 /\ base'[t] - s = x + Alignment
        BY <1>1, <1>2, <1>4, <1>5 DEF s
    <1>7. /\ (x + Alignment) % Alignment = 0
          /\ \A y \in Nat : y % Alignment = 0 /\ x <= y /\ y < x + Alignment => y = x
        <2> HIDE DEF x
        <2> QED
            BY <1>1, <1>6, AlignedStep
    <1>8. base'[t] >= s /\ (base'[t] - s) % Alignment = 0
        BY <1>1, <1>2, <1>4, <1>5, <1>6, <1>7
    <1>9. ASSUME NEW b \in Base!Good(t)
          PROVE  b < base'[t] <=> b < base[t] \/ b = base[t]
        <2>0. (b - s) % Alignment = 0
            BY DEF Base!Good, s
        <2>1. b \in Int /\ b >= s
            BY <1>1 DEF Base!Good, s, e
        <2>2. b - s \in Nat
            BY <1>1, <2>1
        <2>3. b - s >= x /\ b - s < x + Alignment => b - s = x
            BY <1>6, <1>7, <2>0, <2>2
        <2>4. b >= base[t] /\ b < base[t] + Alignment => b = base[t]
            BY <1>1, <1>2, <2>1, <2>3
        <2> QED
            BY <1>1, <1>2, <1>5, <2>1, <2>4
    <1>10. Met(t)' = Met(t) \cup ({base[t]} \cap Base!Good(t))
        BY <1>9 DEF Met
    <1>11. \A u \in Base!Threads : u # t => Met(u)' = Met(u)
        BY <1>3 DEF Met
    <1> QED
        BY <1>8, <1>10, <1>11 DEF s

\* The good bases of a sector are in no other sector, and have a score.
LEMMA GoodFacts ==
    ASSUME Base!BaseFindAssumption, Base!Fits, NEW t \in Base!Threads, NEW b \in Base!Good(t)
    PROVE  /\ b \in 0 .. MaxBase /\ b >= Base!SectorStart(t) /\ b < Base!SectorEnd(t)
           /\ \A u \in Base!Threads : b \in Base!Good(u) => u = t
    <1>1. ASSUME NEW u \in Base!Threads, b \in Base!Good(u)
          PROVE  b \in Int /\ b >= Base!SectorStart(u) /\ b < Base!SectorEnd(u)
        BY <1>1, SectorNumbers DEF Base!Good
    <1>2. b \in 0 .. MaxBase /\ b >= Base!SectorStart(t) /\ b < Base!SectorEnd(t)
        BY <1>1, SectorNumbers
    <1>3. ASSUME NEW u \in Base!Threads, b \in Base!Good(u), u # t
          PROVE  FALSE
        <2>1. Base!SectorEnd(t) <= Base!SectorStart(u) \/ Base!SectorEnd(u) <= Base!SectorStart(t)
            BY <1>3, SectorsApart
        <2>2. /\ Base!SectorStart(t) \in Nat /\ Base!SectorEnd(t) \in Nat
              /\ Base!SectorStart(u) \in Nat /\ Base!SectorEnd(u) \in Nat
            BY SectorNumbers
        <2> QED
            BY <1>1, <1>2, <1>3, <2>1, <2>2
    <1> QED
        BY <1>2, <1>3

\* What leaves the list and what was met alone.
LEMMA ListedKept ==
    ASSUME Listed, Whole' => Whole, scores' = scores,
           \A t \in Base!Threads : Met(t)' = Met(t)
    PROVE  Listed'
    <1> SUFFICES ASSUME Whole'
                 PROVE  (/\ \A j, k \in DOMAIN scores : scores[j].candidate = scores[k].candidate => j = k
                         /\ \A k \in DOMAIN scores :
                              /\ scores[k].score = Score[scores[k].candidate]
                              /\ \E t \in Base!Threads : scores[k].candidate \in Met(t)
                         /\ \A t \in Base!Threads : \A b \in Met(t) :
                              \E k \in DOMAIN scores : scores[k] = [candidate |-> b, score |-> Score[b]])'
        BY DEF Listed
    <1> QED
        BY DEF Listed

\* A step of a thread leaves the base of another one alone.
LEMMA OtherBase ==
    ASSUME NEW u \in Base!Threads, BaseAt(u), b_pc'[u] = b_pc[u], base'[u] = base[u],
           b_found'[u] = b_found[u], b_loop'[u] => b_loop[u], ~b_lost' => ~b_lost
    PROVE  BaseAt(u)'
    BY DEF BaseAt

\* The steps of a search thread: it meets the bases of its sector one by one.
LEMMA RunnerListed ==
    ASSUME Base!BaseFindAssumption, Base!Fits, SearchInv, NEW t \in Base!Threads, Base!Runner(t)
    PROVE  (\A u \in Base!Threads : BaseAt(u)') /\ Listed'
    <1> USE DEF SearchInv, SearchControl
    <1>1. b_loop' = b_loop /\ (~b_lost' => ~b_lost) /\ (Whole' => Whole)
        <2>1. b_loop' = b_loop
            BY DEF Base!Runner, Base!Step, Base!ScoreBase, Base!Enter, Base!AppendPair, Base!Shared
        <2>2. b_lost' = b_lost \/ b_lost' = TRUE
            BY DEF Base!Runner, Base!Step, Base!ScoreBase, Base!Enter, Base!AppendPair
        <2> QED
            BY <2>1, <2>2 DEF Whole
    <1>2. /\ base \in [Base!Threads -> 0 .. MaxBase] /\ base[t] \in Nat
          /\ b_pc \in [Base!Threads -> {"none", "step", "score", "lock", "append", "done"}]
          /\ b_found \in [Base!Threads -> Nat]
        BY DEF Base!TypeOK
    <1>n. /\ Base!SectorStart(t) \in Nat /\ Base!SectorEnd(t) \in Nat
          /\ MinScore \in Nat /\ Score[base[t]] \in Nat
        BY <1>2, SectorNumbers DEF Base!BaseFindAssumption
    <1>3. CASE Base!Step(t)
        <2>1. /\ b_pc[t] = "step"
              /\ b_pc'[t] = (IF base[t] < Base!SectorEnd(t) /\ b_loop[t] THEN "score" ELSE "done")
              /\ \A u \in Base!Threads : u # t => b_pc'[u] = b_pc[u]
              /\ UNCHANGED <<b_lost, base, b_found, scores>>
            BY <1>2, <1>3 DEF Base!Step, Base!Goto
        <2>2. \A u \in Base!Threads : u # t => BaseAt(u)'
            BY <1>1, <2>1, OtherBase
        <2>3. BaseAt(t)'
            <3>1. BaseAt(t)
                OBVIOUS
            <3>2. /\ b_pc'[t] \in {"score", "done"} /\ base'[t] = base[t]
                  /\ b_lost' = b_lost /\ b_loop'[t] = b_loop[t]
                BY <1>1, <2>1
            <3>3. b_pc'[t] = "score" => base[t] < Base!SectorEnd(t)
                BY <2>1
            <3>4. b_pc'[t] = "done" /\ b_loop[t] => base[t] >= Base!SectorEnd(t)
                BY <1>2, <1>n, <2>1
            <3> QED
                BY <2>1, <3>1, <3>2, <3>3, <3>4 DEF BaseAt
        <2>4. Listed'
            BY <1>1, <2>1, ListedKept DEF Met
        <2> QED
            BY <2>2, <2>3, <2>4
    <1>4. CASE Base!ScoreBase(t)
        <2>1. PICK s \in 0 .. Score[base[t]] :
                /\ b_loop[t] => s = Score[base[t]]
                /\ \/ /\ s < MinScore
                      /\ Base!Advance(t) /\ Base!Goto(t, "step") /\ UNCHANGED <<b_found, b_lost>>
                   \/ /\ s >= MinScore
                      /\ b_found' = [b_found EXCEPT ![t] = s]
                      /\ Base!Goto(t, "lock") /\ UNCHANGED <<base, b_lost>>
                   \/ /\ s >= MinScore
                      /\ b_lost' = TRUE
                      /\ Base!Goto(t, "done") /\ UNCHANGED <<base, b_found>>
            BY <1>4 DEF Base!ScoreBase
        <2>2. b_pc[t] = "score" /\ scores' = scores
            BY <1>4 DEF Base!ScoreBase
        <2>3. \A u \in Base!Threads :
                u # t => b_pc'[u] = b_pc[u] /\ base'[u] = base[u] /\ b_found'[u] = b_found[u]
            BY <1>2, <2>1, AdvanceFacts DEF Base!Goto
        <2>4. \A u \in Base!Threads : u # t => BaseAt(u)'
            BY <1>1, <2>3, OtherBase
        <2>5. /\ base[t] >= Base!SectorStart(t) /\ (base[t] - Base!SectorStart(t)) % Alignment = 0
              /\ base[t] < Base!SectorEnd(t)
            BY <2>2 DEF BaseAt
        <2>6. CASE /\ s < MinScore
                   /\ Base!Advance(t) /\ Base!Goto(t, "step") /\ UNCHANGED <<b_found, b_lost>>
            <3>1. /\ base'[t] >= Base!SectorStart(t)
                  /\ (base'[t] - Base!SectorStart(t)) % Alignment = 0
                  /\ Met(t)' = Met(t) \cup ({base[t]} \cap Base!Good(t))
                  /\ \A u \in Base!Threads : u # t => Met(u)' = Met(u)
                BY <2>5, <2>6, MetNext
            <3>2. b_pc'[t] = "step"
                BY <1>2, <2>6 DEF Base!Goto
            <3>3. BaseAt(t)'
                BY <3>1, <3>2 DEF BaseAt
            <3>4. ASSUME Whole' PROVE base[t] \notin Base!Good(t)
                <4>1. b_loop[t]
                    BY <1>1, <3>4 DEF Whole
                <4>2. ~(Score[base[t]] >= MinScore)
                    BY <1>n, <2>1, <2>6, <4>1
                <4> QED
                    BY <4>2 DEF Base!Good
            <3>5. CASE Whole'
                <4>1. \A u \in Base!Threads : Met(u)' = Met(u)
                    BY <3>1, <3>4, <3>5
                <4> QED
                    BY <1>1, <2>2, <2>4, <3>3, <4>1, ListedKept
            <3>6. CASE ~Whole'
                BY <2>4, <3>3, <3>6 DEF Listed
            <3> QED
                BY <3>5, <3>6
        <2>7. CASE /\ s >= MinScore /\ b_found' = [b_found EXCEPT ![t] = s]
                   /\ Base!Goto(t, "lock") /\ UNCHANGED <<base, b_lost>>
            <3>1. b_pc'[t] = "lock" /\ b_found'[t] = s /\ base' = base
                BY <1>2, <2>7 DEF Base!Goto
            <3>2. b_loop'[t] => s = Score[base[t]] /\ Score[base[t]] >= MinScore
                BY <1>1, <2>1, <2>7
            <3>3. BaseAt(t)'
                BY <2>5, <3>1, <3>2 DEF BaseAt
            <3>4. Listed'
                BY <1>1, <2>2, <3>1, ListedKept DEF Met
            <3> QED
                BY <2>4, <3>3, <3>4
        <2>8. CASE b_lost' = TRUE /\ Base!Goto(t, "done") /\ UNCHANGED <<base, b_found>>
            <3>1. b_pc'[t] = "done" /\ base' = base /\ b_lost'
                BY <1>2, <2>8 DEF Base!Goto
            <3>2. BaseAt(t)'
                BY <2>5, <3>1 DEF BaseAt
            <3>3. Listed'
                BY <3>1 DEF Listed, Whole
            <3> QED
                BY <2>4, <3>2, <3>3
        <2> QED
            BY <2>1, <2>6, <2>7, <2>8
    <1>5. CASE Base!Enter(t)
        <2>1. /\ b_pc[t] = "lock" /\ b_pc'[t] = "append"
              /\ \A u \in Base!Threads : u # t => b_pc'[u] = b_pc[u]
              /\ UNCHANGED <<b_lost, base, b_found, scores>>
            BY <1>2, <1>5 DEF Base!Enter, Base!Goto
        <2>2. \A u \in Base!Threads : u # t => BaseAt(u)'
            BY <1>1, <2>1, OtherBase
        <2>3. BaseAt(t)'
            BY <1>1, <2>1 DEF BaseAt
        <2>4. Listed'
            BY <1>1, <2>1, ListedKept DEF Met
        <2> QED
            BY <2>2, <2>3, <2>4
    <1>6. CASE Base!AppendPair(t)
        <2> DEFINE c == base[t]
                   pair == [candidate |-> c, score |-> b_found[t]]
        <2>1. /\ b_pc[t] = "append" /\ b_pc'[t] = "step" /\ b_lost' = b_lost /\ Base!Advance(t)
              /\ \A u \in Base!Threads : u # t => b_pc'[u] = b_pc[u] /\ b_found'[u] = b_found[u]
            BY <1>2, <1>6 DEF Base!AppendPair, Base!Goto
        <2>2. scores' = Append(scores, pair)
            BY <1>6, <2>1 DEF Base!AppendPair, ListLocked
        <2>3. \A u \in Base!Threads : u # t => BaseAt(u)'
            BY <1>1, <2>1, OtherBase, AdvanceFacts
        <2>4. /\ c >= Base!SectorStart(t) /\ (c - Base!SectorStart(t)) % Alignment = 0
              /\ c < Base!SectorEnd(t)
            BY <2>1 DEF BaseAt
        <2>5. /\ base'[t] >= Base!SectorStart(t)
              /\ (base'[t] - Base!SectorStart(t)) % Alignment = 0
              /\ Met(t)' = Met(t) \cup ({c} \cap Base!Good(t))
              /\ \A u \in Base!Threads : u # t => Met(u)' = Met(u)
            BY <2>1, <2>4, MetNext
        <2>6. BaseAt(t)'
            BY <2>1, <2>5 DEF BaseAt
        <2>7. CASE ~Whole'
            BY <2>3, <2>6, <2>7 DEF Listed
        <2>8. CASE Whole'
            <3>1. b_loop[t] /\ Whole
                BY <1>1, <2>8 DEF Whole
            <3>2. b_found[t] = Score[c] /\ Score[c] >= MinScore
                BY <2>1, <3>1 DEF BaseAt
            <3>3. c \in Base!Good(t)
                BY <1>2, <1>n, <2>4, <3>2 DEF Base!Good
            <3>4. c \in Met(t)' /\ (\A u \in Base!Threads : \A b \in Met(u) : b \in Met(u)')
                BY <2>5, <3>3
            <3>5. \A u \in Base!Threads : \A b \in Met(u)' : b = c \/ b \in Met(u)
                BY <2>5
            <3>6. \A u \in Base!Threads : c \notin Met(u)
                <4> SUFFICES ASSUME NEW u \in Base!Threads, c \in Met(u)
                             PROVE  FALSE
                    OBVIOUS
                <4>1. c \in Base!Good(u) /\ c < base[u]
                    BY DEF Met
                <4>2. u = t
                    BY <3>3, <4>1, GoodFacts
                <4> QED
                    BY <1>2, <4>1, <4>2
            <3>7. pair \in Base!Pair /\ scores \in Seq(Base!Pair)
                BY DEF Base!TypeOK, Base!Pair
            <3>8. /\ DOMAIN scores = 1..Len(scores) /\ Len(scores) \in Nat
                  /\ DOMAIN scores' = 1..(Len(scores) + 1)
                  /\ \A k \in DOMAIN scores : scores'[k] = scores[k]
                  /\ scores'[Len(scores) + 1] = pair
                BY <2>2, <3>7, PushFacts
            <3>9. /\ pair.candidate = c /\ pair.score = Score[c]
                  /\ pair = [candidate |-> c, score |-> Score[c]]
                BY <3>2
            <3> HIDE DEF c, pair
            <3>10. \A k \in DOMAIN scores' : k \in DOMAIN scores \/ k = Len(scores) + 1
                BY <3>8
            <3>11. \A k \in DOMAIN scores : scores[k].candidate # c
                BY <3>1, <3>6 DEF Listed
            <3>12. \A j, k \in DOMAIN scores' : scores'[j].candidate = scores'[k].candidate => j = k
                <4>1. \A j, k \in DOMAIN scores : scores[j].candidate = scores[k].candidate => j = k
                    BY <3>1 DEF Listed
                <4> QED
                    BY <3>8, <3>9, <3>10, <3>11, <4>1
            <3>13. ASSUME NEW k \in DOMAIN scores'
                   PROVE  /\ scores'[k].score = Score[scores'[k].candidate]
                          /\ \E u \in Base!Threads : scores'[k].candidate \in Met(u)'
                <4>1. CASE k = Len(scores) + 1
                    BY <3>4, <3>8, <3>9, <4>1
                <4>2. CASE k \in DOMAIN scores
                    <5>1. /\ scores[k].score = Score[scores[k].candidate]
                          /\ \E u \in Base!Threads : scores[k].candidate \in Met(u)
                        BY <3>1, <4>2 DEF Listed
                    <5> QED
                        BY <3>4, <3>8, <4>2, <5>1
                <4> QED
                    BY <3>10, <4>1, <4>2
            <3>14. ASSUME NEW u \in Base!Threads, NEW b \in Met(u)'
                   PROVE  \E k \in DOMAIN scores' : scores'[k] = [candidate |-> b, score |-> Score[b]]
                <4>1. CASE b = c
                    BY <3>8, <3>9, <4>1
                <4>2. CASE b \in Met(u)
                    <5>1. PICK k \in DOMAIN scores : scores[k] = [candidate |-> b, score |-> Score[b]]
                        BY <3>1, <4>2 DEF Listed
                    <5>2. k \in DOMAIN scores' /\ scores'[k] = scores[k]
                        BY <3>8
                    <5> QED
                        BY <5>1, <5>2
                <4> QED
                    BY <3>5, <4>1, <4>2
            <3>15. Listed'
                BY <3>12, <3>13, <3>14 DEF Listed
            <3> QED
                BY <2>3, <2>6, <3>15
        <2> QED
            BY <2>7, <2>8
    <1> QED
        BY <1>3, <1>4, <1>5, <1>6 DEF Base!Runner

\* The caller and the callback meet no base; sorting moves what is in the list.
LEMMA CallerListed ==
    ASSUME Base!BaseFindAssumption, Base!Fits, SearchInv, Base!Main \/ Base!Show
    PROVE  (\A u \in Base!Threads : BaseAt(u)') /\ Listed'
    <1> USE DEF SearchInv, SearchControl
    <1>1. b_lost' = b_lost /\ b_found' = b_found
        BY DEF Base!Main, Base!Create, Base!CreateUi, Base!Wait, Base!Finish, Base!Show, Base!Rest
    <1>2. \A u \in Base!Threads : b_loop'[u] => b_loop[u]
        <2>1. b_loop' = b_loop \/ Base!StopAll
            BY DEF Base!Main, Base!Create, Base!CreateUi, Base!Wait, Base!Finish, Base!Show
        <2> QED
            BY <2>1 DEF Base!StopAll
    <1>3. Whole' => Whole
        BY <1>1, <1>2 DEF Whole
    <1>4. /\ base \in [Base!Threads -> 0 .. MaxBase] /\ scores \in Seq(Base!Pair)
          /\ b_pc \in [Base!Threads -> {"none", "step", "score", "lock", "append", "done"}]
        BY DEF Base!TypeOK
    <1>5. CASE UNCHANGED <<b_pc, base>>
        <2>1. \A u \in Base!Threads : BaseAt(u)'
            BY <1>1, <1>2, <1>5, OtherBase
        <2>2. \A u \in Base!Threads : Met(u)' = Met(u)
            BY <1>5 DEF Met
        <2>3. CASE scores' = scores
            BY <1>3, <2>1, <2>2, <2>3, ListedKept
        <2>4. CASE scores' = Base!Sorted(scores)
            <3>1. PICK p \in [DOMAIN scores -> DOMAIN scores] :
                    /\ \A k \in DOMAIN scores : Base!Sorted(scores)[k] = scores[p[k]]
                    /\ \A j, k \in DOMAIN scores : p[j] = p[k] => j = k
                    /\ \A i0 \in DOMAIN scores : \E k \in DOMAIN scores : p[k] = i0
                BY <1>4, SortedFacts
            <3>2. /\ DOMAIN scores' = DOMAIN scores
                  /\ \A k \in DOMAIN scores : scores'[k] = scores[p[k]] /\ p[k] \in DOMAIN scores
                BY <1>4, <2>4, <3>1, SortedFacts
            <3>3. CASE ~Whole'
                BY <2>1, <3>3 DEF Listed
            <3>4. CASE Whole'
                <4>1. \A j, k \in DOMAIN scores' : scores'[j].candidate = scores'[k].candidate => j = k
                    BY <1>3, <3>1, <3>2, <3>4 DEF Listed
                <4>2. \A k \in DOMAIN scores' :
                        /\ scores'[k].score = Score[scores'[k].candidate]
                        /\ \E u \in Base!Threads : scores'[k].candidate \in Met(u)'
                    BY <1>3, <2>2, <3>2, <3>4 DEF Listed
                <4>3. ASSUME NEW u \in Base!Threads, NEW b \in Met(u)'
                      PROVE  \E k \in DOMAIN scores' : scores'[k] = [candidate |-> b, score |-> Score[b]]
                    <5>1. PICK i0 \in DOMAIN scores : scores[i0] = [candidate |-> b, score |-> Score[b]]
                        BY <1>3, <2>2, <3>4 DEF Listed
                    <5>2. PICK k \in DOMAIN scores : p[k] = i0
                        BY <3>1
                    <5> QED
                        BY <3>2, <5>1, <5>2
                <4>4. Listed'
                    BY <4>1, <4>2, <4>3 DEF Listed
                <4> QED
                    BY <2>1, <4>4
            <3> QED
                BY <3>3, <3>4
        <2> QED
            BY <2>3, <2>4 DEF Base!Main, Base!Create, Base!CreateUi, Base!Wait, Base!Finish, Base!Show
    <1>6. CASE /\ Base!Create /\ b_slot <= PoolSize /\ Base!Goto(b_slot, "step")
               /\ base' = [base EXCEPT ![b_slot] = Base!SectorStart(b_slot)]
        <2>0. b_slot \in Base!Threads
            BY <1>6 DEF Base!Threads, Base!TypeOK, Base!BaseFindAssumption
        <2>1. PICK t \in Base!Threads : t = b_slot
            BY <2>0
        <2>2. /\ b_pc[t] = "none" /\ b_pc'[t] = "step" /\ base'[t] = Base!SectorStart(t)
              /\ base[t] = 0 /\ scores' = scores
              /\ \A u \in Base!Threads : u # t => b_pc'[u] = b_pc[u] /\ base'[u] = base[u]
            <3>1. b_pc[t] = "none"
                BY <1>6, <2>1 DEF Base!Create, Phases, Base!Threads
            <3>2. base[t] = 0
                BY <2>1, <3>1 DEF BaseAt
            <3>3. scores' = scores
                BY <1>6 DEF Base!Create
            <3> QED
                BY <1>4, <1>6, <2>1, <3>1, <3>2, <3>3 DEF Base!Goto
        <2>3. \A u \in Base!Threads : u # t => BaseAt(u)'
            BY <1>1, <1>2, <2>2, OtherBase
        <2>4. Base!SectorStart(t) \in Nat /\ Alignment \in Nat /\ Alignment >= 1
            BY <2>1, SectorNumbers
        <2>5. BaseAt(t)'
            <3>1. (base'[t] - Base!SectorStart(t)) % Alignment = 0
                BY <2>2, <2>4
            <3> QED
                BY <2>2, <2>4, <3>1 DEF BaseAt
        <2>6. Met(t)' = {} /\ Met(t) = {}
            <3>1. \A b \in Base!Good(t) : b \in Int /\ b >= Base!SectorStart(t)
                BY <2>1, GoodFacts
            <3> QED
                BY <2>2, <2>4, <3>1 DEF Met
        <2>7. \A u \in Base!Threads : Met(u)' = Met(u)
            <3>1. \A u \in Base!Threads : u # t => Met(u)' = Met(u)
                BY <2>2 DEF Met
            <3> QED
                BY <2>6, <3>1
        <2> QED
            BY <1>3, <2>2, <2>3, <2>5, <2>7, ListedKept
    <1> QED
        BY <1>5, <1>6 DEF Base!Main, Base!Create, Base!CreateUi, Base!Wait, Base!Finish, Base!Show

\* A finished search has met every good base, so the list is what is promised.
LEMMA SearchComplete ==
    ASSUME Base!BaseFindAssumption, Base!Fits, SearchInv
    PROVE  Base!Complete
    <1> USE DEF SearchInv, SearchControl
    <1> SUFFICES ASSUME b_main = "freed", ~failed, Whole
                 PROVE  /\ Len(scores) = Base!Cardinality(UNION {Base!Good(t) : t \in Base!Threads})
                        /\ \A t \in Base!Threads : \A b \in Base!Good(t) :
                             \E k \in DOMAIN scores : scores[k] = [candidate |-> b, score |-> Score[b]]
        BY DEF Base!Complete, Whole
    <1> DEFINE U == UNION {Base!Good(t) : t \in Base!Threads}
               n == Len(scores)
               c == [k \in 1..n |-> scores[k].candidate]
    <1>1. \A t \in Base!Threads : Met(t) = Base!Good(t)
        <2> SUFFICES ASSUME NEW t \in Base!Threads, NEW b \in Base!Good(t)
                     PROVE  b < base[t]
            BY DEF Met
        <2>1. base[t] >= Base!SectorEnd(t)
            BY DEF Phases, Whole, BaseAt
        <2>2. b \in Int /\ b < Base!SectorEnd(t) /\ Base!SectorEnd(t) \in Nat /\ base[t] \in Int
            BY GoodFacts, SectorNumbers DEF Base!TypeOK
        <2> QED
            BY <2>1, <2>2
    <1>2. \A t \in Base!Threads : \A b \in Base!Good(t) :
            \E k \in DOMAIN scores : scores[k] = [candidate |-> b, score |-> Score[b]]
        BY <1>1 DEF Listed
    <1>3. DOMAIN scores = 1..n /\ n \in Nat
        BY DEF Base!TypeOK
    <1>4. \A k \in 1..n : c[k] \in U
        BY <1>1, <1>3 DEF Listed
    <1>5. \A j, k \in 1..n : c[j] = c[k] => j = k
        BY <1>3 DEF Listed
    <1>6. \A b \in U : \E k \in 1..n : c[k] = b
        <2> SUFFICES ASSUME NEW t \in Base!Threads, NEW b \in Base!Good(t)
                     PROVE  \E k \in 1..n : c[k] = b
            OBVIOUS
        <2>1. PICK k \in DOMAIN scores : scores[k] = [candidate |-> b, score |-> Score[b]]
            BY <1>2
        <2>2. k \in 1..n /\ scores[k].candidate = b
            BY <1>3, <2>1
        <2> QED
            BY <2>2
    <1> HIDE DEF U, n
    <1>7. c \in Bijection(1..n, U)
        <2>1. c \in [1..n -> U]
            BY <1>4
        <2> HIDE DEF c
        <2> QED
            BY <1>5, <1>6, <2>1 DEF Bijection, Injection, Surjection, IsInjective
    <1>8. Cardinality(U) = n
        <2> HIDE DEF c
        <2>1. IsFiniteSet(1..n) /\ Cardinality(1..n) = n
            BY ONLY <1>3, FS_Interval
        <2>2. ExistsBijection(1..n, U)
            BY <1>7 DEF ExistsBijection
        <2> QED
            BY ONLY <2>1, <2>2, FS_Bijection
    <1>9. Base!Cardinality(U) = Cardinality(U)
        BY DEF Base!Cardinality, Cardinality
    <1> QED
        BY <1>2, <1>8, <1>9 DEF U, n

\* However long the range is and wherever it ends, the search adds at most one
\* candidate after it was stopped, returns a sorted list, and neither the callback nor a
\* search thread uses what rz_basefind has freed.
THEOREM SearchIsSafe ==
    ASSUME Base!BaseFindAssumption
    PROVE  Base!Spec => [](/\ Base!TypeOK /\ Base!Ranked /\ Base!StopsSoon
                           /\ Base!UiSafe /\ Base!WorkersSafe)
    <1>1. SearchControl => /\ Base!TypeOK /\ Base!Ranked /\ Base!StopsSoon
                           /\ Base!UiSafe /\ Base!WorkersSafe
        <2> SUFFICES ASSUME SearchControl
                     PROVE  /\ Base!TypeOK /\ Base!Ranked /\ Base!StopsSoon
                            /\ Base!UiSafe /\ Base!WorkersSafe
            OBVIOUS
        <2>1. Base!StopsSoon
            BY DEF SearchControl, Stopping, Base!StopsSoon
        <2> QED
            BY <2>1 DEF SearchControl, Phases, Base!UiSafe, Base!WorkersSafe
    <1> QED
        BY <1>1, SearchControlInv, PTL

\* When the sums of rz_basefind do not wrap around, the search also covers the
\* range and returns every good base once, for any number of threads, any range, any
\* alignment and any scores.
THEOREM EveryGoodBase ==
    ASSUME Base!BaseFindAssumption, Base!Fits
    PROVE  Base!Spec => []BaseFindSafe
    <1>1. Base!Init => SearchInv
        <2> SUFFICES ASSUME Base!Init PROVE SearchInv
            OBVIOUS
        <2>1. SearchControl
            BY SearchInit
        <2>2. \A t \in Base!Threads : b_pc[t] = "none" /\ base[t] = 0
            BY DEF Base!Init
        <2>3. \A t \in Base!Threads : BaseAt(t)
            BY <2>2 DEF BaseAt
        <2>4. \A t \in Base!Threads : Met(t) = {}
            <3>1. \A t \in Base!Threads : \A b \in Base!Good(t) : b \in 0 .. MaxBase
                BY GoodFacts
            <3> QED
                BY <2>2, <3>1 DEF Met
        <2>5. DOMAIN scores = {}
            BY DEF Base!Init
        <2>6. Listed
            BY <2>4, <2>5 DEF Listed
        <2> QED
            BY <2>1, <2>3, <2>6 DEF SearchInv
    <1>2. SearchInv /\ [Base!Next]_Base!vars => SearchInv'
        <2> SUFFICES ASSUME SearchInv, [Base!Next]_Base!vars PROVE SearchInv'
            OBVIOUS
        <2>1. CASE UNCHANGED Base!vars
            <3>1. SearchControl'
                BY <2>1 DEF Base!vars, SearchInv, SearchControl, Base!TypeOK, ListLocked, Stopping,
                            Phases, Base!Ranked
            <3>2. (\A t \in Base!Threads : BaseAt(t)') /\ Listed'
                <4>1. (\A t \in Base!Threads : Met(t)' = Met(t)) /\ (Whole' => Whole)
                    BY <2>1 DEF Base!vars, Met, Whole
                <4> QED
                    BY <2>1, <4>1, OtherBase, ListedKept DEF Base!vars, SearchInv
            <3> QED
                BY <3>1, <3>2 DEF SearchInv
        <2>2. CASE Base!Next
            <3>1. SearchControl'
                BY <2>2, RunnerControl, CallerControl DEF Base!Next, SearchInv
            <3>2. (\A t \in Base!Threads : BaseAt(t)') /\ Listed'
                BY <2>2, RunnerListed, CallerListed DEF Base!Next
            <3> QED
                BY <3>1, <3>2 DEF SearchInv
        <2> QED
            BY <2>1, <2>2
    <1>3. SearchInv => BaseFindSafe
        <2> SUFFICES ASSUME SearchInv PROVE BaseFindSafe
            OBVIOUS
        <2>1. Base!Complete /\ Base!SectorsCover
            BY SearchComplete, SectorsCovering
        <2>2. Base!StopsSoon
            BY DEF SearchInv, SearchControl, Stopping, Base!StopsSoon
        <2> QED
            BY <2>1, <2>2 DEF SearchInv, SearchControl, Phases, Base!UiSafe, Base!WorkersSafe,
               BaseFindSafe, Base!BaseFindSafe
    <1> QED
        BY <1>1, <1>2, <1>3, PTL DEF Base!Spec
=============================================================================
