----------------------------- MODULE CoreProofs -----------------------------
(***************************************************************************)
(* Proofs about three parts of an RzCore, for any sizes: the seek history, *)
(* whatever the address space and the limit; the core files, whatever the  *)
(* binaries and however many files, descriptors and maps; and the search,  *)
(* whatever the maps, the patterns and the number of workers.              *)
(***************************************************************************)
EXTENDS MCCore, SearchPipeline, SequencesExt, FiniteSetTheorems, SequenceTheorems, WellFoundedInduction, TLAPS

-----------------------------------------------------------------------------
(* What RzList operations do to a list: append, pop_head and the like.     *)

\* The places of a list.
LEMMA Places ==
    ASSUME NEW S, NEW s \in Seq(S)
    PROVE  Len(s) \in Nat /\ DOMAIN s = 1 .. Len(s) /\ IsFiniteSet(DOMAIN s) /\ (s # <<>> => DOMAIN s # {})
    <1>1. Len(s) \in Nat /\ DOMAIN s = 1 .. Len(s) /\ (s # <<>> => DOMAIN s # {})
        OBVIOUS
    <1>2. IsFiniteSet(1 .. Len(s))
        <2>1. 1 \in Int /\ Len(s) \in Int
            BY <1>1
        <2> QED
            BY <2>1, FS_Interval
    <1> QED
        BY <1>1, <1>2

\* rz_list_append: one more item, at the end.
LEMMA AppendFacts ==
    ASSUME NEW S, NEW s \in Seq(S), NEW x \in S
    PROVE  /\ Append(s, x) \in Seq(S)
           /\ Append(s, x) # <<>>
           /\ Len(Append(s, x)) = Len(s) + 1
           /\ \A i \in 1..Len(s) : Append(s, x)[i] = s[i]
           /\ Append(s, x)[Len(s) + 1] = x
    OBVIOUS

\* rz_list_pop_head: one item less, the others moved by one.
LEMMA TailFacts ==
    ASSUME NEW S, NEW s \in Seq(S), s # <<>>
    PROVE  /\ Tail(s) \in Seq(S)
           /\ Len(Tail(s)) = Len(s) - 1
           /\ \A i \in 1..(Len(s) - 1) : Tail(s)[i] = s[i + 1]
           /\ Head(s) = s[1]
           /\ Head(s) \in S
           /\ Len(s) \in Nat \ {0}
    OBVIOUS

\* rz_list_pop: one item less, the others where they were.
LEMMA FrontFacts ==
    ASSUME NEW S, NEW s \in Seq(S), s # <<>>
    PROVE  /\ Front(s) \in Seq(S)
           /\ Len(Front(s)) = Len(s) - 1
           /\ \A i \in 1..(Len(s) - 1) : Front(s)[i] = s[i]
           /\ Last(s) = s[Len(s)]
           /\ Last(s) \in S
           /\ Len(s) \in Nat \ {0}
    <1>1. Len(s) \in Nat \ {0}
        OBVIOUS
    <1> DEFINE n == Len(s) - 1
    <1>2. 1 \in Int /\ n \in Int /\ \A i \in 1..n : s[i] \in S
        BY <1>1
    <1>3. /\ SubSeq(s, 1, n) \in Seq(S)
          /\ Len(SubSeq(s, 1, n)) = IF 1 <= n THEN n - 1 + 1 ELSE 0
          /\ \A i \in 1..(n - 1 + 1) : SubSeq(s, 1, n)[i] = s[1 + i - 1]
        <2> HIDE DEF n
        <2> QED
            BY <1>2, SubSeqProperties
    <1>4. s[Len(s)] \in S
        BY <1>1
    <1>5. Len(SubSeq(s, 1, n)) = n
        <2>1. n \in Nat
            BY <1>1
        <2> HIDE DEF n
        <2> QED
            BY <2>1, <1>3
    <1>6. \A i \in 1..n : SubSeq(s, 1, n)[i] = s[i]
        <2>1. n \in Nat
            BY <1>1
        <2> HIDE DEF n
        <2> QED
            BY <2>1, <1>3
    <1> QED
        BY <1>1, <1>3, <1>4, <1>5, <1>6 DEF Front, Last
-----------------------------------------------------------------------------

\* The inductive invariant: the limit is the one the history was made with.
Inv == TypeOK /\ Bounded

\* What a step may do to the history and to the mark.
Kept ==
    /\ undos' \in Seq(Item) /\ redos' \in Seq(Item)
    /\ histsize # 0 => Len(undos') + Len(redos') <= histsize

\* get_current_seek_state and rz_core_seek_mark give an entry.
LEMMA CurrentType ==
    ASSUME TypeOK
    PROVE  Current \in Item /\ Marked \in Item \cup {None}
    BY SeekHistoryAssumption DEF TypeOK, Current, Marked, Item

\* add_seek_history makes room before it adds, so that the limit holds.
LEMMA PushedFacts ==
    ASSUME TypeOK, Bounded, NEW item \in Item
    PROVE  /\ Pushed(item) \in Seq(Item)
           /\ histsize # 0 => Len(Pushed(item)) <= histsize
    <1> DEFINE full == histsize # 0 /\ Len(undos) >= histsize
    <1>1. undos \in Seq(Item) /\ redos \in Seq(Item) /\ histsize \in Nat
        BY DEF TypeOK
    <1>2. Len(undos) \in Nat /\ Len(redos) \in Nat
        BY <1>1
    <1>3. CASE full
        <2>1. undos # <<>>
            BY <1>1, <1>3
        <2>2. Tail(undos) \in Seq(Item) /\ Len(Tail(undos)) = Len(undos) - 1
            BY <1>1, <2>1, TailFacts
        <2>3. /\ Append(Tail(undos), item) \in Seq(Item)
              /\ Len(Append(Tail(undos), item)) = Len(Tail(undos)) + 1
            BY <2>2, AppendFacts
        <2>4. Len(undos) <= histsize
            BY <1>1, <1>2, <1>3 DEF Bounded
        <2>5. Pushed(item) = Append(Tail(undos), item)
            BY <1>3 DEF Pushed
        <2> QED
            BY <1>1, <1>2, <2>2, <2>3, <2>4, <2>5
    <1>4. CASE ~full
        <2>1. Pushed(item) = Append(undos, item)
            BY <1>4 DEF Pushed
        <2>2. Append(undos, item) \in Seq(Item) /\ Len(Append(undos, item)) = Len(undos) + 1
            BY <1>1, AppendFacts
        <2> QED
            BY <1>1, <1>2, <1>4, <2>1, <2>2
    <1> QED
        BY <1>3, <1>4

\* A seek that saves keeps the history within its limit.
LEMMA SaveKeeps ==
    ASSUME TypeOK, Bounded, NEW item \in Item \cup {None}, NEW addr, SeekSave(item, addr)
    PROVE  Kept /\ saved' = None
    <1>1. undos \in Seq(Item) /\ redos \in Seq(Item) /\ histsize \in Nat
        BY DEF TypeOK
    <1>2. CASE UNCHANGED <<undos, redos>>
        BY <1>1, <1>2 DEF Kept, Bounded, SeekSave
    <1>3. CASE NeedAdd(item, addr) /\ undos' = Pushed(item) /\ redos' = <<>>
        <2>1. item \in Item
            BY <1>3 DEF NeedAdd
        <2>2. Pushed(item) \in Seq(Item) /\ (histsize # 0 => Len(Pushed(item)) <= histsize)
            BY <2>1, PushedFacts
        <2>3. redos' \in Seq(Item) /\ Len(redos') = 0
            BY <1>3
        <2>4. Len(undos') \in Nat
            BY <1>3, <2>2
        <2> QED
            BY <1>1, <1>3, <2>2, <2>3, <2>4 DEF Kept, SeekSave
    <1> QED
        BY <1>2, <1>3 DEF SeekSave, AddHistory

\* An undo or a redo moves one entry from one list to the other.
LEMMA MoveKeeps ==
    ASSUME NEW S, NEW from \in Seq(S), NEW to \in Seq(S), NEW item \in S, from # <<>>
    PROVE  /\ Front(from) \in Seq(S) /\ Append(to, item) \in Seq(S)
           /\ Len(Front(from)) + Len(Append(to, item)) = Len(from) + Len(to)
           /\ Last(from) \in S
    <1>1. /\ Front(from) \in Seq(S) /\ Len(Front(from)) = Len(from) - 1
          /\ Last(from) \in S
        BY FrontFacts
    <1>2. Append(to, item) \in Seq(S) /\ Len(Append(to, item)) = Len(to) + 1
        BY AppendFacts
    <1>3. Len(from) \in Nat /\ Len(to) \in Nat
        OBVIOUS
    <1> QED
        BY <1>1, <1>2, <1>3

\* rz_core_seek_delta and rz_core_seek_align stay in the address space.
LEMMA MovedType ==
    ASSUME TypeOK, NEW delta \in Deltas
    PROVE  Moved(delta) \in Addr
    <1>1. MaxAddr \in Nat /\ delta \in Int /\ offset \in 0 .. MaxAddr
        BY SeekHistoryAssumption DEF TypeOK, Addr
    <1> QED
        BY <1>1 DEF Moved, Addr

\* rz_core_seek_align never leaves the address space.
LEMMA AlignedType ==
    ASSUME NEW addr \in Addr, NEW align \in Aligns, align >= 2
    PROVE  Aligned(addr, align) \in Addr
    <1>1. MaxAddr \in Nat /\ align \in Nat /\ IntMod \in Nat \ {0} /\ addr \in Nat
        BY SeekHistoryAssumption DEF Addr
    <1>2. addr % align \in Int
        BY <1>1
    <1>3. AsInt(addr % align) \in Int
        <2>1. (addr % align) % IntMod \in Int
            BY <1>1, <1>2
        <2> QED
            BY <1>1, <2>1 DEF AsInt
    <1>4. PICK d \in Int : d = addr - AsInt(addr % align)
        BY <1>1, <1>3
    <1>5. d % (MaxAddr + 1) \in 0 .. MaxAddr
        BY <1>1, <1>4
    <1> QED
        BY <1>4, <1>5 DEF Aligned, Addr

\* Every seek that saves keeps the invariant.
LEMMA SavingStep ==
    ASSUME Inv, NEW item \in Item \cup {None}, NEW addr \in Addr,
           SeekSave(item, addr), offset' = addr, Same
    PROVE  Inv'
    <1>1. Kept /\ saved' = None
        BY SaveKeeps DEF Inv
    <1> QED
        BY <1>1 DEF Inv, TypeOK, Bounded, Kept, Same

\* rz_core_seek_opt, saving or not, keeps the bounds.
LEMMA SeekStep ==
    ASSUME Inv, NEW addr \in Addr, NEW save \in BOOLEAN, SeekOpt(addr, save)
    PROVE  Inv'
    <1>1. CASE SeekAndSave(addr)
        <2>1. (IF saved = None THEN Marked ELSE saved) \in Item \cup {None}
            BY CurrentType DEF Inv, TypeOK
        <2> QED
            BY <1>1, <2>1, SavingStep DEF SeekAndSave
    <1>2. CASE Seek(addr)
        BY <1>2 DEF Seek, Same, Inv, TypeOK, Bounded
    <1> QED
        BY <1>1, <1>2 DEF SeekOpt

\* The invariant is kept by every step.
LEMMA InvStep ==
    ASSUME Inv, [Next]_vars
    PROVE  Inv'
    <1>0. TypeOK /\ Bounded
        BY DEF Inv
    <1>m. Marked \in Item \cup {None} /\ Current \in Item
        BY <1>0, CurrentType
    <1>1. ASSUME NEW addr \in Addr, Seek(addr) PROVE Inv'
        BY <1>1, SeekStep DEF SeekOpt
    <1>2. ASSUME NEW addr \in Addr, SeekAndSave(addr) PROVE Inv'
        BY <1>2, SeekStep DEF SeekOpt
    <1>3. ASSUME NEW addr \in Addr, SeekCommand(addr) PROVE Inv'
        BY <1>3, <1>m, SavingStep DEF SeekCommand
    <1>4. ASSUME NEW addr \in Addr, SeekCommandFails(addr) PROVE Inv'
        BY <1>4, <1>m DEF SeekCommandFails, Same, Inv, TypeOK, Bounded
    <1>5. ASSUME NEW addr \in Addr, NEW align \in Aligns, AlignCommand(addr, align) PROVE Inv'
        <2>1. CASE align < 2
            BY <1>5, <1>m, <2>1 DEF AlignCommand, Same, Inv, TypeOK, Bounded
        <2>2. CASE ~(align < 2)
            <3>1. align >= 2
                BY <2>2, SeekHistoryAssumption
            <3>2. Aligned(addr, align) \in Addr
                BY <3>1, AlignedType
            <3> QED
                BY <1>5, <1>m, <2>2, <3>2, SavingStep DEF AlignCommand
        <2> QED
            BY <2>1, <2>2
    <1>6. ASSUME NEW delta \in Deltas, NEW save \in BOOLEAN, SeekDelta(delta, save) PROVE Inv'
        BY <1>0, <1>6, MovedType, SeekStep DEF SeekDelta
    <1>7. ASSUME NEW save \in BOOLEAN, SeekNext(save) \/ SeekPrev(save) PROVE Inv'
        <2>1. PICK addr \in Items : SeekOpt(addr, save)
            BY <1>7 DEF SeekNext, SeekPrev
        <2>2. addr \in Addr
            BY SeekHistoryAssumption DEF Addr
        <2> QED
            BY <2>1, <2>2, SeekStep
    <1>8. ASSUME NEW delta \in Deltas, NEW quiet \in BOOLEAN, SeekOpcodeForward(delta, quiet)
          PROVE Inv'
        <2>1. Moved(delta) \in Addr
            BY <1>0, MovedType
        <2>2. (IF quiet THEN saved ELSE Marked) \in Item \cup {None}
            BY <1>m DEF Inv, TypeOK
        <2> QED
            BY <1>8, <2>1, <2>2, SavingStep DEF SeekOpcodeForward
    <1>9. CASE Undo
        <2>1. undos \in Seq(Item) /\ redos \in Seq(Item) /\ undos # <<>>
            BY <1>0, <1>9 DEF TypeOK, Undo
        <2>2. /\ undos' \in Seq(Item) /\ redos' \in Seq(Item)
              /\ Len(undos') + Len(redos') = Len(undos) + Len(redos)
              /\ Last(undos) \in Item
            <3>1. PICK item \in Item : item = Current
                BY <1>m
            <3>2. /\ Front(undos) \in Seq(Item) /\ Append(redos, item) \in Seq(Item)
                  /\ Len(Front(undos)) + Len(Append(redos, item)) = Len(undos) + Len(redos)
                  /\ Last(undos) \in Item
                BY <2>1, MoveKeeps
            <3> QED
                BY <1>9, <3>1, <3>2 DEF Undo
        <2>3. offset' \in Addr /\ cur' \in Cursors
            BY <1>9, <2>2 DEF Undo, SetCurrent, Item
        <2> QED
            BY <1>9, <2>2, <2>3 DEF Undo, Inv, TypeOK, Bounded
    <1>10. CASE Redo
        <2>1. undos \in Seq(Item) /\ redos \in Seq(Item) /\ redos # <<>>
            BY <1>0, <1>10 DEF TypeOK, Redo
        <2>2. /\ undos' \in Seq(Item) /\ redos' \in Seq(Item)
              /\ Len(redos') + Len(undos') = Len(redos) + Len(undos)
              /\ Last(redos) \in Item
            <3>1. PICK item \in Item : item = Current
                BY <1>m
            <3>2. /\ Front(redos) \in Seq(Item) /\ Append(undos, item) \in Seq(Item)
                  /\ Len(Front(redos)) + Len(Append(undos, item)) = Len(redos) + Len(undos)
                  /\ Last(redos) \in Item
                BY <2>1, MoveKeeps
            <3> QED
                BY <1>10, <3>1, <3>2 DEF Redo
        <2>3. offset' \in Addr /\ cur' \in Cursors
            BY <1>10, <2>2 DEF Redo, SetCurrent, Item
        <2>4. Len(undos') + Len(redos') = Len(undos) + Len(redos)
            BY <2>1, <2>2
        <2> QED
            BY <1>10, <2>2, <2>3, <2>4 DEF Redo, Inv, TypeOK, Bounded
    <1>11. CASE Reset
        <2>1. undos' \in Seq(Item) /\ redos' \in Seq(Item) /\ Len(undos') + Len(redos') = 0
            BY <1>11 DEF Reset
        <2> QED
            BY <1>11, <2>1 DEF Reset, Same, Inv, TypeOK, Bounded
    <1>12. ASSUME NEW on \in BOOLEAN, NEW c \in Cursors, SetCursor(on, c) PROVE Inv'
        BY <1>12 DEF SetCursor, Inv, TypeOK, Bounded
    <1>13. ASSUME NEW on \in BOOLEAN, SetSilent(on) PROVE Inv'
        BY <1>13 DEF SetSilent, Inv, TypeOK, Bounded
    <1>14. CASE UNCHANGED vars
        BY <1>14 DEF vars, Inv, TypeOK, Bounded
    <1> QED
        BY <1>1, <1>2, <1>3, <1>4, <1>5, <1>6, <1>7, <1>8, <1>9, <1>10, <1>11, <1>12,
           <1>13, <1>14 DEF Next

\* A new core has an empty history.
LEMMA InvInit ==
    ASSUME Init
    PROVE  Inv
    <1>1. 0 \in Addr /\ 0 \in Cursors /\ HistSize \in Nat
        BY SeekHistoryAssumption DEF Addr
    <1>2. undos \in Seq(Item) /\ redos \in Seq(Item) /\ Len(undos) + Len(redos) = 0
        BY DEF Init
    <1>3. cur_enabled \in BOOLEAN /\ silent \in BOOLEAN
        BY DEF Init
    <1> QED
        BY <1>1, <1>2, <1>3 DEF Init, Inv, TypeOK, Bounded

\* What the bounds rest on holds in every state.
LEMMA Invariance == Spec => []Inv
    BY InvInit, InvStep, PTL DEF Spec

\* Whatever the sizes, the offset stays in the address space and the two lists hold
\* entries with an address and a cursor that was really set.
THEOREM TypeCorrect == Spec => []TypeOK
    <1>1. Inv => TypeOK
        BY DEF Inv
    <1> QED
        BY <1>1, Invariance, PTL

\* The seek history never outgrows cfg.seek.histsize, although rz_core_seek_redo adds
\* to the undos without looking at it.
THEOREM HistoryBounded == Spec => []Bounded
    <1>1. Inv => Bounded
        BY DEF Inv
    <1> QED
        BY <1>1, Invariance, PTL

\* A relative seek never wraps around the address space, however wide it is.
THEOREM DeltaNeverWraps == Spec => []DeltaKeepsDirection
    <1>1. ASSUME Inv PROVE DeltaKeepsDirection
        <2>1. ASSUME NEW delta \in Deltas
              PROVE  IF delta > 0 THEN Moved(delta) \in offset .. MaxAddr
                                  ELSE Moved(delta) \in 0 .. offset
            <3>1. MaxAddr \in Nat /\ delta \in Int /\ offset \in 0 .. MaxAddr
                BY <1>1, SeekHistoryAssumption DEF Inv, TypeOK, Addr
            <3> QED
                BY <3>1 DEF Moved
        <2> QED
            BY <2>1 DEF DeltaKeepsDirection
    <1> QED
        BY <1>1, Invariance, PTL

\* What was appended is the last entry, and the rest is in front of it.
LEMMA FrontAppend ==
    ASSUME NEW S, NEW s \in Seq(S), NEW x \in S
    PROVE  Front(Append(s, x)) = s
    <1>1. PICK t \in Seq(S) : t = Append(s, x)
        BY AppendFacts
    <1>2. t # <<>> /\ Len(t) = Len(s) + 1 /\ \A i \in 1..Len(s) : t[i] = s[i]
        BY <1>1, AppendFacts
    <1>3. /\ Front(t) \in Seq(S) /\ Len(Front(t)) = Len(t) - 1
          /\ \A i \in 1..(Len(t) - 1) : Front(t)[i] = t[i]
        BY <1>2, FrontFacts
    <1>4. Len(s) \in Nat
        OBVIOUS
    <1>5. Len(Front(t)) = Len(s) /\ \A i \in 1..Len(s) : Front(t)[i] = s[i]
        BY <1>2, <1>3, <1>4
    <1> QED
        BY <1>1, <1>3, <1>5, SeqEqual

\* A step that saves adds the entry behind the others when there is no limit.
LEMMA SaveAppends ==
    ASSUME TypeOK, histsize = 0, NEW item \in Item \cup {None}, NEW addr, SeekSave(item, addr)
    PROVE  undos' = undos \/ Front(undos') = undos
    <1>1. CASE NeedAdd(item, addr) /\ undos' = Pushed(item)
        <2>1. item \in Item
            BY <1>1 DEF NeedAdd
        <2>2. undos' = Append(undos, item)
            BY <1>1 DEF Pushed
        <2> QED
            BY <2>1, <2>2, FrontAppend DEF TypeOK
    <1> QED
        BY <1>1 DEF SeekSave, AddHistory

\* With cfg.seek.histsize 0 no step loses an entry of the history.
THEOREM UnlimitedLosesNothing == Spec => [][KeepingStep]_vars
    <1> DEFINE A == histsize = 0 => \/ undos' \in {<<>>, undos, Front(undos)}
                                   \/ Front(undos') = undos
    <1>1. ASSUME Inv, [Next]_vars PROVE A
        <2> SUFFICES ASSUME histsize = 0, undos' # undos
                     PROVE  undos' \in {<<>>, Front(undos)} \/ Front(undos') = undos
            OBVIOUS
        <2>0. TypeOK /\ Marked \in Item \cup {None} /\ Current \in Item /\ saved \in Item \cup {None}
            BY <1>1, CurrentType DEF Inv, TypeOK
        <2>1. CASE Undo \/ Reset
            BY <2>1 DEF Undo, Reset
        <2>2. CASE Redo
            BY <2>0, <2>2, FrontAppend DEF Redo, TypeOK
        <2>3. ASSUME NEW item \in Item \cup {None}, NEW addr, SeekSave(item, addr)
              PROVE  Front(undos') = undos
            BY <2>0, <2>3, SaveAppends
        <2>5. ASSUME NEW addr, SeekAndSave(addr) PROVE Front(undos') = undos
            BY <2>0, <2>3, <2>5 DEF SeekAndSave
        <2>6. ASSUME NEW addr, SeekCommand(addr) PROVE Front(undos') = undos
            BY <2>0, <2>3, <2>6 DEF SeekCommand
        <2>7. ASSUME NEW addr, NEW align, AlignCommand(addr, align) PROVE Front(undos') = undos
            BY <2>0, <2>3, <2>7 DEF AlignCommand
        <2>8. ASSUME NEW delta, NEW quiet, SeekOpcodeForward(delta, quiet)
              PROVE Front(undos') = undos
            BY <2>0, <2>3, <2>8 DEF SeekOpcodeForward
        <2>9. ASSUME NEW addr, NEW save, SeekOpt(addr, save) PROVE Front(undos') = undos
            BY <2>5, <2>9 DEF SeekOpt, Seek
        <2>10. undos' # undos
            OBVIOUS
        <2> QED
            BY <1>1, <2>1, <2>2, <2>5, <2>6, <2>7, <2>8, <2>9, <2>10
               DEF Next, vars, Seek, SeekCommandFails, SeekDelta, SeekNext, SeekPrev,
                   SetCursor, SetSilent
    <1>2. Inv /\ [Next]_vars => [KeepingStep]_vars
        BY <1>1 DEF KeepingStep
    <1> QED
        BY <1>2, Invariance, PTL DEF Spec

\* Timeline of two lists around an offset, as rz_core_seek_list shows them.
At(u, o, r, k) ==
    CASE k <= Len(u) -> u[k].offset
      [] k = Len(u) + 1 -> o
      [] OTHER -> r[Len(u) + 2 + Len(r) - k].offset

Line(u, o, r) == [k \in 1 .. Len(u) + 1 + Len(r) |-> At(u, o, r, k)]

\* Moving the last entry of one list over to the other moves no address.
LEMMA EntryMoves ==
    ASSUME NEW u \in Seq(Item), NEW r \in Seq(Item), NEW c \in Item, NEW k \in Nat,
           u # <<>>, k \in 1 .. Len(u) + 1 + Len(r)
    PROVE  At(Front(u), Last(u).offset, Append(r, c), k) = At(u, c.offset, r, k)
    <1> DEFINE v == Front(u)
               w == Append(r, c)
               n == Len(u)
               m == Len(r)
    <1>1. /\ Len(v) = n - 1 /\ \A i \in 1 .. (n - 1) : v[i] = u[i]
          /\ Last(u) = u[n] /\ n \in Nat \ {0}
        BY FrontFacts
    <1>2. /\ Len(w) = m + 1 /\ (\A i \in 1 .. m : w[i] = r[i]) /\ w[m + 1] = c
        BY AppendFacts
    <1>3. m \in Nat
        OBVIOUS
    <1>4. ASSUME NEW o PROVE At(u, o, r, k) = CASE k <= n -> u[k].offset
                                                [] k = n + 1 -> o
                                                [] OTHER -> r[n + 2 + m - k].offset
        BY DEF At
    <1>5. ASSUME NEW o PROVE At(v, o, w, k) = CASE k <= n - 1 -> v[k].offset
                                                [] k = n - 1 + 1 -> o
                                                [] OTHER -> w[n - 1 + 2 + (m + 1) - k].offset
        BY <1>1, <1>2 DEF At
    <1>6. At(v, Last(u).offset, w, k) = At(u, c.offset, r, k)
        <2> HIDE DEF v, w, n, m
        <2>1. CASE k <= n - 1
            <3>1. k <= n /\ k \in 1 .. (n - 1)
                BY <1>1, <2>1
            <3>2. At(v, Last(u).offset, w, k) = v[k].offset
                BY <1>1, <1>5, <2>1
            <3>3. At(u, c.offset, r, k) = u[k].offset
                BY <1>1, <1>4, <3>1
            <3> QED
                BY <1>1, <3>1, <3>2, <3>3
        <2>2. CASE k = n
            <3>1. ~(k <= n - 1) /\ k = n - 1 + 1 /\ k <= n
                BY <1>1, <2>2
            <3>2. At(v, Last(u).offset, w, k) = Last(u).offset
                BY <1>1, <1>5, <3>1
            <3>3. At(u, c.offset, r, k) = u[k].offset
                BY <1>1, <1>4, <3>1
            <3> QED
                BY <1>1, <2>2, <3>2, <3>3
        <2>3. CASE k = n + 1
            <3>1. n - 1 + 2 + (m + 1) - k = m + 1 /\ ~(k <= n - 1) /\ k # n - 1 + 1 /\ ~(k <= n)
                BY <1>1, <1>3, <2>3
            <3> QED
                BY <1>2, <1>4, <1>5, <2>3, <3>1
        <2>4. CASE k > n + 1
            <3>1. /\ n - 1 + 2 + (m + 1) - k = n + 2 + m - k
                  /\ n + 2 + m - k \in 1 .. m
                  /\ ~(k <= n - 1) /\ k # n - 1 + 1 /\ ~(k <= n) /\ k # n + 1
                BY <1>1, <1>3, <2>4 DEF n, m
            <3> QED
                BY <1>2, <1>4, <1>5, <3>1
        <2>5. k <= n - 1 \/ k = n \/ k = n + 1 \/ k > n + 1
            BY <1>1
        <2> QED
            BY <2>1, <2>2, <2>3, <2>4, <2>5
    <1> QED
        BY <1>6

\* rz_core_seek_undo moves the position along the line of addresses and leaves the line.
LEMMA LineMoves ==
    ASSUME NEW u \in Seq(Item), NEW r \in Seq(Item), NEW c \in Item, u # <<>>
    PROVE  Line(Front(u), Last(u).offset, Append(r, c)) = Line(u, c.offset, r)
    <1>1. Len(Front(u)) = Len(u) - 1 /\ Len(Append(r, c)) = Len(r) + 1
        BY FrontFacts, AppendFacts
    <1>2. Len(u) \in Nat /\ Len(r) \in Nat
        OBVIOUS
    <1>3. Len(Front(u)) + 1 + Len(Append(r, c)) = Len(u) + 1 + Len(r)
        BY <1>1, <1>2
    <1>4. \A k \in 1 .. Len(u) + 1 + Len(r) :
             At(Front(u), Last(u).offset, Append(r, c), k) = At(u, c.offset, r, k)
        BY <1>2, EntryMoves
    <1> QED
        BY <1>3, <1>4 DEF Line

\* A list is its last entry behind the others.
LEMMA AppendLast ==
    ASSUME NEW S, NEW s \in Seq(S), s # <<>>
    PROVE  Append(Front(s), Last(s)) = s
    <1>1. /\ Front(s) \in Seq(S) /\ Len(Front(s)) = Len(s) - 1
          /\ \A i \in 1..(Len(s) - 1) : Front(s)[i] = s[i]
          /\ Last(s) = s[Len(s)] /\ Last(s) \in S /\ Len(s) \in Nat \ {0}
        BY FrontFacts
    <1>2. PICK f \in Seq(S), x \in S : f = Front(s) /\ x = Last(s)
        BY <1>1
    <1>3. /\ Append(f, x) \in Seq(S) /\ Len(Append(f, x)) = Len(f) + 1
          /\ (\A i \in 1..Len(f) : Append(f, x)[i] = f[i]) /\ Append(f, x)[Len(f) + 1] = x
        BY AppendFacts
    <1>4. Len(Append(f, x)) = Len(s) /\ \A i \in 1..Len(s) : Append(f, x)[i] = s[i]
        BY <1>1, <1>2, <1>3
    <1> QED
        BY <1>2, <1>3, <1>4, SeqEqual

\* However long the history, rz_core_seek_undo and rz_core_seek_redo only walk along it:
\* the list of addresses that rz_core_seek_list shows stays the same.
THEOREM WalkKeeps == Spec => [][WalkStep]_vars
    <1>1. ASSUME Inv PROVE Timeline = Line(undos, offset, redos)
        BY DEF Timeline, Line, At
    <1>2. ASSUME Inv, [Next]_vars, Undo \/ Redo PROVE Timeline' = Timeline
        <2>2. Timeline' = Line(undos', offset', redos')
            BY DEF Timeline, Line, At
        <2>3. PICK c \in Item : c = Current
            BY <1>2, CurrentType DEF Inv
        <2>4. c.offset = offset
            BY <2>3 DEF Current
        <2>5. undos \in Seq(Item) /\ redos \in Seq(Item)
            BY <1>2 DEF Inv, TypeOK
        <2>6. CASE Undo
            BY <1>1, <1>2, <2>2, <2>3, <2>4, <2>5, <2>6, LineMoves DEF Undo, SetCurrent
        <2>7. CASE Redo
            <3>1. undos' = Append(undos, c) /\ redos' = Front(redos) /\ redos # <<>>
                BY <2>3, <2>7 DEF Redo
            <3>2. PICK u \in Seq(Item), r \in Seq(Item), d \in Item :
                     u = Append(undos, c) /\ r = Front(redos) /\ d = Last(redos)
                BY <2>5, <3>1, AppendFacts, FrontFacts
            <3>3. u # <<>> /\ Front(u) = undos /\ Last(u) = c
                BY <2>5, <3>2, AppendFacts, FrontAppend DEF Last
            <3>4. Append(r, d) = redos
                BY <2>5, <3>1, <3>2, AppendLast
            <3>5. Line(undos, c.offset, redos) = Line(u, d.offset, r)
                <4>1. Line(Front(u), Last(u).offset, Append(r, d)) = Line(u, d.offset, r)
                    BY <3>3, LineMoves
                <4> QED
                    BY <3>3, <3>4, <4>1
            <3>6. offset' = d.offset
                BY <2>7, <3>2 DEF Redo, SetCurrent
            <3> QED
                BY <1>1, <1>2, <2>2, <2>4, <3>1, <3>2, <3>5, <3>6
        <2> QED
            BY <1>2, <2>6, <2>7
    <1>3. Inv /\ [Next]_vars => [WalkStep]_vars
        BY <1>2 DEF WalkStep
    <1> QED
        BY <1>3, Invariance, PTL DEF Spec

\* What was pushed is the last entry, whether or not the oldest one made room for it.
LEMMA LastPushed ==
    ASSUME TypeOK, NEW item \in Item
    PROVE  Pushed(item) # <<>> /\ Last(Pushed(item)) = item
    <1>1. undos \in Seq(Item) /\ histsize \in Nat
        BY DEF TypeOK
    <1>2. PICK s \in Seq(Item) : Pushed(item) = Append(s, item)
        <2>1. CASE histsize # 0 /\ Len(undos) >= histsize
            <3>1. undos # <<>>
                BY <1>1, <2>1
            <3> QED
                BY <1>1, <2>1, <3>1, TailFacts DEF Pushed
        <2>2. CASE ~(histsize # 0 /\ Len(undos) >= histsize)
            BY <1>1, <2>2 DEF Pushed
        <2> QED
            BY <2>1, <2>2
    <1> QED
        BY <1>2, AppendFacts DEF Last

\* The position a seek command leaves is the one the next undo goes back to, however
\* long the history and full or not.
THEOREM SeekUndoable == Spec => [][UndoableStep]_vars
    <1> DEFINE P == (\E addr \in Addr \ {offset} : SeekCommand(addr)) /\ ~silent
               Q == undos' # <<>> /\ Last(undos') = Current
    <1>1. ASSUME Inv, P PROVE Q
        <2>1. PICK addr \in Addr \ {offset} : SeekCommand(addr)
            BY <1>1
        <2>2. TypeOK /\ Current \in Item
            BY <1>1, CurrentType DEF Inv
        <2>3. Current # None
            <3>1. offset \in Nat /\ cur \in Nat
                BY <2>2, SeekHistoryAssumption DEF TypeOK, Addr
            <3>2. Current \in [offset : Nat, cursor : Nat]
                BY <3>1 DEF Current
            <3> QED
                BY <3>2, SeekHistoryAssumption
        <2>4. Marked = Current
            BY <1>1 DEF Marked
        <2>5. NeedAdd(Current, addr)
            BY <2>1, <2>3 DEF NeedAdd, Current
        <2>6. AddHistory(Current)
            BY <2>1, <2>4, <2>5 DEF SeekCommand, SeekSave
        <2>7. CASE undos # <<>> /\ Current = Last(undos) /\ undos' = undos
            BY <2>7
        <2>8. CASE undos' = Pushed(Current)
            BY <2>2, <2>8, LastPushed
        <2> QED
            BY <2>6, <2>7, <2>8 DEF AddHistory
    <1>2. Inv => [UndoableStep]_vars
        BY <1>1 DEF UndoableStep
    <1> QED
        BY <1>2, Invariance, PTL

\* The history is the way that was taken, for any address space, alignment and limit.
THEOREM HistoryIsKept == Spec => HistoryIsTheWay
    <1>1. [WalkStep]_vars /\ [UndoableStep]_vars /\ [KeepingStep]_vars
              => [WalkStep /\ UndoableStep /\ KeepingStep]_vars
        OBVIOUS
    <1> QED
        BY <1>1, WalkKeeps, SeekUndoable, UnlimitedLosesNothing, PTL DEF HistoryIsTheWay

\* The offset and the history stay within their limits, and so does the next relative seek.
THEOREM SeeksStayInBounds == Spec => []SeeksInBounds
    <1>1. TypeOK /\ Bounded /\ DeltaKeepsDirection => SeeksInBounds
        BY DEF SeeksInBounds
    <1> QED
        BY <1>1, TypeCorrect, HistoryBounded, DeltaNeverWraps, PTL

-----------------------------------------------------------------------------
(* Finite sets and folds over them.                                        *)

\* A set of numbers has a smallest one.
LEMMA Smallest ==
    ASSUME NEW T \in SUBSET Nat, T # {}
    PROVE  \E n \in T : \A m \in T : n <= m
    <1> DEFINE R == OpToRel(<, Nat)
    <1>1. IsWellFoundedOn(R, Nat)
        BY NatLessThanWellFounded
    <1>2. \A x, y \in Nat : y < x => <<y, x>> \in R
        BY DEF OpToRel
    <1> HIDE DEF R
    <1>3. PICK n \in T : \A y \in T : ~(<<y, n>> \in R)
        BY <1>1, WFMin
    <1>4. ASSUME NEW m \in T PROVE n <= m
        <2>1. n \in Nat /\ m \in Nat /\ ~(m < n)
            BY <1>2, <1>3
        <2> QED
            BY <2>1
    <1> QED
        BY <1>4


\* What holds of 0 and passes from each number to the next holds up to n.
LEMMA Induction ==
    ASSUME NEW n \in Nat, NEW S, 0 \in S, \A k \in 0 .. n - 1 : k \in S => k + 1 \in S
    PROVE  0 .. n \subseteq S
    <1> DEFINE T == {k \in 0 .. n : k \notin S}
    <1> SUFFICES ASSUME T # {} PROVE FALSE
        OBVIOUS
    <1>1. PICK k \in T : \A m \in T : k <= m
        <2>1. T \in SUBSET Nat
            OBVIOUS
        <2> HIDE DEF T
        <2> QED
            BY <2>1, Smallest
    <1>2. k \in 1 .. n /\ k - 1 \in 0 .. n - 1 /\ k - 1 \notin T
        BY <1>1
    <1>3. k - 1 \in S
        BY <1>2
    <1>4. k \in S
        BY <1>2, <1>3
    <1> QED
        BY <1>1, <1>4

\* The last element of a bounded set of numbers.
LEMMA Largest ==
    ASSUME NEW n \in Nat, NEW T \in SUBSET (0 .. n), T # {}
    PROVE  \E k \in T : \A m \in T : m <= k
    <1> DEFINE U == {n - k : k \in T}
    <1>1. U \in SUBSET Nat /\ U # {}
        <2>1. \A k \in T : n - k \in Nat
            OBVIOUS
        <2> QED
            BY <2>1
    <1>2. PICK u \in U : \A v \in U : u <= v
        <2> HIDE DEF U
        <2> QED
            BY <1>1, Smallest
    <1>3. PICK k \in T : u = n - k
        BY <1>2
    <1>4. ASSUME NEW m \in T PROVE m <= k
        <2>1. n - m \in U
            OBVIOUS
        <2>2. u <= n - m
            BY <2>1, <1>2
        <2> QED
            BY <2>2, <1>3
    <1> QED
        BY <1>4

\* A choice from each set, and what passes from each set without its chosen element to the set.
Picks(ch, S) == \A s \in SUBSET S : s # {} => ch[s] \in s
Climbs(T, S, ch) == \A s \in SUBSET S : s # {} /\ s \ {ch[s]} \in T => s \in T

\* What passes from each set without its chosen element to the set holds of a finite set.
LEMMA SetInduction ==
    ASSUME NEW S, IsFiniteSet(S), NEW ch, Picks(ch, S), NEW T, {} \in T, Climbs(T, S, ch)
    PROVE  \A s \in SUBSET S : s \in T
    <1> DEFINE U == {s \in SUBSET S : s \notin T}
               C == {Cardinality(s) : s \in U}
    <1> SUFFICES ASSUME U # {} PROVE FALSE
        OBVIOUS
    <1>1. \A s \in SUBSET S : IsFiniteSet(s) /\ Cardinality(s) \in Nat
        BY FS_Subset, FS_CardinalityType
    <1>2. PICK n \in C : \A m \in C : n <= m
        <2>1. C \in SUBSET Nat /\ C # {}
            BY <1>1
        <2> HIDE DEF C
        <2> QED
            BY <2>1, Smallest
    <1>3. PICK s \in U : n = Cardinality(s)
        BY <1>2
    <1>4. s # {} /\ ch[s] \in s /\ s \ {ch[s]} \in SUBSET S
        BY <1>3 DEF Picks
    <1>5. Cardinality(s \ {ch[s]}) = Cardinality(s) - 1
        BY <1>1, <1>3, <1>4, FS_RemoveElement
    <1>6. s \ {ch[s]} \notin U
        <2> DEFINE r == s \ {ch[s]}
        <2>1. r \in U => Cardinality(r) \in C
            OBVIOUS
        <2>2. n \in Nat /\ Cardinality(r) = n - 1
            BY <1>1, <1>3, <1>5
        <2> HIDE DEF r, C, U
        <2>3. ASSUME Cardinality(r) \in C PROVE FALSE
            <3>1. n <= Cardinality(r)
                BY <1>2, <2>3
            <3> QED
                BY <2>2, <3>1
        <2> QED
            BY <2>1, <2>3 DEF r
    <1>7. s \ {ch[s]} \in T /\ s \notin T
        BY <1>3, <1>4, <1>6
    <1> HIDE DEF U, C
    <1> QED
        BY <1>3, <1>4, <1>7 DEF Climbs, U

\* A fold over the subsets of S, which takes the chosen element of each.
IsFold(h, S, V, v, ch, G) ==
    /\ h \in [SUBSET S -> V] /\ h[{}] = v
    /\ \A s \in SUBSET S : s # {} => h[s] = G[<<ch[s], h[s \ {ch[s]}]>>]

\* It has values.
LEMMA FoldExists ==
    ASSUME NEW S, IsFiniteSet(S), NEW ch, \A s \in SUBSET S : s # {} => ch[s] \in s,
           NEW V, NEW v \in V, NEW G, \A x \in S : \A w \in V : G[<<x, w>>] \in V
    PROVE  \E h : IsFold(h, S, V, v, ch, G)
    <1> DEFINE D(n) == {s \in SUBSET S : Cardinality(s) <= n}
               F(n, h) == /\ h \in [D(n) -> V] /\ h[{}] = v
                          /\ \A s \in D(n) : s # {} => h[s] = G[<<ch[s], h[s \ {ch[s]}]>>]
               N == Cardinality(S)
               T == {n \in 0 .. N : \E h : F(n, h)}
    <1>1. \A s \in SUBSET S : IsFiniteSet(s) /\ Cardinality(s) \in Nat /\ Cardinality(s) <= N
        BY FS_Subset, FS_CardinalityType
    <1>2. N \in Nat /\ Cardinality({}) = 0 /\ \A s \in SUBSET S : Cardinality(s) = 0 => s = {}
        BY <1>1, FS_EmptySet, FS_CardinalityType
    <1>3. \A s \in SUBSET S : s # {} => Cardinality(s \ {ch[s]}) = Cardinality(s) - 1 /\ ch[s] \in S
        BY <1>1, FS_RemoveElement
    <1>4. 0 \in T
        <2>1. \A s : s \in D(0) <=> s = {}
            BY <1>1, <1>2
        <2>a. D(0) = {{}}
            <3> HIDE DEF D
            <3> QED
                BY <2>1
        <2>2. F(0, [s \in {{}} |-> v])
            BY <2>a
        <2> HIDE DEF F
        <2> QED
            BY <1>2, <2>2
    <1>5. ASSUME NEW n \in 0 .. N - 1, n \in T PROVE n + 1 \in T
        <2>1. PICK h : F(n, h)
            BY <1>5
        <2> DEFINE g == [s \in D(n + 1) |-> IF s \in D(n) THEN h[s] ELSE G[<<ch[s], h[s \ {ch[s]}]>>]]
        <2>2. {} \in D(n) /\ D(n) \subseteq D(n + 1)
            BY <1>1, <1>2
        <2>3. ASSUME NEW s \in D(n + 1), s # {} PROVE s \ {ch[s]} \in D(n) /\ ch[s] \in S
            BY <1>1, <1>3, <2>3
        <2>4. ASSUME NEW s \in D(n + 1), s \notin D(n) PROVE s # {} /\ G[<<ch[s], h[s \ {ch[s]}]>>] \in V
            <3>1. s # {}
                BY <2>2, <2>4
            <3>2. h[s \ {ch[s]}] \in V /\ ch[s] \in S
                <4> HIDE DEF D
                <4> QED
                    BY <2>1, <2>3, <3>1
            <3> QED
                BY <3>1, <3>2
        <2> HIDE DEF D
        <2>5. g \in [D(n + 1) -> V] /\ g[{}] = v
            BY <2>1, <2>2, <2>4
        <2>6. \A s \in D(n) : g[s] = h[s]
            BY <2>2
        <2>7. ASSUME NEW s \in D(n + 1), s # {} PROVE g[s] = G[<<ch[s], g[s \ {ch[s]}]>>]
            <3>1. g[s \ {ch[s]}] = h[s \ {ch[s]}]
                BY <2>3, <2>6, <2>7
            <3>2. g[s] = G[<<ch[s], h[s \ {ch[s]}]>>]
                <4>1. CASE s \in D(n)
                    BY <4>1, <2>1, <2>6, <2>7
                <4>2. CASE s \notin D(n)
                    BY <4>2
                <4> QED
                    BY <4>1, <4>2
            <3> QED
                BY <3>1, <3>2
        <2>8. F(n + 1, g)
            BY <2>5, <2>7
        <2>9. n + 1 \in 0 .. N
            BY <1>2
        <2> HIDE DEF F
        <2> QED
            BY <2>8, <2>9
    <1>6. N \in T
        <2> HIDE DEF T
        <2>1. 0 .. N \subseteq T
            BY <1>2, <1>4, <1>5, Induction
        <2> QED
            BY <1>2, <2>1
    <1>7. PICK h : F(N, h)
        BY <1>6
    <1>8. D(N) = SUBSET S
        BY <1>1
    <1> QED
        BY <1>7, <1>8 DEF IsFold

\* The smallest of a set of numbers.
LEMMA MinIs ==
    ASSUME NEW T \in SUBSET Nat, T # {}
    PROVE  Files!Min(T) \in T /\ \A x \in T : Files!Min(T) <= x
    BY Smallest DEF Files!Min

\* The lowest number that is not used.
LEMMA LowestFree ==
    ASSUME NEW used, IsFiniteSet(used)
    PROVE  Files!Lowest(used) \in Nat /\ Files!Lowest(used) \notin used
    <1> DEFINE n == Cardinality(used)
               T == (1 .. n + 1) \ used
    <1>1. n \in Nat
        BY FS_CardinalityType
    <1>2. T # {}
        <2> SUFFICES ASSUME 1 .. n + 1 \subseteq used PROVE FALSE
            OBVIOUS
        <2>1. Cardinality(1 .. n + 1) = n + 1
            BY <1>1, FS_Interval
        <2>2. Cardinality(1 .. n + 1) <= n
            BY FS_Subset
        <2> QED
            BY <1>1, <2>1, <2>2
    <1>3. T \in SUBSET Nat
        BY <1>1
    <1>4. Files!Lowest(used) = Files!Min(T)
        BY DEF Files!Lowest, Files!Cardinality, Cardinality
    <1> HIDE DEF T
    <1>5. Files!Min(T) \in T
        BY <1>2, <1>3, MinIs
    <1> QED
        BY <1>3, <1>4, <1>5 DEF T

\* The largest of a bounded set of numbers.
LEMMA MaxIs ==
    ASSUME NEW n \in Nat, NEW T \in SUBSET (0 .. n), T # {}
    PROVE  Files!Max(T) \in T
    <1>1. \E k \in T : \A m \in T : m <= k
        BY Largest
    <1>2. \E k \in T : \A m \in T : k >= m
        BY <1>1
    <1> QED
        BY <1>2 DEF Files!Max

\* A vector of pointers, each there once.
Vec(v) == v \in Seq(Nat) /\ \A i, j \in DOMAIN v : v[i] = v[j] => i = j

\* A list of records with different pointers.
Listed(T, list) == list \in Seq(T) /\ \A i, j \in DOMAIN list : list[i].ptr = list[j].ptr => i = j

\* A sequence t that is s without its element k, and where its elements were.
Without1(t, s, k, pos) ==
    /\ pos \in [DOMAIN t -> DOMAIN s] /\ \A i \in DOMAIN t : t[i] = s[pos[i]] /\ pos[i] # k
    /\ \A i, j \in DOMAIN t : pos[i] = pos[j] => i = j
    /\ \A j \in DOMAIN s : j # k => \E i \in DOMAIN t : pos[i] = j

\* Taking an element out of a sequence.
LEMMA RemoveAtFacts ==
    ASSUME NEW T, NEW s \in Seq(T), NEW k \in DOMAIN s
    PROVE  Files!RemoveAt(s, k) \in Seq(T) /\ \E pos : Without1(Files!RemoveAt(s, k), s, k, pos)
    <1> DEFINE a == SubSeq(s, 1, k - 1)
               b == SubSeq(s, k + 1, Len(s))
               t == a \o b
               pos == [i \in DOMAIN t |-> IF i < k THEN i ELSE i + 1]
    <1>1. Files!RemoveAt(s, k) = t
        BY DEF Files!RemoveAt
    <1>2. Len(s) \in Nat /\ k \in 1 .. Len(s) /\ DOMAIN s = 1 .. Len(s) /\ \A i \in 1 .. Len(s) : s[i] \in T
        OBVIOUS
    <1>3. a \in Seq(T) /\ Len(a) = k - 1 /\ \A i \in 1 .. k - 1 : a[i] = s[i]
        BY <1>2, SubSeqProperties
    <1>4. b \in Seq(T) /\ Len(b) = Len(s) - k /\ \A i \in 1 .. Len(s) - k : b[i] = s[k + i]
        BY <1>2, SubSeqProperties
    <1> HIDE DEF a, b
    <1>5. t \in Seq(T) /\ Len(t) = Len(a) + Len(b) /\ DOMAIN t = 1 .. Len(t)
          /\ \A i \in 1 .. Len(t) : t[i] = IF i <= Len(a) THEN a[i] ELSE b[i - Len(a)]
        <2>1. /\ t \in Seq(T) /\ Len(t) = Len(a) + Len(b)
              /\ \A i \in 1 .. Len(a) + Len(b) : t[i] = IF i <= Len(a) THEN a[i] ELSE b[i - Len(a)]
            BY <1>3, <1>4, ConcatProperties
        <2> HIDE DEF t
        <2> QED
            BY <2>1
    <1> HIDE DEF t
    <1>6. Len(t) = Len(s) - 1
        BY <1>2, <1>3, <1>4, <1>5
    <1>7. ASSUME NEW i \in DOMAIN t PROVE pos[i] \in DOMAIN s /\ t[i] = s[pos[i]] /\ pos[i] # k
        <2>1. i \in 1 .. Len(s) - 1
            BY <1>5, <1>6
        <2>2. CASE i < k
            BY <1>2, <1>3, <1>5, <1>6, <2>1, <2>2
        <2>3. CASE ~(i < k)
            <3>1. i - Len(a) \in 1 .. Len(s) - k /\ k + (i - Len(a)) = i + 1 /\ ~(i <= Len(a)) /\ i + 1 \in 1 .. Len(s)
                BY <1>2, <1>3, <2>1, <2>3
            <3>2. t[i] = s[i + 1]
                BY <1>4, <1>5, <3>1
            <3> QED
                BY <1>2, <2>1, <2>3, <3>1, <3>2
        <2> QED
            BY <2>2, <2>3
    <1>8. ASSUME NEW i \in DOMAIN t, NEW j \in DOMAIN t, pos[i] = pos[j] PROVE i = j
        BY <1>2, <1>5, <1>6, <1>8
    <1>9. ASSUME NEW j \in DOMAIN s, j # k PROVE \E i \in DOMAIN t : pos[i] = j
        <2>1. CASE j < k
            <3>1. j \in DOMAIN t /\ pos[j] = j
                BY <1>2, <1>5, <1>6, <2>1
            <3> QED
                BY <3>1
        <2>2. CASE j > k
            <3>1. j - 1 \in DOMAIN t /\ pos[j - 1] = j
                BY <1>2, <1>5, <1>6, <2>2
            <3> QED
                BY <3>1
        <2> QED
            BY <1>2, <1>9, <2>1, <2>2
    <1>10. Without1(t, s, k, pos)
        BY <1>7, <1>8, <1>9 DEF Without1
    <1> HIDE DEF pos
    <1> QED
        BY <1>1, <1>5, <1>10

\* The place of the first element that passes a test.
LEMMA AtFacts ==
    ASSUME NEW T, NEW list \in Seq(T), NEW p
    PROVE  LET k == Files!At(list, p)
           IN  /\ p \in Files!Ptrs(Files!ToSet(list)) => k \in 1 .. Len(list) /\ list[k].ptr = p
               /\ p \notin Files!Ptrs(Files!ToSet(list)) => k = 0
    <1> DEFINE I == {i \in 1 .. Len(list) : list[i].ptr = p}
    <1>1. Files!At(list, p) = IF I # {} THEN Files!Min(I) ELSE 0
        BY DEF Files!At, Files!SelectInSeq
    <1>2. p \in Files!Ptrs(Files!ToSet(list)) <=> I # {}
        BY DEF Files!Ptrs, Files!ToSet
    <1>3. I \in SUBSET Nat
        OBVIOUS
    <1>4. I # {} => Files!Min(I) \in I
        <2> HIDE DEF I
        <2> QED
            BY <1>3, MinIs
    <1> QED
        BY <1>1, <1>2, <1>4

\* The first element with a descriptor, or none.
LEMMA FindFacts ==
    ASSUME NEW T, NEW list \in Seq(T), NEW fd
    PROVE  \/ Files!FindByFd(list, fd) = None
           \/ \E k \in 1 .. Len(list) : list[k].fd = fd /\ Files!FindByFd(list, fd) = list[k].ptr
    <1> DEFINE I == {i \in 1 .. Len(list) : list[i].fd = fd}
               m == IF I # {} THEN Files!Min(I) ELSE 0
    <1>1. Files!FindByFd(list, fd) = IF m = 0 THEN None ELSE list[m].ptr
        BY DEF Files!FindByFd, Files!SelectInSeq
    <1>2. I \in SUBSET Nat
        OBVIOUS
    <1>3. I # {} => Files!Min(I) \in I
        <2> HIDE DEF I
        <2> QED
            BY <1>2, MinIs
    <1> QED
        BY <1>1, <1>3

\* A vector forgets a pointer.
LEMMA ForgetFacts ==
    ASSUME NEW v, Vec(v), NEW x
    PROVE  Vec(Files!RemoveFirst(v, x)) /\ Files!ToSet(Files!RemoveFirst(v, x)) = Files!ToSet(v) \ {x}
    <1> DEFINE I == {i \in 1 .. Len(v) : v[i] = x}
               k == Files!Min(I)
               t == Files!RemoveAt(v, k)
    <1>1. v \in Seq(Nat) /\ DOMAIN v = 1 .. Len(v) /\ Len(v) \in Nat
        BY DEF Vec
    <1>2. CASE I = {}
        <2>1. Files!RemoveFirst(v, x) = v
            BY <1>2 DEF Files!RemoveFirst
        <2> QED
            BY <1>1, <1>2, <2>1 DEF Files!ToSet
    <1>3. CASE I # {}
        <2>1. Files!RemoveFirst(v, x) = t
            BY <1>3 DEF Files!RemoveFirst, Files!SelectInSeq
        <2>2. k \in I
            <3>1. I \in SUBSET Nat
                OBVIOUS
            <3> HIDE DEF I
            <3> QED
                BY <1>3, <3>1, MinIs
        <2> HIDE DEF k
        <2>3. k \in DOMAIN v /\ v[k] = x /\ \A i \in DOMAIN v : v[i] = x => i = k
            BY <1>1, <2>2 DEF Vec
        <2>4. t \in Seq(Nat) /\ \E pos : Without1(t, v, k, pos)
            BY <1>1, <2>3, RemoveAtFacts
        <2> HIDE DEF t
        <2>5. PICK pos : Without1(t, v, k, pos)
            BY <2>4
        <2>6. \A i, j \in DOMAIN t : t[i] = t[j] => i = j
            BY <2>5 DEF Without1, Vec
        <2>7. ASSUME NEW y PROVE (\E i \in DOMAIN t : t[i] = y) <=> (\E i \in DOMAIN v : v[i] = y) /\ y # x
            BY <2>3, <2>5 DEF Without1
        <2>8. Files!ToSet(t) = Files!ToSet(v) \ {x}
            BY <2>7 DEF Files!ToSet
        <2> QED
            BY <2>1, <2>4, <2>6, <2>8 DEF Vec
    <1> QED
        BY <1>2, <1>3

\* A list loses the record with a pointer.
LEMMA WithoutFacts ==
    ASSUME NEW T, NEW v, Listed(T, v), NEW x
    PROVE  /\ Listed(T, Files!Without(v, x))
           /\ Files!ToSet(Files!Without(v, x)) = {e \in Files!ToSet(v) : e.ptr # x}
    <1> DEFINE I == {i \in 1 .. Len(v) : v[i].ptr = x}
               k == Files!Min(I)
               t == Files!RemoveAt(v, k)
    <1>1. v \in Seq(T) /\ DOMAIN v = 1 .. Len(v) /\ Len(v) \in Nat
        BY DEF Listed
    <1>2. CASE I = {}
        <2>1. Files!Without(v, x) = v
            BY <1>2 DEF Files!Without, Files!RemoveFirstMatch
        <2> QED
            BY <1>1, <1>2, <2>1 DEF Files!ToSet
    <1>3. CASE I # {}
        <2>1. Files!Without(v, x) = t
            BY <1>3 DEF Files!Without, Files!RemoveFirstMatch, Files!SelectInSeq
        <2>2. k \in I
            <3>1. I \in SUBSET Nat
                OBVIOUS
            <3> HIDE DEF I
            <3> QED
                BY <1>3, <3>1, MinIs
        <2> HIDE DEF k
        <2>3. k \in DOMAIN v /\ v[k].ptr = x /\ \A i \in DOMAIN v : v[i].ptr = x => i = k
            BY <1>1, <2>2 DEF Listed
        <2>4. t \in Seq(T) /\ \E pos : Without1(t, v, k, pos)
            BY <1>1, <2>3, RemoveAtFacts
        <2> HIDE DEF t
        <2>5. PICK pos : Without1(t, v, k, pos)
            BY <2>4
        <2>6. \A i, j \in DOMAIN t : t[i].ptr = t[j].ptr => i = j
            BY <2>5 DEF Without1, Listed
        <2>7. ASSUME NEW y PROVE (\E i \in DOMAIN t : t[i] = y) <=> (\E i \in DOMAIN v : v[i] = y) /\ y.ptr # x
            BY <2>3, <2>5 DEF Without1
        <2>8. Files!ToSet(t) = {e \in Files!ToSet(v) : e.ptr # x}
            BY <2>7 DEF Files!ToSet
        <2> QED
            BY <2>1, <2>4, <2>6, <2>8 DEF Listed
    <1> QED
        BY <1>2, <1>3

-----------------------------------------------------------------------------
(* Core files, librz/core/cfile.c: what holds of a core and what a deletion does.*)

\* None is no pointer.
LEMMA NoneNoPtr == None \notin Nat
    BY FilesAssumption DEF Files!CoreFilesAssumption

\* The pieces of a core, as records with pointers.
OrNone == Nat \cup {None}
DescRecs == [ptr : Nat, fd : Nat, kind : {"file", "fmap", "vmap", "mmap"}, bf : OrNone]
CMapRecs == [ptr : Nat, fd : Nat, cf : OrNone]
BinRecs == [ptr : Nat, fd : Nat, obj : Files!BinObjects]
FileRecs == [ptr : Nat, fd : Nat, binfiles : Seq(Nat), extra_files : Seq(Nat), maps : Seq(Nat)]
Cores == [descs : SUBSET DescRecs, desc : OrNone, next_id : Nat, freed_ids : Seq(Nat),
          maps : SUBSET CMapRecs, binfiles : Seq(BinRecs), cur : OrNone, files : Seq(FileRecs), file : OrNone]

\* Core files with different pointers, each with vectors that have nothing twice.
FilesOk(list) ==
    /\ Listed(FileRecs, list)
    /\ \A k \in DOMAIN list : Vec(list[k].maps) /\ Vec(list[k].extra_files) /\ Vec(list[k].binfiles)

\* Descriptors with different pointers and ids; only a virtual file has a binary.
DescsOk(descs) ==
    /\ descs \in SUBSET DescRecs /\ IsFiniteSet(descs)
    /\ \A d, e \in descs : d.ptr = e.ptr \/ d.fd = e.fd => d = e
    /\ \A d \in descs : d.kind = "file" => d.bf = None

\* Maps with different pointers.
MapsOk(maps) ==
    /\ maps \in SUBSET CMapRecs /\ IsFiniteSet(maps)
    /\ \A m, n \in maps : m.ptr = n.ptr => m = n

\* Ids that are free are below the next one, each there once, and none is that of a descriptor.
PoolOk(next_id, freed_ids, descs) ==
    /\ next_id \in Nat /\ Vec(freed_ids)
    /\ \A i \in DOMAIN freed_ids : freed_ids[i] < next_id /\ \A d \in descs : d.fd # freed_ids[i]
    /\ \A d \in descs : d.fd < next_id

\* Each piece of a core by itself.
Parts(c) ==
    /\ c \in Cores
    /\ FilesOk(c.files) /\ Listed(BinRecs, c.binfiles) /\ DescsOk(c.descs) /\ MapsOk(c.maps)
    /\ PoolOk(c.next_id, c.freed_ids, c.descs)

\* A pointer to something in a set, in a list and in a vector.
HasPtr(S, p) == \E x \in S : x.ptr = p
InList(list, p) == \E k \in DOMAIN list : list[k].ptr = p
InVec(v, p) == \E i \in DOMAIN v : v[i] = p

\* What is current is there, and so is what a core file points to.
Currents(c) ==
    /\ c.file # None => InList(c.files, c.file)
    /\ c.desc # None => HasPtr(c.descs, c.desc)
    /\ c.cur # None => InList(c.binfiles, c.cur)

\* No vector of a core file points to what is gone; extra_files has virtual files only.
PointsTo(c) ==
    \A k \in DOMAIN c.files : \A p :
      /\ InVec(c.files[k].maps, p) => HasPtr(c.maps, p)
      /\ InVec(c.files[k].extra_files, p) => \E d \in c.descs : d.ptr = p /\ d.kind # "file"
      /\ InVec(c.files[k].binfiles, p) => InList(c.binfiles, p)

\* A map is known to its core file, and the binary of a virtual file is there.
Owners(c) ==
    /\ \A m \in c.maps : m.cf # None => \E k \in DOMAIN c.files : c.files[k].ptr = m.cf /\ InVec(c.files[k].maps, m.ptr)
    /\ \A d \in c.descs : d.bf # None => InList(c.binfiles, d.bf)

\* A descriptor has this id.
LiveFd(c, fd) == \E d \in c.descs : d.fd = fd

\* What holds while maps are cleaned up, and what holds between commands.
Weak(c) == Parts(c) /\ Currents(c) /\ PointsTo(c) /\ Owners(c)
Good(c) == Weak(c) /\ \A m \in c.maps : LiveFd(c, m.fd)

\* The core files stay, whatever they point to.
SameFiles(f, g) == DOMAIN g = DOMAIN f /\ \A k \in DOMAIN f : g[k].ptr = f[k].ptr /\ g[k].fd = f[k].fd

\* The same core files, which have forgotten the maps in A, the descriptors in E and the binaries in B.
Lost(f, g, A, E, B) ==
    /\ FilesOk(g) /\ SameFiles(f, g)
    /\ \A k \in DOMAIN f : \A x :
         /\ InVec(g[k].maps, x) <=> InVec(f[k].maps, x) /\ x \notin A
         /\ InVec(g[k].extra_files, x) <=> InVec(f[k].extra_files, x) /\ x \notin E
         /\ InVec(g[k].binfiles, x) <=> InVec(f[k].binfiles, x) /\ x \notin B

\* Forgetting twice.
LEMMA LostTwice ==
    ASSUME NEW f, NEW g, NEW h, NEW A, NEW E, NEW B, NEW A2, NEW E2, NEW B2,
           Lost(f, g, A, E, B), Lost(g, h, A2, E2, B2)
    PROVE  Lost(f, h, A \cup A2, E \cup E2, B \cup B2)
    <1>1. FilesOk(h) /\ SameFiles(f, h)
        BY DEF Lost, SameFiles
    <1>2. DOMAIN g = DOMAIN f
        BY DEF Lost, SameFiles
    <1>3. ASSUME NEW k \in DOMAIN f, NEW x
          PROVE  /\ InVec(h[k].maps, x) <=> InVec(f[k].maps, x) /\ x \notin A \cup A2
                 /\ InVec(h[k].extra_files, x) <=> InVec(f[k].extra_files, x) /\ x \notin E \cup E2
                 /\ InVec(h[k].binfiles, x) <=> InVec(f[k].binfiles, x) /\ x \notin B \cup B2
        BY <1>2 DEF Lost
    <1> QED
        BY <1>1, <1>3 DEF Lost

\* Forgetting nothing.
LEMMA LostNothing ==
    ASSUME NEW f, FilesOk(f)
    PROVE  Lost(f, f, {}, {}, {})
    BY DEF Lost, SameFiles

\* A vector forgets a pointer.
LEMMA VecForgets ==
    ASSUME NEW v, Vec(v), NEW p
    PROVE  /\ Vec(Files!RemoveFirst(v, p))
           /\ \A x : InVec(Files!RemoveFirst(v, p), x) <=> InVec(v, x) /\ x \notin {p}
    <1> DEFINE w == Files!RemoveFirst(v, p)
    <1>1. Vec(w) /\ Files!ToSet(w) = Files!ToSet(v) \ {p}
        BY ForgetFacts
    <1>2. \A u : \A x : x \in Files!ToSet(u) <=> InVec(u, x)
        BY DEF Files!ToSet, InVec
    <1> HIDE DEF w
    <1>3. \A x : InVec(w, x) <=> InVec(v, x) /\ x \notin {p}
        BY <1>1, <1>2
    <1> QED
        BY <1>1, <1>3 DEF w

\* The list that TLC is made to evaluate is the list.
LEMMA EmptyPrefix ==
    ASSUME NEW V, NEW s \in Seq(V)
    PROVE  <<>> \o s = s
    <1> DEFINE t == <<>> \o s
    <1>1. t \in Seq(V) /\ Len(t) = Len(s) /\ \A k \in 1 .. Len(s) : t[k] = s[k]
        OBVIOUS
    <1> HIDE DEF t
    <1>2. t = s
        BY <1>1
    <1> QED
        BY <1>2 DEF t

\* Every core file forgets the map.
LEMMA ForgetMap ==
    ASSUME NEW f, FilesOk(f), NEW p
    PROVE  Lost(f, <<>> \o [k \in DOMAIN f |-> [f[k] EXCEPT !.maps = Files!RemoveFirst(f[k].maps, p)]], {p}, {}, {})
    <1> DEFINE V(k) == Files!RemoveFirst(f[k].maps, p)
               g == [k \in DOMAIN f |-> [f[k] EXCEPT !.maps = V(k)]]
    <1>1. f \in Seq(FileRecs) /\ DOMAIN f = 1 .. Len(f) /\ Len(f) \in Nat /\ \A k \in DOMAIN f : f[k] \in FileRecs
        BY DEF FilesOk, Listed
    <1>2. \A k \in DOMAIN f : Vec(V(k)) /\ \A x : InVec(V(k), x) <=> InVec(f[k].maps, x) /\ x \notin {p}
        BY VecForgets DEF FilesOk
    <1>3. \A k \in DOMAIN f : V(k) \in Seq(Nat)
        BY <1>2 DEF Vec
    <1> HIDE DEF V
    <1>4. \A k \in DOMAIN f :
            /\ g[k] \in FileRecs /\ g[k].ptr = f[k].ptr /\ g[k].fd = f[k].fd /\ g[k].maps = V(k)
            /\ g[k].extra_files = f[k].extra_files /\ g[k].binfiles = f[k].binfiles
        BY <1>1, <1>3 DEF FileRecs
    <1>5. DOMAIN g = DOMAIN f /\ g \in Seq(FileRecs)
        <2>1. g \in [1 .. Len(f) -> FileRecs]
            BY <1>1, <1>4
        <2> HIDE DEF g
        <2> QED
            BY <1>1, <2>1
    <1> HIDE DEF g
    <1>6. FilesOk(g)
        BY <1>2, <1>4, <1>5 DEF FilesOk, Listed
    <1>7. Lost(f, g, {p}, {}, {})
        BY <1>2, <1>4, <1>5, <1>6 DEF Lost, SameFiles
    <1>8. <<>> \o g = g
        BY <1>5, EmptyPrefix
    <1> QED
        BY <1>7, <1>8 DEF g, V

\* Every core file forgets the descriptor.
LEMMA ForgetDesc ==
    ASSUME NEW f, FilesOk(f), NEW p
    PROVE  Lost(f, <<>> \o [k \in DOMAIN f |-> [f[k] EXCEPT !.extra_files = Files!RemoveFirst(f[k].extra_files, p)]], {}, {p}, {})
    <1> DEFINE V(k) == Files!RemoveFirst(f[k].extra_files, p)
               g == [k \in DOMAIN f |-> [f[k] EXCEPT !.extra_files = V(k)]]
    <1>1. f \in Seq(FileRecs) /\ DOMAIN f = 1 .. Len(f) /\ Len(f) \in Nat /\ \A k \in DOMAIN f : f[k] \in FileRecs
        BY DEF FilesOk, Listed
    <1>2. \A k \in DOMAIN f : Vec(V(k)) /\ \A x : InVec(V(k), x) <=> InVec(f[k].extra_files, x) /\ x \notin {p}
        BY VecForgets DEF FilesOk
    <1>3. \A k \in DOMAIN f : V(k) \in Seq(Nat)
        BY <1>2 DEF Vec
    <1> HIDE DEF V
    <1>4. \A k \in DOMAIN f :
            /\ g[k] \in FileRecs /\ g[k].ptr = f[k].ptr /\ g[k].fd = f[k].fd /\ g[k].extra_files = V(k)
            /\ g[k].maps = f[k].maps /\ g[k].binfiles = f[k].binfiles
        BY <1>1, <1>3 DEF FileRecs
    <1>5. DOMAIN g = DOMAIN f /\ g \in Seq(FileRecs)
        <2>1. g \in [1 .. Len(f) -> FileRecs]
            BY <1>1, <1>4
        <2> HIDE DEF g
        <2> QED
            BY <1>1, <2>1
    <1> HIDE DEF g
    <1>6. FilesOk(g)
        BY <1>2, <1>4, <1>5 DEF FilesOk, Listed
    <1>7. Lost(f, g, {}, {p}, {})
        BY <1>2, <1>4, <1>5, <1>6 DEF Lost, SameFiles
    <1>8. <<>> \o g = g
        BY <1>5, EmptyPrefix
    <1> QED
        BY <1>7, <1>8 DEF g, V

\* Every core file forgets the binary.
LEMMA ForgetBin ==
    ASSUME NEW f, FilesOk(f), NEW p
    PROVE  Lost(f, <<>> \o [k \in DOMAIN f |-> [f[k] EXCEPT !.binfiles = Files!RemoveFirst(f[k].binfiles, p)]], {}, {}, {p})
    <1> DEFINE V(k) == Files!RemoveFirst(f[k].binfiles, p)
               g == [k \in DOMAIN f |-> [f[k] EXCEPT !.binfiles = V(k)]]
    <1>1. f \in Seq(FileRecs) /\ DOMAIN f = 1 .. Len(f) /\ Len(f) \in Nat /\ \A k \in DOMAIN f : f[k] \in FileRecs
        BY DEF FilesOk, Listed
    <1>2. \A k \in DOMAIN f : Vec(V(k)) /\ \A x : InVec(V(k), x) <=> InVec(f[k].binfiles, x) /\ x \notin {p}
        BY VecForgets DEF FilesOk
    <1>3. \A k \in DOMAIN f : V(k) \in Seq(Nat)
        BY <1>2 DEF Vec
    <1> HIDE DEF V
    <1>4. \A k \in DOMAIN f :
            /\ g[k] \in FileRecs /\ g[k].ptr = f[k].ptr /\ g[k].fd = f[k].fd /\ g[k].binfiles = V(k)
            /\ g[k].maps = f[k].maps /\ g[k].extra_files = f[k].extra_files
        BY <1>1, <1>3 DEF FileRecs
    <1>5. DOMAIN g = DOMAIN f /\ g \in Seq(FileRecs)
        <2>1. g \in [1 .. Len(f) -> FileRecs]
            BY <1>1, <1>4
        <2> HIDE DEF g
        <2> QED
            BY <1>1, <2>1
    <1> HIDE DEF g
    <1>6. FilesOk(g)
        BY <1>2, <1>4, <1>5 DEF FilesOk, Listed
    <1>7. Lost(f, g, {}, {}, {p})
        BY <1>2, <1>4, <1>5, <1>6 DEF Lost, SameFiles
    <1>8. <<>> \o g = g
        BY <1>5, EmptyPrefix
    <1> QED
        BY <1>7, <1>8 DEF g, V

\* What deletions leave: maps in M and descriptors in D are gone, and the core files have forgotten
\* the maps in M, the descriptors in E and the binaries in B.
Del(c, t, M, E, D, B) ==
    /\ t \in Cores /\ PoolOk(t.next_id, t.freed_ids, t.descs)
    /\ t.maps = {m \in c.maps : m.ptr \notin M}
    /\ t.descs = {d \in c.descs : d.ptr \notin D} /\ D \subseteq E
    /\ t.desc = IF c.desc \in D THEN None ELSE c.desc
    /\ Lost(c.files, t.files, M, E, B)
    /\ t.binfiles = c.binfiles /\ t.cur = c.cur /\ t.file = c.file

\* Deletions leave nothing that points to what is gone.
LEMMA DelWeak ==
    ASSUME NEW c, Weak(c), NEW t, NEW M, NEW E, NEW D, NEW B, Del(c, t, M, E, D, B)
    PROVE  Weak(t)
    <1>1. Parts(t)
        <2>1. t.descs \subseteq c.descs /\ t.maps \subseteq c.maps
            BY DEF Del
        <2>2. DescsOk(t.descs)
            BY <2>1, FS_Subset DEF Weak, Parts, DescsOk
        <2>3. MapsOk(t.maps)
            BY <2>1, FS_Subset DEF Weak, Parts, MapsOk
        <2> QED
            BY <2>2, <2>3 DEF Weak, Parts, Del, Lost
    <1>2. DOMAIN t.files = DOMAIN c.files /\ \A k \in DOMAIN c.files : t.files[k].ptr = c.files[k].ptr
        BY DEF Del, Lost, SameFiles
    <1>3. Currents(t)
        BY <1>2 DEF Currents, Weak, Del, InList, HasPtr
    <1>4. PointsTo(t)
        <2> SUFFICES ASSUME NEW k \in DOMAIN t.files, NEW p
                     PROVE  /\ InVec(t.files[k].maps, p) => HasPtr(t.maps, p)
                            /\ InVec(t.files[k].extra_files, p) => \E d \in t.descs : d.ptr = p /\ d.kind # "file"
                            /\ InVec(t.files[k].binfiles, p) => InList(t.binfiles, p)
            BY DEF PointsTo
        <2>1. ASSUME InVec(t.files[k].maps, p) PROVE HasPtr(t.maps, p)
            <3>1. InVec(c.files[k].maps, p) /\ p \notin M
                BY <1>2, <2>1 DEF Del, Lost
            <3>2. PICK m \in c.maps : m.ptr = p
                BY <1>2, <3>1 DEF Weak, PointsTo, HasPtr
            <3>3. m \in t.maps
                BY <3>1, <3>2 DEF Del
            <3> QED
                BY <3>2, <3>3 DEF HasPtr
        <2>2. ASSUME InVec(t.files[k].extra_files, p) PROVE \E d \in t.descs : d.ptr = p /\ d.kind # "file"
            <3>1. InVec(c.files[k].extra_files, p) /\ p \notin E
                BY <1>2, <2>2 DEF Del, Lost
            <3>2. PICK d \in c.descs : d.ptr = p /\ d.kind # "file"
                BY <1>2, <3>1 DEF Weak, PointsTo
            <3>3. d \in t.descs
                BY <3>1, <3>2 DEF Del
            <3> QED
                BY <3>2, <3>3
        <2>3. InVec(t.files[k].binfiles, p) => InList(t.binfiles, p)
            BY <1>2 DEF Weak, PointsTo, Del, Lost
        <2> QED
            BY <2>1, <2>2, <2>3
    <1>5. Owners(t)
        <2>1. ASSUME NEW m \in t.maps, m.cf # None
              PROVE  \E k \in DOMAIN t.files : t.files[k].ptr = m.cf /\ InVec(t.files[k].maps, m.ptr)
            <3>1. m \in c.maps /\ m.ptr \notin M
                BY DEF Del
            <3>2. PICK k \in DOMAIN c.files : c.files[k].ptr = m.cf /\ InVec(c.files[k].maps, m.ptr)
                BY <2>1, <3>1 DEF Weak, Owners
            <3> QED
                BY <1>2, <3>1, <3>2 DEF Del, Lost
        <2>2. \A d \in t.descs : d.bf # None => InList(t.binfiles, d.bf)
            BY DEF Weak, Owners, Del
        <2> QED
            BY <2>1, <2>2 DEF Owners
    <1> QED
        BY <1>1, <1>3, <1>4, <1>5 DEF Weak

\* Deleting twice.
LEMMA DelTwice ==
    ASSUME NEW c, NEW t, NEW u, NEW M, NEW E, NEW D, NEW B, NEW M2, NEW E2, NEW D2, NEW B2,
           Del(c, t, M, E, D, B), Del(t, u, M2, E2, D2, B2)
    PROVE  Del(c, u, M \cup M2, E \cup E2, D \cup D2, B \cup B2)
    <1>1. Lost(c.files, u.files, M \cup M2, E \cup E2, B \cup B2)
        BY LostTwice DEF Del
    <1>2. u.maps = {m \in c.maps : m.ptr \notin M \cup M2}
        BY DEF Del
    <1>3. u.descs = {d \in c.descs : d.ptr \notin D \cup D2} /\ D \cup D2 \subseteq E \cup E2
        BY DEF Del
    <1>4. u.desc = IF c.desc \in D \cup D2 THEN None ELSE c.desc
        BY DEF Del
    <1> QED
        BY <1>1, <1>2, <1>3, <1>4 DEF Del

\* Deleting nothing.
LEMMA DelNothing ==
    ASSUME NEW c, Weak(c)
    PROVE  Del(c, c, {}, {}, {}, {})
    BY LostNothing DEF Del, Weak, Parts

\* map_del.
LEMMA MapDelDel ==
    ASSUME NEW c, Parts(c), NEW p
    PROVE  Del(c, Files!MapDel(c, p), {p}, {}, {}, {}) /\ Parts(Files!MapDel(c, p))
    <1> DEFINE left == {x \in c.maps : x.ptr # p}
               g == <<>> \o [k \in DOMAIN c.files |-> [c.files[k] EXCEPT !.maps = Files!RemoveFirst(c.files[k].maps, p)]]
               t == [[c EXCEPT !.maps = left] EXCEPT !.files = g]
    <1>1. c \in Cores
        BY DEF Parts
    <1>2. Files!MapDel(c, p) = t
        BY <1>1 DEF Files!MapDel, Files!IoMapDeleted, Cores
    <1>3. Lost(c.files, g, {p}, {}, {})
        BY ForgetMap DEF Parts
    <1>4. left \in SUBSET CMapRecs /\ left \subseteq c.maps /\ left = {m \in c.maps : m.ptr \notin {p}}
        BY <1>1 DEF Cores
    <1> HIDE DEF g, left
    <1>5. g \in Seq(FileRecs) /\ FilesOk(g)
        BY <1>3 DEF Lost, FilesOk, Listed
    <1>6. t \in Cores /\ t.maps = left /\ t.files = g
          /\ t.descs = c.descs /\ t.desc = c.desc /\ t.next_id = c.next_id /\ t.freed_ids = c.freed_ids
          /\ t.binfiles = c.binfiles /\ t.cur = c.cur /\ t.file = c.file
        BY <1>1, <1>4, <1>5 DEF Cores
    <1> HIDE DEF t
    <1>7. t.descs = {d \in c.descs : d.ptr \notin {}}
        BY <1>6
    <1>8. Del(c, t, {p}, {}, {}, {})
        BY <1>3, <1>4, <1>6, <1>7 DEF Del, Parts
    <1>9. MapsOk(t.maps)
        BY <1>4, <1>6, FS_Subset DEF Parts, MapsOk
    <1>10. Parts(t)
        BY <1>5, <1>6, <1>9 DEF Parts
    <1> QED
        BY <1>2, <1>8, <1>10

\* The loop that deletes maps deletes all of them.
LEMMA MapsGo ==
    ASSUME NEW c, Parts(c), NEW S \in SUBSET c.maps
    PROVE  Del(c, Files!FoldSet(LAMBDA m, t : Files!MapDel(t, m.ptr), c, S), {m.ptr : m \in S}, {}, {}, {})
    <1> DEFINE Ch(s) == CHOOSE x \in s : TRUE
               Is(f) == f = [s \in SUBSET S |-> IF s = {} THEN c ELSE Files!MapDel(f[s \ {Ch(s)}], Ch(s).ptr)]
               f == CHOOSE f : Is(f)
    <1>1. Files!FoldSet(LAMBDA m, t : Files!MapDel(t, m.ptr), c, S) = f[S]
        BY DEF Files!FoldSet, Files!MapThenFoldSet
    <1> DEFINE ch == [s \in SUBSET S |-> Ch(s)]
               V == {t \in Cores : Parts(t)}
               G == [x \in S \X V |-> Files!MapDel(x[2], x[1].ptr)]
    <1>2. IsFiniteSet(S) /\ c \in V
        BY FS_Subset DEF Parts, MapsOk
    <1>3. \A s \in SUBSET S : s # {} => ch[s] \in s /\ ch[s] = Ch(s)
        OBVIOUS
    <1>4. ASSUME NEW x \in S, NEW w \in V PROVE G[<<x, w>>] \in V /\ G[<<x, w>>] = Files!MapDel(w, x.ptr)
        <2>1. G[<<x, w>>] = Files!MapDel(w, x.ptr)
            OBVIOUS
        <2>2. Parts(w)
            OBVIOUS
        <2>3. Parts(Files!MapDel(w, x.ptr))
            BY <2>2, MapDelDel
        <2> QED
            BY <2>1, <2>3 DEF Parts
    <1> HIDE DEF ch, V, G, Ch
    <1>5. PICK h : IsFold(h, S, V, c, ch, G)
        BY <1>2, <1>3, <1>4, FoldExists
    <1>6. Is(h)
        <2>1. h = [s \in SUBSET S |-> h[s]] /\ h \in [SUBSET S -> V]
            BY <1>5 DEF IsFold
        <2>2. ASSUME NEW s \in SUBSET S
              PROVE  h[s] = IF s = {} THEN c ELSE Files!MapDel(h[s \ {Ch(s)}], Ch(s).ptr)
            <3>1. CASE s = {}
                BY <1>5, <3>1 DEF IsFold
            <3>2. CASE s # {}
                <4>1. ch[s] = Ch(s) /\ ch[s] \in S /\ h[s \ {ch[s]}] \in V
                    BY <1>3, <2>1, <3>2
                <4>2. h[s] = G[<<ch[s], h[s \ {ch[s]}]>>]
                    BY <1>5, <3>2 DEF IsFold
                <4> QED
                    BY <1>4, <3>2, <4>1, <4>2
            <3> QED
                BY <3>1, <3>2
        <2> QED
            BY <2>1, <2>2
    <1>7. Is(f)
        <2> HIDE DEF Is
        <2> QED
            BY <1>6
    <1> HIDE DEF f
    <1> DEFINE P(s) == {m.ptr : m \in s}
               T == {s \in SUBSET S : Parts(f[s]) /\ Del(c, f[s], P(s), {}, {}, {})}
    <1>8. {} \in T
        <2>1. f[{}] = c
            BY <1>7
        <2>2. Lost(c.files, c.files, {}, {}, {})
            BY LostNothing DEF Parts
        <2>3. Del(c, c, {}, {}, {}, {})
            BY <2>2 DEF Del, Parts
        <2>4. P({}) = {}
            OBVIOUS
        <2> HIDE DEF P
        <2> QED
            BY <2>1, <2>3, <2>4
    <1>9. ASSUME NEW s \in SUBSET S, s # {}, s \ {ch[s]} \in T PROVE s \in T
        <2> DEFINE r == s \ {ch[s]}
                   t == f[r]
                   q == ch[s].ptr
        <2>1. f[s] = Files!MapDel(t, q)
            BY <1>3, <1>7, <1>9
        <2>2. Parts(t) /\ Del(c, t, P(r), {}, {}, {})
            BY <1>9
        <2>3. P(r) \cup {q} = P(s)
            BY <1>3, <1>9
        <2> HIDE DEF P, t, r, q
        <2>4. Parts(f[s]) /\ Del(t, f[s], {q}, {}, {}, {})
            BY <2>1, <2>2, MapDelDel
        <2>5. Del(c, f[s], P(r) \cup {q}, {} \cup {}, {} \cup {}, {} \cup {})
            BY <2>2, <2>4, DelTwice
        <2>6. Del(c, f[s], P(s), {}, {}, {})
            BY <2>3, <2>5
        <2> QED
            BY <2>4, <2>6
    <1>10. S \in T
        <2> HIDE DEF T
        <2>1. \A s \in SUBSET S : s \in T
            <3>1. Picks(ch, S)
                BY <1>3 DEF Picks
            <3>2. Climbs(T, S, ch)
                BY <1>9 DEF Climbs
            <3> QED
                BY <1>2, <1>8, <3>1, <3>2, SetInduction
        <2> QED
            BY <2>1
    <1> QED
        BY <1>1, <1>10

\* rz_io_map_cleanup and rz_io_desc_del.
LEMMA DescGetIs ==
    ASSUME NEW c, Parts(c), NEW fd
    PROVE  /\ Files!DescGet(c, fd) # None <=> LiveFd(c, fd)
           /\ LiveFd(c, fd) => \E d \in c.descs : d.fd = fd /\ d.ptr = Files!DescGet(c, fd)
    <1>1. CASE LiveFd(c, fd)
        <2> DEFINE e == CHOOSE d \in c.descs : d.fd = fd
        <2>1. e \in c.descs /\ e.fd = fd
            BY <1>1 DEF LiveFd
        <2>2. Files!DescGet(c, fd) = e.ptr
            BY <1>1 DEF Files!DescGet, LiveFd
        <2> HIDE DEF e
        <2>3. e.ptr \in Nat
            BY <2>1 DEF Parts, DescsOk, DescRecs
        <2> QED
            BY <1>1, <2>1, <2>2, <2>3, NoneNoPtr
    <1>2. CASE ~LiveFd(c, fd)
        BY <1>2 DEF Files!DescGet, LiveFd
    <1> QED
        BY <1>1, <1>2

\* rz_core_file_io_desc_closed.
LEMMA ClosedDel ==
    ASSUME NEW c, Parts(c), NEW p
    PROVE  Del(c, Files!IoDescClosed(c, p), {}, {p}, {}, {})
    <1> DEFINE g == <<>> \o [k \in DOMAIN c.files |->
                       [c.files[k] EXCEPT !.extra_files = Files!RemoveFirst(c.files[k].extra_files, p)]]
               t == [c EXCEPT !.files = g]
    <1>1. c \in Cores
        BY DEF Parts
    <1>2. Files!IoDescClosed(c, p) = t
        BY <1>1 DEF Files!IoDescClosed
    <1>3. Lost(c.files, g, {}, {p}, {})
        BY ForgetDesc DEF Parts
    <1> HIDE DEF g
    <1>4. g \in Seq(FileRecs)
        BY <1>3 DEF Lost, FilesOk, Listed
    <1>5. t \in Cores /\ t.maps = c.maps /\ t.files = g
          /\ t.descs = c.descs /\ t.desc = c.desc /\ t.next_id = c.next_id /\ t.freed_ids = c.freed_ids
          /\ t.binfiles = c.binfiles /\ t.cur = c.cur /\ t.file = c.file
        BY <1>1, <1>4 DEF Cores
    <1> HIDE DEF t
    <1>6. t.descs = {d \in c.descs : d.ptr \notin {}} /\ t.maps = {m \in c.maps : m.ptr \notin {}}
        BY <1>5
    <1> QED
        BY <1>2, <1>3, <1>5, <1>6 DEF Del, Parts

\* rz_core_file_bin_file_deleted.
LEMMA BinForgottenDel ==
    ASSUME NEW c, Parts(c), NEW p
    PROVE  Del(c, Files!BinFileDeleted(c, p), {}, {}, {}, {p})
    <1> DEFINE g == <<>> \o [k \in DOMAIN c.files |->
                       [c.files[k] EXCEPT !.binfiles = Files!RemoveFirst(c.files[k].binfiles, p)]]
               t == [c EXCEPT !.files = g]
    <1>1. c \in Cores
        BY DEF Parts
    <1>2. Files!BinFileDeleted(c, p) = t
        BY <1>1 DEF Files!BinFileDeleted
    <1>3. Lost(c.files, g, {}, {}, {p})
        BY ForgetBin DEF Parts
    <1> HIDE DEF g
    <1>4. g \in Seq(FileRecs)
        BY <1>3 DEF Lost, FilesOk, Listed
    <1>5. t \in Cores /\ t.maps = c.maps /\ t.files = g
          /\ t.descs = c.descs /\ t.desc = c.desc /\ t.next_id = c.next_id /\ t.freed_ids = c.freed_ids
          /\ t.binfiles = c.binfiles /\ t.cur = c.cur /\ t.file = c.file
        BY <1>1, <1>4 DEF Cores
    <1> HIDE DEF t
    <1>6. t.descs = {d \in c.descs : d.ptr \notin {}} /\ t.maps = {m \in c.maps : m.ptr \notin {}}
        BY <1>5
    <1> QED
        BY <1>2, <1>3, <1>5, <1>6 DEF Del, Parts

\* The id of a descriptor that is gone is free.
LEMMA KickPool ==
    ASSUME NEW descs, DescsOk(descs), NEW n, NEW freed, PoolOk(n, freed, descs), NEW d \in descs,
           NEW rest, rest = {x \in descs : x.ptr # d.ptr}
    PROVE  /\ d.fd = n - 1 => PoolOk(n - 1, freed, rest)
           /\ d.fd # n - 1 => PoolOk(n, Append(freed, d.fd), rest)
    <1>1. d.fd \in Nat /\ n \in Nat /\ freed \in Seq(Nat) /\ Len(freed) \in Nat /\ DOMAIN freed = 1 .. Len(freed)
        BY DEF DescsOk, DescRecs, PoolOk, Vec
    <1>2. d.fd < n /\ \A i \in DOMAIN freed : freed[i] < n /\ freed[i] # d.fd /\ freed[i] \in Nat
        BY <1>1 DEF PoolOk
    <1>3. \A x \in rest : x \in descs /\ x.fd # d.fd /\ x.fd \in Nat /\ x.fd < n
        BY DEF DescsOk, DescRecs, PoolOk
    <1>4. CASE d.fd = n - 1
        <2>1. n - 1 \in Nat
            BY <1>1, <1>4
        <2>2. \A i \in DOMAIN freed : freed[i] < n - 1 /\ \A x \in rest : x.fd # freed[i]
            BY <1>1, <1>2, <1>3, <1>4 DEF PoolOk
        <2>3. \A x \in rest : x.fd < n - 1
            BY <1>1, <1>3, <1>4
        <2> QED
            BY <1>1, <1>4, <2>1, <2>2, <2>3 DEF PoolOk
    <1>5. CASE d.fd # n - 1
        <2> DEFINE g == Append(freed, d.fd)
        <2>1. g \in Seq(Nat) /\ DOMAIN g = 1 .. Len(freed) + 1 /\ g[Len(freed) + 1] = d.fd
              /\ \A i \in 1 .. Len(freed) : g[i] = freed[i]
            BY <1>1
        <2> HIDE DEF g
        <2>2. \A i, j \in DOMAIN g : g[i] = g[j] => i = j
            <3>1. \A i, j \in DOMAIN freed : freed[i] = freed[j] => i = j
                BY DEF PoolOk, Vec
            <3>2. \A i \in DOMAIN g : i \in DOMAIN freed \/ i = Len(freed) + 1
                BY <1>1, <2>1
            <3> QED
                BY <1>1, <1>2, <2>1, <3>1, <3>2
        <2>3. ASSUME NEW i \in DOMAIN g PROVE g[i] < n /\ \A x \in rest : x.fd # g[i]
            <3>1. CASE i \in DOMAIN freed
                BY <3>1, <1>1, <1>2, <1>3, <2>1 DEF PoolOk
            <3>2. CASE i = Len(freed) + 1
                BY <3>2, <1>2, <1>3, <2>1
            <3> QED
                BY <1>1, <2>1, <3>1, <3>2
        <2>4. PoolOk(n, g, rest)
            BY <1>1, <1>3, <2>1, <2>2, <2>3 DEF PoolOk, Vec
        <2> QED
            BY <1>5, <2>4 DEF g
    <1> QED
        BY <1>4, <1>5

\* The descriptor with a pointer.
LEMMA TheIs ==
    ASSUME NEW descs, DescsOk(descs), NEW d \in descs
    PROVE  Files!The(descs, d.ptr) = d
    BY DEF Files!The, DescsOk

\* The core without a descriptor, before rz_io_map_cleanup.
Removed(c, p) ==
    Files!StorageDelete([c EXCEPT !.descs = {x \in @ : x.ptr # p}, !.desc = IF @ = p THEN None ELSE @],
                        Files!The(c.descs, p).fd)

\* rz_io_desc_del: of the core files none changes, and the id goes back to the pool.
LEMMA RemovedDel ==
    ASSUME NEW c, Weak(c), NEW d \in c.descs,
           \A k \in DOMAIN c.files : ~InVec(c.files[k].extra_files, d.ptr)
    PROVE  Del(c, Removed(c, d.ptr), {}, {d.ptr}, {d.ptr}, {})
    <1> DEFINE p == d.ptr
               rest == {x \in c.descs : x.ptr # p}
               cd == IF c.desc = p THEN None ELSE c.desc
               u == [c EXCEPT !.descs = rest, !.desc = cd]
               t == Removed(c, p)
    <1>1. c \in Cores /\ DescsOk(c.descs) /\ PoolOk(c.next_id, c.freed_ids, c.descs) /\ FilesOk(c.files)
        BY DEF Weak, Parts
    <1>2. rest \in SUBSET DescRecs /\ cd \in OrNone /\ rest = {x \in c.descs : x.ptr \notin {p}}
        BY <1>1 DEF Cores, OrNone
    <1>3. t = Files!StorageDelete(u, d.fd)
        BY <1>1, TheIs DEF Removed
    <1>4. cd = IF c.desc \in {p} THEN None ELSE c.desc
        OBVIOUS
    <1> HIDE DEF cd
    <1>5. /\ u \in Cores /\ u.descs = rest /\ u.desc = cd /\ u.next_id = c.next_id /\ u.freed_ids = c.freed_ids
          /\ u.maps = c.maps /\ u.binfiles = c.binfiles /\ u.cur = c.cur /\ u.files = c.files /\ u.file = c.file
        <2> HIDE DEF rest
        <2> QED
            BY <1>1, <1>2 DEF Cores
    <1>6. d.fd \in Nat /\ Append(c.freed_ids, d.fd) \in Seq(Nat) /\ c.next_id \in Nat
        BY <1>1 DEF DescsOk, DescRecs, PoolOk, Vec
    <1> HIDE DEF u
    <1>7. /\ t \in Cores /\ PoolOk(t.next_id, t.freed_ids, rest)
          /\ t.descs = rest /\ t.desc = cd
          /\ t.maps = c.maps /\ t.binfiles = c.binfiles /\ t.cur = c.cur /\ t.files = c.files /\ t.file = c.file
        <2>1. CASE rest = {}
            <3> DEFINE fr == <<>>
                       n == 3
            <3>1. t = [u EXCEPT !.next_id = n, !.freed_ids = fr]
                BY <1>3, <1>5, <2>1 DEF Files!StorageDelete, Files!FirstFd
            <3>2. PoolOk(n, fr, rest) /\ fr \in Seq(Nat) /\ n \in Nat
                BY <2>1 DEF PoolOk, Vec
            <3> HIDE DEF n, fr
            <3>3. t \in Cores /\ t.next_id = n /\ t.freed_ids = fr /\ t.descs = u.descs /\ t.desc = u.desc
                  /\ t.maps = u.maps /\ t.binfiles = u.binfiles /\ t.cur = u.cur /\ t.files = u.files /\ t.file = u.file
                BY <1>5, <3>1, <3>2 DEF Cores
            <3> HIDE DEF t
            <3> QED
                BY <1>5, <3>2, <3>3
        <2>2. CASE rest # {} /\ d.fd = c.next_id - 1
            <3> DEFINE n == c.next_id - 1
            <3>1. t = [u EXCEPT !.next_id = n]
                BY <1>3, <1>5, <2>2 DEF Files!StorageDelete, Files!KickId
            <3>2. PoolOk(n, c.freed_ids, rest) /\ n \in Nat
                BY <1>1, <1>6, <2>2, KickPool
            <3> HIDE DEF n
            <3>3. t \in Cores /\ t.next_id = n /\ t.freed_ids = u.freed_ids /\ t.descs = u.descs /\ t.desc = u.desc
                  /\ t.maps = u.maps /\ t.binfiles = u.binfiles /\ t.cur = u.cur /\ t.files = u.files /\ t.file = u.file
                BY <1>5, <3>1, <3>2 DEF Cores
            <3> HIDE DEF t
            <3> QED
                BY <1>5, <3>2, <3>3
        <2>3. CASE rest # {} /\ d.fd # c.next_id - 1
            <3> DEFINE fr == Append(c.freed_ids, d.fd)
            <3>1. t = [u EXCEPT !.freed_ids = fr]
                BY <1>3, <1>5, <2>3 DEF Files!StorageDelete, Files!KickId
            <3>2. PoolOk(c.next_id, fr, rest) /\ fr \in Seq(Nat)
                BY <1>1, <1>6, <2>3, KickPool
            <3> HIDE DEF fr
            <3>3. t \in Cores /\ t.next_id = u.next_id /\ t.freed_ids = fr /\ t.descs = u.descs /\ t.desc = u.desc
                  /\ t.maps = u.maps /\ t.binfiles = u.binfiles /\ t.cur = u.cur /\ t.files = u.files /\ t.file = u.file
                BY <1>5, <3>1, <3>2 DEF Cores
            <3> HIDE DEF t
            <3> QED
                BY <1>5, <3>2, <3>3
        <2> QED
            BY <2>1, <2>2, <2>3
    <1> HIDE DEF t
    <1>8. Lost(c.files, t.files, {}, {p}, {})
        BY <1>1, <1>7 DEF Lost, SameFiles
    <1>9. t.maps = {m \in c.maps : m.ptr \notin {}}
        BY <1>7
    <1>10. Del(c, t, {}, {p}, {p}, {})
        <2> HIDE DEF rest
        <2> QED
            BY <1>2, <1>4, <1>7, <1>8, <1>9 DEF Del
    <1> QED
        BY <1>10 DEF t

\* The maps that rz_io_map_cleanup deletes.
Dead(c) == {m \in c.maps : ~LiveFd(c, m.fd)}

\* rz_io_map_cleanup: the maps without a descriptor go, the core files forget them, and no other does.
LEMMA CleanupDel ==
    ASSUME NEW c, Weak(c)
    PROVE  /\ Del(c, Files!MapCleanup(c), {m.ptr : m \in Dead(c)}, {}, {}, {})
           /\ Good(Files!MapCleanup(c))
    <1> DEFINE S == {m \in c.maps : Files!DescGet(c, m.fd) = None}
               t == Files!MapCleanup(c)
               M == {m.ptr : m \in S}
    <1>1. Parts(c)
        BY DEF Weak
    <1>2. S = Dead(c)
        BY <1>1, DescGetIs DEF Dead
    <1>3. t = Files!FoldSet(LAMBDA m, u : Files!MapDel(u, m.ptr), c, S)
        BY DEF Files!MapCleanup
    <1>4. Del(c, t, M, {}, {}, {})
        <2>1. S \in SUBSET c.maps
            OBVIOUS
        <2> HIDE DEF S, t
        <2> QED
            BY <1>1, <1>3, <2>1, MapsGo
    <1> HIDE DEF t
    <1>5. Weak(t)
        <2> HIDE DEF M
        <2> QED
            BY <1>4, DelWeak
    <1>6. ASSUME NEW m \in t.maps PROVE LiveFd(t, m.fd)
        <2>1. m \in c.maps /\ m.ptr \notin M /\ t.descs = c.descs
            BY <1>4 DEF Del
        <2>2. m \notin Dead(c)
            BY <1>2, <2>1
        <2> QED
            BY <2>1, <2>2 DEF Dead, LiveFd
    <1> QED
        BY <1>2, <1>4, <1>5, <1>6 DEF Good, t

\* rz_io_desc_close: its maps go with it, and so do the pointers to both.
LEMMA CloseDel ==
    ASSUME NEW c, Good(c), NEW d \in c.descs, NEW closes \in BOOLEAN
    PROVE  LET t == Files!DescClose(c, d.ptr, closes)
               D == IF closes \/ d.kind # "file" THEN {d.ptr} ELSE {}
           IN  Good(t) /\ \E M : Del(c, t, M, {d.ptr}, D, {})
    <1> DEFINE p == d.ptr
               u == Files!IoDescClosed(c, p)
               v == Removed(u, p)
               t == Files!MapCleanup(v)
    <1>1. Weak(c) /\ Parts(c) /\ DescsOk(c.descs)
        BY DEF Good, Weak, Parts
    <1>2. Files!DescClose(c, p, closes) = IF closes \/ d.kind # "file" THEN Files!DescDel(u, p) ELSE u
        BY <1>1, TheIs DEF Files!DescClose
    <1>3. Files!DescDel(u, p) = t
        BY DEF Files!DescDel, Removed
    <1>4. Del(c, u, {}, {p}, {}, {})
        BY <1>1, ClosedDel
    <1> HIDE DEF u, p
    <1>5. Weak(u) /\ u.descs = c.descs /\ u.maps = c.maps
        <2>1. Weak(u)
            BY <1>1, <1>4, DelWeak
        <2> QED
            BY <1>4, <2>1 DEF Del
    <1>6. CASE closes \/ d.kind # "file"
        <2>1. d \in u.descs /\ \A k \in DOMAIN u.files : ~InVec(u.files[k].extra_files, d.ptr)
            BY <1>4, <1>5 DEF Del, Lost, SameFiles, p
        <2>2. Del(u, v, {}, {p}, {p}, {})
            BY <1>5, <2>1, RemovedDel DEF p
        <2> HIDE DEF v
        <2>3. Weak(v)
            BY <1>5, <2>2, DelWeak
        <2> DEFINE M == {m.ptr : m \in Dead(v)}
        <2>4. Del(v, t, M, {}, {}, {}) /\ Good(t)
            BY <2>3, CleanupDel
        <2> HIDE DEF M, t
        <2>5. Del(c, v, {} \cup {}, {p} \cup {p}, {} \cup {p}, {} \cup {})
            BY <1>4, <2>2, DelTwice
        <2>6. Del(c, v, {}, {p}, {p}, {})
            BY <2>5
        <2>7. Del(c, t, {} \cup M, {p} \cup {}, {p} \cup {}, {} \cup {})
            BY <2>4, <2>6, DelTwice
        <2>8. Del(c, t, M, {p}, {p}, {})
            BY <2>7
        <2> QED
            BY <1>2, <1>3, <1>6, <2>4, <2>8 DEF p
    <1>7. CASE ~(closes \/ d.kind # "file")
        <2>1. Good(u)
            BY <1>5 DEF Good, LiveFd
        <2> QED
            BY <1>2, <1>4, <1>7, <2>1 DEF p
    <1> QED
        BY <1>6, <1>7

\* The virtual files of a binary.
VirtualOf(c, b) == {d \in c.descs : d.bf = b}

\* rz_core_vfile_bin_file_deleted closes them all.
LEMMA VirtualGo ==
    ASSUME NEW c, Good(c), NEW b
    PROVE  LET t == Files!VfileBinFileDeleted(c, b)
               E == {d.ptr : d \in VirtualOf(c, b)}
           IN  Good(t) /\ \E M : Del(c, t, M, E, E, {})
    <1> DEFINE S == VirtualOf(c, b)
               Ch(s) == CHOOSE x \in s : TRUE
               Is(f) == f = [s \in SUBSET S |-> IF s = {} THEN c ELSE Files!DescClose(f[s \ {Ch(s)}], Ch(s).ptr, TRUE)]
               f == CHOOSE f : Is(f)
    <1>1. Files!VfileBinFileDeleted(c, b) = f[S]
        BY DEF Files!VfileBinFileDeleted, Files!FoldSet, Files!MapThenFoldSet, VirtualOf
    <1> DEFINE ch == [s \in SUBSET S |-> Ch(s)]
               V == {t \in Cores : Good(t)}
               G == [x \in S \X V |-> IF x[1] \in x[2].descs THEN Files!DescClose(x[2], x[1].ptr, TRUE) ELSE x[2]]
               P(s) == {d.ptr : d \in s}
               Done(s, t) == Good(t) /\ \E M : Del(c, t, M, P(s), P(s), {})
    <1>2. IsFiniteSet(S) /\ c \in V /\ S \subseteq c.descs /\ DescsOk(c.descs)
        BY FS_Subset DEF Good, Weak, Parts, DescsOk, VirtualOf
    <1>3. \A s \in SUBSET S : s # {} => ch[s] \in s /\ ch[s] = Ch(s)
        OBVIOUS
    <1>4. ASSUME NEW x \in S, NEW w \in V
          PROVE  /\ G[<<x, w>>] \in V
                 /\ x \in w.descs => G[<<x, w>>] = Files!DescClose(w, x.ptr, TRUE)
        <2>1. G[<<x, w>>] = IF x \in w.descs THEN Files!DescClose(w, x.ptr, TRUE) ELSE w
            OBVIOUS
        <2>2. Good(w)
            OBVIOUS
        <2>3. x \in w.descs => Good(Files!DescClose(w, x.ptr, TRUE))
            BY <2>2, CloseDel
        <2>4. \A y : Good(y) => y \in V
            BY DEF Good, Weak, Parts
        <2> QED
            BY <2>1, <2>2, <2>3, <2>4
    <1> HIDE DEF ch, V, G, Ch
    <1>5. PICK h : IsFold(h, S, V, c, ch, G)
        <2> HIDE DEF S
        <2> QED
            BY <1>2, <1>3, <1>4, FoldExists
    <1>6. Done({}, c)
        <2>1. Del(c, c, {}, {}, {}, {})
            BY DelNothing DEF Good
        <2>2. P({}) = {}
            OBVIOUS
        <2> HIDE DEF P
        <2> QED
            BY <2>1, <2>2
    <1>7. ASSUME NEW s \in SUBSET S, s # {}, NEW t, Done(s \ {ch[s]}, t)
          PROVE  ch[s] \in t.descs /\ Done(s, Files!DescClose(t, ch[s].ptr, TRUE))
        <2> DEFINE r == s \ {ch[s]}
                   e == ch[s]
                   q == ch[s].ptr
                   u == Files!DescClose(t, q, TRUE)
        <2>1. PICK M : Del(c, t, M, P(r), P(r), {})
            BY <1>7
        <2>2. e \in s /\ e \in c.descs /\ q \notin P(r)
            BY <1>2, <1>3, <1>7 DEF DescsOk
        <2>3. e \in t.descs
            BY <2>1, <2>2 DEF Del
        <2>4. P(r) \cup {q} = P(s)
            BY <2>2
        <2> HIDE DEF P, r, e, S
        <2>5. Good(u) /\ \E M2 : Del(t, u, M2, {q}, {q}, {})
            <3>1. TRUE \in BOOLEAN /\ e.ptr = q
                BY DEF e
            <3> HIDE DEF q
            <3> QED
                BY <1>7, <2>3, <3>1, CloseDel
        <2>6. PICK M2 : Del(t, u, M2, {q}, {q}, {})
            BY <2>5
        <2> HIDE DEF q, u
        <2>7. Del(c, u, M \cup M2, P(r) \cup {q}, P(r) \cup {q}, {} \cup {})
            BY <2>1, <2>6, DelTwice
        <2>8. Del(c, u, M \cup M2, P(s), P(s), {})
            BY <2>4, <2>7
        <2> QED
            BY <2>3, <2>5, <2>8 DEF u, q, e
    <1>8. \A s \in SUBSET S : Done(s, h[s])
        <2> DEFINE T == {s \in SUBSET S : Done(s, h[s])}
        <2>1. {} \in T
            BY <1>5, <1>6 DEF IsFold
        <2>2. ASSUME NEW s \in SUBSET S, s # {}, s \ {ch[s]} \in T PROVE s \in T
            <3> HIDE DEF Done
            <3>1. Done(s \ {ch[s]}, h[s \ {ch[s]}]) /\ h[s \ {ch[s]}] \in V /\ ch[s] \in S
                BY <1>3, <1>5, <2>2 DEF IsFold
            <3>2. h[s] = G[<<ch[s], h[s \ {ch[s]}]>>]
                BY <1>5, <2>2 DEF IsFold
            <3> DEFINE w == h[s \ {ch[s]}]
            <3>3. ch[s] \in w.descs /\ Done(s, Files!DescClose(w, ch[s].ptr, TRUE))
                BY <1>7, <2>2, <3>1
            <3>4. h[s] = Files!DescClose(w, ch[s].ptr, TRUE)
                BY <1>4, <3>1, <3>2, <3>3
            <3> QED
                BY <3>3, <3>4
        <2> HIDE DEF T, S
        <2>3. \A s \in SUBSET S : s \in T
            <3>1. Picks(ch, S)
                BY <1>3 DEF Picks
            <3>2. Climbs(T, S, ch)
                BY <2>2 DEF Climbs
            <3> QED
                BY <1>2, <2>1, <3>1, <3>2, SetInduction
        <2> QED
            BY <2>3 DEF T
    <1> HIDE DEF Done
    <1>9. Is(h)
        <2>1. h = [s \in SUBSET S |-> h[s]] /\ h \in [SUBSET S -> V]
            BY <1>5 DEF IsFold
        <2>2. ASSUME NEW s \in SUBSET S
              PROVE  h[s] = IF s = {} THEN c ELSE Files!DescClose(h[s \ {Ch(s)}], Ch(s).ptr, TRUE)
            <3>1. CASE s = {}
                BY <1>5, <3>1 DEF IsFold
            <3>2. CASE s # {}
                <4>1. ch[s] = Ch(s) /\ ch[s] \in S /\ h[s \ {ch[s]}] \in V /\ s \ {ch[s]} \in SUBSET S
                    BY <1>3, <2>1, <3>2
                <4>2. h[s] = G[<<ch[s], h[s \ {ch[s]}]>>]
                    BY <1>5, <3>2 DEF IsFold
                <4>3. ch[s] \in h[s \ {ch[s]}].descs
                    BY <1>7, <1>8, <3>2, <4>1
                <4> QED
                    BY <1>4, <3>2, <4>1, <4>2, <4>3
            <3> QED
                BY <3>1, <3>2
        <2> QED
            BY <2>1, <2>2
    <1>10. Is(f)
        <2> HIDE DEF Is
        <2> QED
            BY <1>9
    <1> HIDE DEF f
    <1>11. \A s \in SUBSET S : Done(s, f[s])
        <2> DEFINE T == {s \in SUBSET S : Done(s, f[s])}
        <2>1. {} \in T
            BY <1>6, <1>10
        <2>2. ASSUME NEW s \in SUBSET S, s # {}, s \ {ch[s]} \in T PROVE s \in T
            <3>1. f[s] = Files!DescClose(f[s \ {ch[s]}], ch[s].ptr, TRUE)
                BY <1>3, <1>10, <2>2
            <3> QED
                BY <1>7, <2>2, <3>1
        <2> HIDE DEF T, S
        <2>3. \A s \in SUBSET S : s \in T
            <3>1. Picks(ch, S)
                BY <1>3 DEF Picks
            <3>2. Climbs(T, S, ch)
                BY <2>2 DEF Climbs
            <3> QED
                BY <1>2, <2>1, <3>1, <3>2, SetInduction
        <2> QED
            BY <2>3 DEF T
    <1> QED
        BY <1>1, <1>11 DEF Done

\* ev_binfiledel_cb: the virtual files of the binary go, and no core file points to it.
LEMMA EvDel ==
    ASSUME NEW c, Good(c), NEW b
    PROVE  LET t == Files!EvBinFileDel(c, b)
               E == {d.ptr : d \in VirtualOf(c, b)}
           IN  Good(t) /\ (\E M : Del(c, t, M, E, E, {b})) /\ \A d \in t.descs : d.bf # b
    <1> DEFINE u == Files!BinFileDeleted(c, b)
               t == Files!VfileBinFileDeleted(u, b)
               E == {d.ptr : d \in VirtualOf(c, b)}
    <1>1. Weak(c) /\ Parts(c)
        BY DEF Good, Weak
    <1>2. Files!EvBinFileDel(c, b) = t
        BY DEF Files!EvBinFileDel
    <1>3. Del(c, u, {}, {}, {}, {b})
        BY <1>1, BinForgottenDel
    <1> HIDE DEF u
    <1>4. Weak(u)
        BY <1>1, <1>3, DelWeak
    <1>5. u.descs = c.descs /\ u.maps = c.maps
        BY <1>3 DEF Del
    <1>6. Good(u)
        BY <1>4, <1>5 DEF Good, LiveFd
    <1>7. Good(t) /\ \E M : Del(u, t, M, E, E, {})
        BY <1>5, <1>6, VirtualGo DEF VirtualOf
    <1>8. PICK M : Del(u, t, M, E, E, {})
        BY <1>7
    <1>9. \A d \in t.descs : d.bf # b
        BY <1>5, <1>8 DEF Del, VirtualOf
    <1> HIDE DEF t, E
    <1>10. Del(c, t, {} \cup M, {} \cup E, {} \cup E, {b} \cup {})
        BY <1>3, <1>8, DelTwice
    <1>11. Del(c, t, M, E, E, {b})
        BY <1>10
    <1> QED
        BY <1>2, <1>7, <1>9, <1>11 DEF E

\* t is c with other binaries.
Rebinned(c, t, list, sel) ==
    /\ t \in Cores /\ t.descs = c.descs /\ t.desc = c.desc /\ t.next_id = c.next_id /\ t.freed_ids = c.freed_ids
    /\ t.maps = c.maps /\ t.files = c.files /\ t.file = c.file
    /\ t.binfiles = list /\ t.cur = sel

\* The binaries that are there are enough.
Enough(c, list, sel) ==
    /\ Listed(BinRecs, list) /\ sel \in OrNone /\ (sel # None => InList(list, sel))
    /\ \A k \in DOMAIN c.files : \A p : InVec(c.files[k].binfiles, p) => InList(list, p)
    /\ \A d \in c.descs : d.bf # None => InList(list, d.bf)

\* The core with other binaries, none of which is missed.
LEMMA BinsLeft ==
    ASSUME NEW c, Good(c), NEW list, NEW sel, Enough(c, list, sel), NEW t, Rebinned(c, t, list, sel)
    PROVE  Good(t)
    <1>1. c \in Cores /\ Weak(c) /\ Parts(c)
        BY DEF Good, Weak, Parts
    <1>4. Parts(t)
        BY <1>1 DEF Parts, Rebinned, Enough
    <1>5. Currents(t)
        BY <1>1 DEF Weak, Currents, Rebinned, Enough
    <1>6. PointsTo(t)
        BY <1>1 DEF Weak, PointsTo, Rebinned, Enough
    <1>7. Owners(t)
        BY <1>1 DEF Weak, Owners, Rebinned, Enough
    <1>8. \A m \in t.maps : LiveFd(t, m.fd)
        BY DEF Good, LiveFd, Rebinned
    <1> QED
        BY <1>4, <1>5, <1>6, <1>7, <1>8 DEF Good, Weak

\* rz_bin_file_delete.
LEMMA BinDeleteGood ==
    ASSUME NEW c, Good(c), NEW b \in Nat
    PROVE  LET t == Files!BinDelete(c, b)
           IN  /\ Good(t) /\ SameFiles(c.files, t.files) /\ t.file = c.file
               /\ t.descs = {d \in c.descs : d.bf # b}
               /\ \A p : InList(t.binfiles, p) <=> InList(c.binfiles, p) /\ p # b
    <1> DEFINE sel == IF c.cur = b THEN None ELSE c.cur
               u == [c EXCEPT !.cur = sel]
               v == Files!EvBinFileDel(u, b)
               list == Files!Without(v.binfiles, b)
               t == [v EXCEPT !.binfiles = list]
    <1>1. c \in Cores /\ Weak(c) /\ Parts(c) /\ Listed(BinRecs, c.binfiles) /\ sel \in OrNone
        BY DEF Good, Weak, Parts, Cores, OrNone
    <1>2. Files!BinDelete(c, b) = t
        BY DEF Files!BinDelete
    <1>3. sel # b /\ (sel # None => InList(c.binfiles, sel))
        BY <1>1, NoneNoPtr DEF Weak, Currents
    <1> HIDE DEF sel
    <1>4. Rebinned(c, u, c.binfiles, sel)
        BY <1>1 DEF Cores, Rebinned
    <1> HIDE DEF u
    <1>5. Good(u) /\ u.files = c.files /\ u.file = c.file /\ u.descs = c.descs /\ u.binfiles = c.binfiles
        <2>1. \A k \in DOMAIN c.files : \A p : InVec(c.files[k].binfiles, p) => InList(c.binfiles, p)
            BY <1>1 DEF Weak, PointsTo
        <2>2. \A d \in c.descs : d.bf # None => InList(c.binfiles, d.bf)
            BY <1>1 DEF Weak, Owners
        <2>3. Enough(c, c.binfiles, sel)
            BY <1>1, <1>3, <2>1, <2>2 DEF Enough
        <2>4. Good(u)
            BY <1>4, <2>3, BinsLeft
        <2> QED
            BY <1>4, <2>4 DEF Rebinned
    <1>6. u.cur = sel
        BY <1>4 DEF Rebinned
    <1> DEFINE E == {d.ptr : d \in VirtualOf(u, b)}
    <1>7. Good(v) /\ (\E M : Del(u, v, M, E, E, {b})) /\ \A d \in v.descs : d.bf # b
        BY <1>5, EvDel
    <1>8. PICK M : Del(u, v, M, E, E, {b})
        BY <1>7
    <1> HIDE DEF v
    <1>9. v.binfiles = c.binfiles /\ v.cur = sel /\ v.file = c.file /\ SameFiles(c.files, v.files)
        BY <1>5, <1>6, <1>8 DEF Del, Lost
    <1>10. v.descs = {d \in c.descs : d.bf # b}
        <2>1. v.descs = {d \in c.descs : d.ptr \notin E}
            BY <1>5, <1>8 DEF Del
        <2>2. \A d \in c.descs : d.ptr \in E <=> d.bf = b
            BY <1>1, <1>5 DEF VirtualOf, Parts, DescsOk
        <2> HIDE DEF E
        <2> QED
            BY <2>1, <2>2
    <1>11. Listed(BinRecs, list) /\ \A p : InList(list, p) <=> InList(c.binfiles, p) /\ p # b
        <2>1. Listed(BinRecs, list) /\ Files!ToSet(list) = {e \in Files!ToSet(c.binfiles) : e.ptr # b}
            BY <1>1, <1>9, WithoutFacts
        <2>2. \A s, p : InList(s, p) <=> \E e \in Files!ToSet(s) : e.ptr = p
            BY DEF InList, Files!ToSet
        <2> HIDE DEF list
        <2> QED
            BY <2>1, <2>2
    <1> HIDE DEF list
    <1>12. \A k \in DOMAIN v.files : \A p : InVec(v.files[k].binfiles, p) => InList(list, p)
        <2>1. \A k \in DOMAIN v.files : \A p : InVec(v.files[k].binfiles, p) => p # b /\ InList(c.binfiles, p)
            BY <1>7, <1>8, <1>9 DEF Good, Weak, PointsTo, Del, Lost, SameFiles
        <2> QED
            BY <1>11, <2>1
    <1>13. \A d \in v.descs : d.bf # None => InList(list, d.bf)
        BY <1>7, <1>9, <1>11 DEF Good, Weak, Owners
    <1>14. Rebinned(v, t, list, sel)
        BY <1>7, <1>9, <1>11 DEF Good, Weak, Parts, Cores, Rebinned, Listed
    <1>15. Enough(v, list, sel)
        BY <1>1, <1>3, <1>11, <1>12, <1>13 DEF Enough
    <1> HIDE DEF t
    <1>16. Good(t)
        BY <1>7, <1>14, <1>15, BinsLeft
    <1> QED
        BY <1>2, <1>9, <1>10, <1>11, <1>14, <1>16 DEF Rebinned

\* What the deletion of the binaries in B leaves, before they are off the list.
Unbound(c, t, B) ==
    /\ Good(t) /\ t.binfiles = c.binfiles
    /\ \A d \in t.descs : d.bf \notin B
    /\ \A k \in DOMAIN t.files : \A p : InVec(t.files[k].binfiles, p) => p \notin B

\* One more binary.
LEMMA UnboundStep ==
    ASSUME NEW c, NEW t, NEW B, Unbound(c, t, B), NEW b
    PROVE  Unbound(c, Files!EvBinFileDel(t, b), B \cup {b})
    <1> DEFINE u == Files!EvBinFileDel(t, b)
               E == {d.ptr : d \in VirtualOf(t, b)}
    <1>1. Good(t)
        BY DEF Unbound
    <1>2. Good(u) /\ (\E M : Del(t, u, M, E, E, {b})) /\ \A d \in u.descs : d.bf # b
        BY <1>1, EvDel
    <1>3. PICK M : Del(t, u, M, E, E, {b})
        BY <1>2
    <1> HIDE DEF u, E
    <1>4. u.binfiles = c.binfiles /\ u.descs \subseteq t.descs
        BY <1>3 DEF Del, Unbound
    <1>5. \A d \in u.descs : d.bf \notin B \cup {b}
        BY <1>2, <1>4 DEF Unbound
    <1>6. \A k \in DOMAIN u.files : \A p : InVec(u.files[k].binfiles, p) => p \notin B \cup {b}
        BY <1>3 DEF Del, Lost, SameFiles, Unbound
    <1> QED
        BY <1>2, <1>4, <1>5, <1>6 DEF Unbound, u

\* The binaries of rz_bin_file_delete_all are all told of.
LEMMA AllUnbound ==
    ASSUME NEW c, Good(c)
    PROVE  Unbound(c, Files!FoldLeft(LAMBDA t, b : Files!EvBinFileDel(t, b.ptr), c, c.binfiles),
                   {c.binfiles[i].ptr : i \in DOMAIN c.binfiles})
    <1> DEFINE list == c.binfiles
               S == DOMAIN list
               Is(f) == f = [s \in SUBSET S |-> IF s = {} THEN c
                                ELSE Files!EvBinFileDel(f[s \ {Files!Max(s)}], list[Files!Max(s)].ptr)]
               f == CHOOSE f : Is(f)
               P(s) == {list[i].ptr : i \in s}
    <1>1. Files!FoldLeft(LAMBDA t, b : Files!EvBinFileDel(t, b.ptr), c, list) = f[S]
        BY DEF Files!FoldLeft, Files!MapThenFoldSet
    <1> DEFINE ch == [s \in SUBSET S |-> Files!Max(s)]
               V == {t \in Cores : Good(t)}
               G == [x \in S \X V |-> Files!EvBinFileDel(x[2], list[x[1]].ptr)]
    <1>2. list \in Seq(BinRecs) /\ S = 1 .. Len(list) /\ Len(list) \in Nat
        BY DEF Good, Weak, Parts, Listed
    <1>3. IsFiniteSet(S)
        BY <1>2, Places
    <1>4. \A s \in SUBSET S : s # {} => ch[s] \in s /\ ch[s] = Files!Max(s)
        <2> SUFFICES ASSUME NEW s \in SUBSET S, s # {} PROVE Files!Max(s) \in s
            OBVIOUS
        <2>1. s \in SUBSET (0 .. Len(list))
            BY <1>2
        <2> QED
            BY <1>2, <2>1, MaxIs
    <1>5. \A y : Good(y) <=> y \in V
        BY DEF Good, Weak, Parts
    <1>6. \A x \in S : \A w \in V : G[<<x, w>>] \in V /\ G[<<x, w>>] = Files!EvBinFileDel(w, list[x].ptr)
        BY <1>5, EvDel
    <1> HIDE DEF ch, V, G
    <1>7. PICK h : IsFold(h, S, V, c, ch, G)
        <2>1. c \in V
            BY <1>5
        <2> HIDE DEF S
        <2> QED
            BY <1>3, <1>4, <1>6, <2>1, FoldExists
    <1>8. Is(h)
        <2>1. h = [s \in SUBSET S |-> h[s]] /\ h \in [SUBSET S -> V]
            BY <1>7 DEF IsFold
        <2>2. ASSUME NEW s \in SUBSET S
              PROVE  h[s] = IF s = {} THEN c ELSE Files!EvBinFileDel(h[s \ {Files!Max(s)}], list[Files!Max(s)].ptr)
            <3>1. CASE s = {}
                BY <1>7, <3>1 DEF IsFold
            <3>2. CASE s # {}
                <4>1. ch[s] = Files!Max(s) /\ ch[s] \in S /\ h[s \ {ch[s]}] \in V
                    BY <1>4, <2>1, <3>2
                <4>2. h[s] = G[<<ch[s], h[s \ {ch[s]}]>>]
                    BY <1>7, <3>2 DEF IsFold
                <4> QED
                    BY <1>6, <3>2, <4>1, <4>2
            <3> QED
                BY <3>1, <3>2
        <2> QED
            BY <2>1, <2>2
    <1>9. Is(f)
        <2> HIDE DEF Is
        <2> QED
            BY <1>8
    <1> HIDE DEF f
    <1>10. Unbound(c, c, P({}))
        BY DEF Unbound
    <1>11. \A s \in SUBSET S : Unbound(c, f[s], P(s))
        <2> DEFINE T == {s \in SUBSET S : Unbound(c, f[s], P(s))}
        <2>1. {} \in T
            BY <1>9, <1>10
        <2>2. ASSUME NEW s \in SUBSET S, s # {}, s \ {ch[s]} \in T PROVE s \in T
            <3>1. f[s] = Files!EvBinFileDel(f[s \ {ch[s]}], list[ch[s]].ptr) /\ ch[s] \in s
                BY <1>4, <1>9, <2>2
            <3>2. P(s) = P(s \ {ch[s]}) \cup {list[ch[s]].ptr}
                BY <3>1
            <3>3. Unbound(c, f[s \ {ch[s]}], P(s \ {ch[s]}))
                BY <2>2
            <3> HIDE DEF P
            <3> QED
                BY <3>1, <3>2, <3>3, UnboundStep
        <2> HIDE DEF T, S
        <2>3. \A s \in SUBSET S : s \in T
            <3>1. Picks(ch, S)
                BY <1>4 DEF Picks
            <3>2. Climbs(T, S, ch)
                BY <2>2 DEF Climbs
            <3> QED
                BY <1>3, <2>1, <3>1, <3>2, SetInduction
        <2> QED
            BY <2>3 DEF T
    <1> QED
        BY <1>1, <1>11

\* rz_bin_file_delete_all.
LEMMA BinDeleteAllGood ==
    ASSUME NEW c, Good(c)
    PROVE  Good(Files!BinDeleteAll(c))
    <1> DEFINE v == Files!FoldLeft(LAMBDA t, b : Files!EvBinFileDel(t, b.ptr), c, c.binfiles)
               list == <<>>
               t == [v EXCEPT !.binfiles = list, !.cur = None]
               B == {c.binfiles[i].ptr : i \in DOMAIN c.binfiles}
    <1>1. Files!BinDeleteAll(c) = t
        BY DEF Files!BinDeleteAll
    <1>2. Unbound(c, v, B)
        BY AllUnbound
    <1>3. list \in Seq(BinRecs) /\ DOMAIN list = {}
        OBVIOUS
    <1> HIDE DEF v, list
    <1>4. Listed(BinRecs, list)
        BY <1>3 DEF Listed
    <1>5. v \in Cores /\ Weak(v) /\ Good(v) /\ v.binfiles = c.binfiles
        BY <1>2 DEF Good, Weak, Parts, Unbound
    <1>6. Rebinned(v, t, list, None)
        BY <1>3, <1>5 DEF Cores, Rebinned, OrNone
    <1>7. \A p : InList(v.binfiles, p) => p \in B
        BY <1>5 DEF InList
    <1> HIDE DEF B
    <1>8. \A k \in DOMAIN v.files : \A p : ~InVec(v.files[k].binfiles, p)
        BY <1>2, <1>5, <1>7 DEF Unbound, Weak, PointsTo
    <1>9. \A d \in v.descs : d.bf = None
        BY <1>2, <1>5, <1>7 DEF Unbound, Weak, Owners
    <1>10. Enough(v, list, None)
        BY <1>4, <1>8, <1>9 DEF Enough, OrNone
    <1> HIDE DEF t
    <1> QED
        BY <1>1, <1>5, <1>6, <1>10, BinsLeft

\* rz_io_close_all, when no core file is left.
LEMMA IoCloseAllGood ==
    ASSUME NEW c, Good(c), DOMAIN c.files = {}
    PROVE  Good(Files!IoCloseAll(c))
    <1> DEFINE empty == <<>>
               first == Files!FirstFd
               u == [c EXCEPT !.descs = {}, !.desc = None, !.next_id = first, !.freed_ids = empty]
               t == Files!IoCloseAll(c)
               M == {m.ptr : m \in c.maps}
    <1>1. empty \in Seq(Nat) /\ DOMAIN empty = {} /\ first \in Nat
        BY DEF Files!FirstFd
    <1>2. c \in Cores /\ Weak(c) /\ Parts(c)
        BY DEF Good, Weak, Parts
    <1>3. t = Files!FoldSet(LAMBDA m, w : Files!MapDel(w, m.ptr), u, c.maps)
        BY DEF Files!IoCloseAll
    <1> HIDE DEF empty, first
    <1>4. /\ u \in Cores /\ u.descs = {} /\ u.desc = None /\ u.next_id = first /\ u.freed_ids = empty
          /\ u.maps = c.maps /\ u.binfiles = c.binfiles /\ u.cur = c.cur /\ u.files = c.files /\ u.file = c.file
        BY <1>1, <1>2 DEF Cores, OrNone
    <1> HIDE DEF u
    <1>5. DescsOk(u.descs) /\ PoolOk(u.next_id, u.freed_ids, u.descs)
        BY <1>1, <1>4, FS_EmptySet DEF DescsOk, PoolOk, Vec
    <1>6. Parts(u)
        BY <1>2, <1>4, <1>5 DEF Parts
    <1>7. Currents(u) /\ PointsTo(u) /\ Owners(u)
        BY <1>2, <1>4 DEF Weak, Currents, PointsTo, Owners
    <1>8. Weak(u)
        BY <1>6, <1>7 DEF Weak
    <1>9. Del(u, t, M, {}, {}, {})
        <2>1. c.maps \in SUBSET u.maps
            BY <1>4
        <2> QED
            BY <1>3, <1>6, <2>1, MapsGo
    <1> HIDE DEF t
    <1>10. Weak(t)
        BY <1>8, <1>9, DelWeak
    <1>11. t.maps = {}
        BY <1>4, <1>9 DEF Del
    <1> QED
        BY <1>10, <1>11 DEF Good, t

\* What no deletion changes: which core files there are, and which of them is current.
Stay(c, t) == SameFiles(c.files, t.files) /\ t.file = c.file

\* map_del.
LEMMA MapDelGood ==
    ASSUME NEW c, Good(c), NEW p
    PROVE  Good(Files!MapDel(c, p)) /\ Stay(c, Files!MapDel(c, p)) /\ Files!MapDel(c, p).descs = c.descs
    <1> DEFINE t == Files!MapDel(c, p)
    <1>1. Weak(c) /\ Parts(c)
        BY DEF Good, Weak
    <1>2. Del(c, t, {p}, {}, {}, {})
        BY <1>1, MapDelDel
    <1> HIDE DEF t
    <1>3. Weak(t)
        BY <1>1, <1>2, DelWeak
    <1>4. t.maps \subseteq c.maps /\ t.descs = c.descs /\ Stay(c, t)
        BY <1>2 DEF Del, Lost, Stay
    <1>5. Good(t)
        BY <1>3, <1>4 DEF Good, LiveFd
    <1> QED
        BY <1>4, <1>5 DEF t

\* rz_io_desc_close.
LEMMA DescCloseGood ==
    ASSUME NEW c, Good(c), NEW d \in c.descs, NEW p, p = d.ptr, NEW closes \in BOOLEAN
    PROVE  LET t == Files!DescClose(c, p, closes)
           IN  Good(t) /\ Stay(c, t) /\ \A e \in c.descs : e # d => e \in t.descs
    <1> DEFINE D == IF closes \/ d.kind # "file" THEN {d.ptr} ELSE {}
               t == Files!DescClose(c, p, closes)
    <1>1. Good(t) /\ \E M : Del(c, t, M, {p}, D, {})
        BY CloseDel
    <1>2. PICK M : Del(c, t, M, {p}, D, {})
        BY <1>1
    <1>3. D \subseteq {p}
        OBVIOUS
    <1> HIDE DEF t, D
    <1>4. Stay(c, t) /\ t.descs = {e \in c.descs : e.ptr \notin D}
        BY <1>2 DEF Del, Lost, Stay
    <1>5. \A e \in c.descs : e # d => e.ptr # p
        BY DEF Good, Weak, Parts, DescsOk
    <1> QED
        BY <1>1, <1>3, <1>4, <1>5 DEF t

\* A core file is where rz_list_find would find it.
LEMMA FileAt ==
    ASSUME NEW c, Parts(c), NEW cf, InList(c.files, cf)
    PROVE  LET k == Files!At(c.files, cf)
           IN  /\ k \in DOMAIN c.files /\ c.files[k].ptr = cf /\ c.files[k] \in FileRecs
               /\ \A j \in DOMAIN c.files : c.files[j].ptr = cf => j = k
    <1>1. c.files \in Seq(FileRecs) /\ DOMAIN c.files = 1 .. Len(c.files)
        BY DEF Parts, FilesOk, Listed
    <1>2. cf \in Files!Ptrs(Files!ToSet(c.files))
        BY DEF InList, Files!Ptrs, Files!ToSet
    <1>3. Files!At(c.files, cf) \in 1 .. Len(c.files) /\ c.files[Files!At(c.files, cf)].ptr = cf
        BY <1>1, <1>2, AtFacts
    <1>4. \A k \in DOMAIN c.files : c.files[k] \in FileRecs
        BY <1>1
    <1> QED
        BY <1>1, <1>3, <1>4 DEF Parts, FilesOk, Listed

\* The start of rz_core_file_close: descriptors with another id stay.
LEMMA CloseBeginGood ==
    ASSUME NEW c, Good(c), NEW cf, InList(c.files, cf), NEW closes \in BOOLEAN
    PROVE  LET t == Files!FileCloseBegin(c, cf, closes)
               fd == c.files[Files!At(c.files, cf)].fd
           IN  Good(t) /\ Stay(c, t) /\ \A e \in c.descs : e.fd # fd => e \in t.descs
    <1> DEFINE fd == c.files[Files!At(c.files, cf)].fd
               p == Files!DescGet(c, fd)
               t == Files!FileCloseBegin(c, cf, closes)
    <1>1. t = IF p = None THEN c ELSE Files!DescClose(c, p, closes)
        BY DEF Files!FileCloseBegin
    <1>2. Parts(c)
        BY DEF Good, Weak
    <1>3. CASE p = None
        BY <1>1, <1>3 DEF Stay, SameFiles
    <1>4. CASE p # None
        <2>1. PICK d \in c.descs : d.fd = fd /\ d.ptr = p
            BY <1>2, <1>4, DescGetIs
        <2> HIDE DEF p, fd, t
        <2>2. t = Files!DescClose(c, p, closes)
            BY <1>1, <1>4
        <2>3. Good(t) /\ Stay(c, t) /\ \A e \in c.descs : e # d => e \in t.descs
            BY <2>1, <2>2, DescCloseGood
        <2> QED
            BY <2>1, <2>3 DEF t, fd
    <1> QED
        BY <1>3, <1>4

\* Nothing hangs on the core file any more.
EmptyFile(f) == DOMAIN f.maps = {} /\ DOMAIN f.extra_files = {} /\ DOMAIN f.binfiles = {}

\* The end of rz_core_file_close.
LEMMA CloseEndGood ==
    ASSUME NEW c, Good(c), NEW cf \in Nat, InList(c.files, cf), EmptyFile(c.files[Files!At(c.files, cf)])
    PROVE  LET t == Files!FileCloseEnd(c, cf)
           IN  /\ Good(t) /\ t.descs = c.descs
               /\ Files!ToSet(t.files) = {f \in Files!ToSet(c.files) : f.ptr # cf}
    <1> DEFINE list == Files!Without(c.files, cf)
               file == IF c.file = cf THEN None ELSE c.file
               t == [c EXCEPT !.files = list, !.file = file]
    <1>1. Files!FileCloseEnd(c, cf) = t
        BY DEF Files!FileCloseEnd
    <1>2. c \in Cores /\ Weak(c) /\ Parts(c) /\ Listed(FileRecs, c.files)
        BY DEF Good, Weak, Parts, FilesOk
    <1>3. Listed(FileRecs, list) /\ Files!ToSet(list) = {f \in Files!ToSet(c.files) : f.ptr # cf}
        BY <1>2, WithoutFacts
    <1>4. file \in OrNone /\ file # cf /\ (file # None => InList(c.files, file))
        BY <1>2, NoneNoPtr DEF Weak, Currents, Cores, OrNone
    <1> HIDE DEF list, file
    <1>5. /\ t \in Cores /\ t.descs = c.descs /\ t.desc = c.desc /\ t.next_id = c.next_id /\ t.freed_ids = c.freed_ids
          /\ t.maps = c.maps /\ t.binfiles = c.binfiles /\ t.cur = c.cur /\ t.files = list /\ t.file = file
        BY <1>2, <1>3, <1>4 DEF Cores, Listed
    <1> HIDE DEF t
    <1>6. \A k \in DOMAIN list : \E j \in DOMAIN c.files : list[k] = c.files[j] /\ c.files[j].ptr # cf
        <2>1. \A k \in DOMAIN list : list[k] \in Files!ToSet(list)
            BY DEF Files!ToSet
        <2>2. \A f \in Files!ToSet(c.files) : \E j \in DOMAIN c.files : f = c.files[j]
            BY DEF Files!ToSet
        <2> QED
            BY <1>3, <2>1, <2>2
    <1>7. \A j \in DOMAIN c.files : c.files[j].ptr # cf => \E k \in DOMAIN list : list[k] = c.files[j]
        <2>1. \A j \in DOMAIN c.files : c.files[j] \in Files!ToSet(c.files)
            BY DEF Files!ToSet
        <2>2. \A f \in Files!ToSet(list) : \E k \in DOMAIN list : f = list[k]
            BY DEF Files!ToSet
        <2> QED
            BY <1>3, <2>1, <2>2
    <1>8. Parts(t)
        <2>1. FilesOk(list)
            BY <1>2, <1>3, <1>6 DEF Parts, FilesOk
        <2> QED
            BY <1>2, <1>5, <2>1 DEF Parts
    <1>9. Currents(t)
        <2>1. file # None => InList(list, file)
            BY <1>4, <1>7 DEF InList
        <2> QED
            BY <1>2, <1>5, <2>1 DEF Weak, Currents
    <1>10. PointsTo(t)
        BY <1>2, <1>5, <1>6 DEF Weak, PointsTo
    <1>11. Owners(t)
        <2>1. ASSUME NEW m \in c.maps, m.cf # None
              PROVE  \E k \in DOMAIN list : list[k].ptr = m.cf /\ InVec(list[k].maps, m.ptr)
            <3>1. PICK j \in DOMAIN c.files : c.files[j].ptr = m.cf /\ InVec(c.files[j].maps, m.ptr)
                BY <1>2, <2>1 DEF Weak, Owners
            <3>2. c.files[j].ptr # cf
                <4>1. c.files[j].ptr = cf => j = Files!At(c.files, cf)
                    BY <1>2, FileAt
                <4> QED
                    BY <3>1, <4>1 DEF EmptyFile, InVec
            <3>3. PICK k \in DOMAIN list : list[k] = c.files[j]
                BY <1>7, <3>2
            <3> QED
                BY <3>1, <3>3
        <2> QED
            BY <1>2, <1>5, <2>1 DEF Weak, Owners
    <1>12. \A m \in t.maps : LiveFd(t, m.fd)
        BY <1>5 DEF Good, LiveFd
    <1> QED
        BY <1>1, <1>3, <1>5, <1>8, <1>9, <1>10, <1>11, <1>12 DEF Good, Weak

\* rz_id_pool_grab_id: an id no descriptor has, and the pool without it.
LEMMA GrabPool ==
    ASSUME NEW descs, DescsOk(descs), NEW n, NEW freed, PoolOk(n, freed, descs), NEW r, NEW more, more = descs \cup {r}
    PROVE  /\ freed # <<>> /\ r.fd = Head(freed) =>
                /\ PoolOk(n, Tail(freed), more) /\ Head(freed) \in Nat /\ \A d \in descs : d.fd # Head(freed)
           /\ r.fd = n => n \in Nat /\ n + 1 \in Nat /\ \A d \in descs : d.fd # n
           /\ freed = <<>> /\ r.fd = n => PoolOk(n + 1, freed, more)
    <1>1. n \in Nat /\ Vec(freed) /\ freed \in Seq(Nat)
        BY DEF PoolOk, Vec
    <1>2. ASSUME freed # <<>>, r.fd = Head(freed)
          PROVE  PoolOk(n, Tail(freed), more) /\ Head(freed) \in Nat /\ \A d \in descs : d.fd # Head(freed)
        <2> DEFINE t == Tail(freed)
        <2>1. /\ t \in Seq(Nat) /\ Head(freed) = freed[1] /\ 1 \in DOMAIN freed /\ Head(freed) \in Nat
              /\ \A i \in DOMAIN t : i + 1 \in DOMAIN freed /\ t[i] = freed[i + 1] /\ i \in Nat /\ i >= 1
            BY <1>1, <1>2
        <2> HIDE DEF t
        <2>2. Vec(t)
            BY <1>1, <2>1 DEF Vec
        <2>3. \A i \in DOMAIN t : t[i] # Head(freed)
            BY <1>1, <2>1 DEF Vec
        <2>4. \A i \in DOMAIN t : t[i] < n /\ \A d \in descs : d.fd # t[i]
            BY <2>1 DEF PoolOk
        <2>5. Head(freed) < n /\ \A d \in descs : d.fd # Head(freed)
            BY <2>1 DEF PoolOk
        <2>6. \A d \in more : d.fd < n
            BY <1>2, <2>5 DEF PoolOk
        <2>7. \A i \in DOMAIN t : \A d \in more : d.fd # t[i]
            BY <1>2, <2>3, <2>4
        <2> QED
            BY <1>1, <2>1, <2>2, <2>4, <2>5, <2>6, <2>7 DEF PoolOk, t
    <1>3. ASSUME r.fd = n PROVE n + 1 \in Nat /\ \A d \in descs : d.fd # n
        BY <1>1 DEF PoolOk
    <1>4. ASSUME freed = <<>>, r.fd = n PROVE PoolOk(n + 1, freed, more)
        <2>1. DOMAIN freed = {}
            BY <1>4
        <2>2. ASSUME NEW d \in descs PROVE d.fd < n + 1
            <3>1. d.fd \in Nat /\ d.fd < n
                BY DEF DescsOk, DescRecs, PoolOk
            <3> QED
                BY <1>1, <3>1
        <2>3. \A d \in more : d.fd < n + 1
            BY <1>1, <1>4, <2>2
        <2> QED
            BY <1>1, <1>3, <1>4, <2>1, <2>3 DEF PoolOk
    <1> QED
        BY <1>1, <1>2, <1>3, <1>4

\* The pointers of a finite set.
LEMMA PtrsFinite ==
    ASSUME NEW S, IsFiniteSet(S)
    PROVE  IsFiniteSet(Files!Ptrs(S))
    <1> DEFINE T == {x.ptr : x \in S}
               f == [x \in S |-> x.ptr]
    <1>1. f \in Surjection(S, T)
        BY DEF Surjection
    <1> HIDE DEF f
    <1>2. IsFiniteSet(T)
        BY <1>1, FS_Surjection
    <1> QED
        BY <1>2 DEF Files!Ptrs

\* A pointer for a new descriptor.
LEMMA NewDescFree ==
    ASSUME NEW c, Weak(c)
    PROVE  Files!NewDesc(c) \in Nat /\ ~HasPtr(c.descs, Files!NewDesc(c))
    <1> DEFINE P == Files!Ptrs(c.descs)
               K == Files!Kept(c, LAMBDA f : f.extra_files)
               used == P \cup K \cup {c.desc}
    <1>1. IsFiniteSet(P)
        <2>1. IsFiniteSet(c.descs)
            BY DEF Weak, Parts, DescsOk
        <2> QED
            BY <2>1, PtrsFinite
    <1>2. K \subseteq P
        <2> SUFFICES ASSUME NEW x \in K PROVE x \in P
            OBVIOUS
        <2>1. PICK f \in Files!ToSet(c.files) : x \in Files!ToSet(f.extra_files)
            BY DEF Files!Kept
        <2>2. PICK k \in DOMAIN c.files : InVec(c.files[k].extra_files, x)
            BY <2>1 DEF Files!ToSet, InVec
        <2> QED
            BY <2>2 DEF Weak, PointsTo, Files!Ptrs
    <1>3. Files!NewDesc(c) = Files!Lowest(used)
        BY DEF Files!NewDesc
    <1>4. HasPtr(c.descs, Files!NewDesc(c)) => Files!NewDesc(c) \in P
        BY DEF HasPtr, Files!Ptrs
    <1> HIDE DEF P, K
    <1>5. P \cup K = P
        BY <1>2
    <1>6. IsFiniteSet(used)
        BY <1>1, <1>5, FS_AddElement
    <1> HIDE DEF used
    <1>7. Files!NewDesc(c) \in Nat /\ Files!NewDesc(c) \notin used
        BY <1>3, <1>6, LowestFree
    <1> QED
        BY <1>4, <1>7 DEF used

-----------------------------------------------------------------------------
(* What opening and loading do.                                            *)

\* A descriptor that can be added.
NewRec(c, r) ==
    /\ r \in DescRecs /\ ~HasPtr(c.descs, r.ptr) /\ ~LiveFd(c, r.fd)
    /\ r.kind = "file" => r.bf = None
    /\ r.bf # None => InList(c.binfiles, r.bf)

\* t is c with the descriptor r, which is current.
Opened(c, t, r) ==
    /\ NewRec(c, r) /\ t \in Cores /\ PoolOk(t.next_id, t.freed_ids, t.descs)
    /\ t.descs = c.descs \cup {r} /\ t.desc = r.ptr
    /\ t.maps = c.maps /\ t.binfiles = c.binfiles /\ t.cur = c.cur /\ t.files = c.files /\ t.file = c.file

\* rz_io_open_nomap: a descriptor more breaks nothing.
LEMMA OpenedGood ==
    ASSUME NEW c, Good(c), NEW t, NEW r, Opened(c, t, r)
    PROVE  Good(t)
    <1>1. c \in Cores /\ Weak(c) /\ Parts(c) /\ DescsOk(c.descs) /\ r \in DescRecs
        BY DEF Good, Weak, Parts, Opened, NewRec
    <1>2. DescsOk(t.descs)
        <2>1. t.descs \in SUBSET DescRecs /\ IsFiniteSet(t.descs)
            BY <1>1, FS_AddElement DEF DescsOk, Opened
        <2>2. \A d \in c.descs : d.ptr # r.ptr /\ d.fd # r.fd
            BY DEF Opened, NewRec, HasPtr, LiveFd
        <2>3. \A d, e \in t.descs : d.ptr = e.ptr \/ d.fd = e.fd => d = e
            BY <1>1, <2>2 DEF DescsOk, Opened
        <2>4. \A d \in t.descs : d.kind = "file" => d.bf = None
            BY <1>1 DEF DescsOk, Opened, NewRec
        <2> QED
            BY <2>1, <2>3, <2>4 DEF DescsOk
    <1>3. Parts(t)
        BY <1>1, <1>2 DEF Parts, Opened
    <1>4. Currents(t)
        BY <1>1 DEF Weak, Currents, Opened, HasPtr
    <1>5. PointsTo(t)
        <2>1. c.descs \subseteq t.descs
            BY DEF Opened
        <2> QED
            BY <1>1, <2>1 DEF Weak, PointsTo, Opened
    <1>6. Owners(t)
        BY <1>1 DEF Weak, Owners, Opened, NewRec
    <1>7. \A m \in t.maps : LiveFd(t, m.fd)
        BY DEF Good, LiveFd, Opened
    <1> QED
        BY <1>3, <1>4, <1>5, <1>6, <1>7 DEF Good, Weak

\* The record of the descriptor rz_io_open_nomap opens.
OpenRec(c, kind, bf) == [ptr |-> Files!NewDesc(c), fd |-> Files!NextId(c), kind |-> kind, bf |-> bf]

\* What may be opened.
MayOpen(c, kind, bf) ==
    /\ kind \in {"file", "fmap", "vmap", "mmap"} /\ bf \in OrNone
    /\ kind = "file" => bf = None
    /\ bf # None => InList(c.binfiles, bf)

\* rz_io_open_nomap.
LEMMA OpenNomapIs ==
    ASSUME NEW c, Good(c), NEW kind, NEW bf, MayOpen(c, kind, bf)
    PROVE  Opened(c, Files!OpenNomap(c, kind, bf), OpenRec(c, kind, bf))
    <1> DEFINE p == Files!NewDesc(c)
               n == Files!NextId(c)
               r == [ptr |-> p, fd |-> n, kind |-> kind, bf |-> bf]
               g == Files!GrabId(c)
               more == c.descs \cup {r}
               t == [g EXCEPT !.descs = more, !.desc = p]
    <1>1. c \in Cores /\ Weak(c) /\ Parts(c) /\ DescsOk(c.descs) /\ PoolOk(c.next_id, c.freed_ids, c.descs)
        BY DEF Good, Weak, Parts
    <1>2. p \in Nat /\ ~HasPtr(c.descs, p)
        BY <1>1, NewDescFree
    <1>3. r.ptr = p /\ r.fd = n /\ r.kind = kind /\ r.bf = bf
        OBVIOUS
    <1>4. n = IF c.freed_ids # <<>> THEN Head(c.freed_ids) ELSE c.next_id
        BY DEF Files!NextId
    <1>5. g = IF c.freed_ids # <<>> THEN [c EXCEPT !.freed_ids = Tail(c.freed_ids)] ELSE [c EXCEPT !.next_id = c.next_id + 1]
        BY <1>1 DEF Files!GrabId, Cores
    <1>6. c.freed_ids \in Seq(Nat) /\ c.next_id \in Nat
        BY <1>1 DEF Cores
    <1>7. r \in DescRecs => more \in SUBSET DescRecs
        BY <1>1 DEF DescsOk
    <1>8. t = [g EXCEPT !.descs = @ \cup {r}, !.desc = p] /\ g \in Cores /\ g.descs = c.descs
        <2>1. CASE c.freed_ids # <<>>
            <3> DEFINE tl == Tail(c.freed_ids)
            <3>1. tl \in Seq(Nat)
                BY <1>6, <2>1
            <3> HIDE DEF tl
            <3>2. g = [c EXCEPT !.freed_ids = tl]
                BY <1>5, <2>1 DEF tl
            <3>3. g \in Cores /\ g.descs = c.descs
                BY <1>1, <3>1, <3>2 DEF Cores
            <3> QED
                BY <3>3
        <2>2. CASE c.freed_ids = <<>>
            <3>1. g = [c EXCEPT !.next_id = c.next_id + 1]
                BY <1>5, <2>2
            <3>2. g \in Cores /\ g.descs = c.descs
                BY <1>1, <1>6, <3>1 DEF Cores
            <3> QED
                BY <3>2
        <2> QED
            BY <2>1, <2>2
    <1>9. Files!OpenNomap(c, kind, bf) = t
        BY <1>8 DEF Files!OpenNomap
    <1> HIDE DEF p, n, g, r
    <1>10. /\ n \in Nat /\ \A d \in c.descs : d.fd # n
           /\ PoolOk(g.next_id, g.freed_ids, more)
        <2>1. CASE c.freed_ids # <<>>
            <3>1. r.fd = Head(c.freed_ids) /\ n = Head(c.freed_ids)
                BY <1>3, <1>4, <2>1
            <3>2. g.next_id = c.next_id /\ g.freed_ids = Tail(c.freed_ids)
                BY <1>1, <1>5, <2>1 DEF Cores
            <3> DEFINE nx == c.next_id
                       fr == c.freed_ids
            <3>3. PoolOk(nx, fr, c.descs) /\ fr # <<>> /\ r.fd = Head(fr)
                BY <1>1, <2>1, <3>1
            <3> HIDE DEF nx, fr
            <3>4. Head(fr) \in Nat /\ \A d \in c.descs : d.fd # Head(fr)
                <4>1. fr \in Seq(Nat) /\ Head(fr) = fr[1] /\ 1 \in DOMAIN fr
                    BY <3>3 DEF PoolOk, Vec
                <4> QED
                    BY <3>3, <4>1 DEF PoolOk
            <3>5. PoolOk(nx, Tail(fr), more)
                BY <1>1, <3>3, GrabPool
            <3> QED
                BY <3>1, <3>2, <3>4, <3>5 DEF nx, fr
        <2>2. CASE c.freed_ids = <<>>
            <3>1. r.fd = c.next_id /\ n = c.next_id
                BY <1>3, <1>4, <2>2
            <3>2. g.next_id = c.next_id + 1 /\ g.freed_ids = c.freed_ids
                BY <1>1, <1>5, <1>6, <2>2 DEF Cores
            <3> DEFINE nx == c.next_id
                       fr == c.freed_ids
            <3>3. PoolOk(nx, fr, c.descs) /\ fr = <<>> /\ r.fd = nx
                BY <1>1, <2>2, <3>1
            <3> HIDE DEF nx, fr
            <3>4. nx \in Nat /\ \A d \in c.descs : d.fd # nx
                BY <1>1, <3>3, GrabPool
            <3>5. PoolOk(nx + 1, fr, more)
                BY <1>1, <3>3, GrabPool
            <3> QED
                BY <3>1, <3>2, <3>4, <3>5 DEF nx, fr
        <2> QED
            BY <2>1, <2>2
    <1>11. r \in DescRecs
        BY <1>2, <1>10 DEF r, DescRecs, MayOpen
    <1>12. NewRec(c, r)
        BY <1>2, <1>3, <1>10, <1>11 DEF NewRec, LiveFd, MayOpen
    <1>13. /\ g.maps = c.maps /\ g.binfiles = c.binfiles /\ g.cur = c.cur /\ g.files = c.files /\ g.file = c.file
        BY <1>1, <1>5 DEF Cores
    <1> HIDE DEF more
    <1>14. /\ t \in Cores /\ t.descs = more /\ t.desc = p /\ t.next_id = g.next_id /\ t.freed_ids = g.freed_ids
           /\ t.maps = g.maps /\ t.binfiles = g.binfiles /\ t.cur = g.cur /\ t.files = g.files /\ t.file = g.file
        BY <1>2, <1>7, <1>8, <1>11 DEF Cores, OrNone
    <1> HIDE DEF t
    <1>15. Opened(c, t, r)
        BY <1>3, <1>10, <1>12, <1>13, <1>14 DEF Opened, more
    <1> QED
        BY <1>9, <1>15 DEF OpenRec, r, p, n

\* A vector gets a pointer that it does not have.
LEMMA VecGains ==
    ASSUME NEW v, Vec(v), NEW p \in Nat, ~InVec(v, p)
    PROVE  /\ Vec(Append(v, p))
           /\ \A x : InVec(Append(v, p), x) <=> InVec(v, x) \/ x = p
    <1> DEFINE w == Append(v, p)
    <1>1. v \in Seq(Nat)
        BY DEF Vec
    <1>2. /\ w \in Seq(Nat) /\ Len(v) \in Nat /\ DOMAIN v = 1 .. Len(v) /\ DOMAIN w = 1 .. Len(v) + 1
          /\ w[Len(v) + 1] = p /\ \A i \in DOMAIN v : w[i] = v[i]
        BY <1>1
    <1> HIDE DEF w
    <1> DEFINE n == Len(v) + 1
    <1>3. DOMAIN w = DOMAIN v \cup {n} /\ n \notin DOMAIN v /\ w[n] = p
        BY <1>2
    <1> HIDE DEF n
    <1>4. Vec(w)
        BY <1>2, <1>3 DEF Vec, InVec
    <1>5. \A x : InVec(w, x) <=> InVec(v, x) \/ x = p
        BY <1>2, <1>3 DEF InVec
    <1> QED
        BY <1>4, <1>5 DEF w

\* The same core files, of which the one at k has got the maps in A, the descriptors in E and the binaries in B.
Gained(f, g, k, A, E, B) ==
    /\ FilesOk(g) /\ SameFiles(f, g)
    /\ \A j \in DOMAIN f : \A x :
         /\ InVec(g[j].maps, x) <=> InVec(f[j].maps, x) \/ (j = k /\ x \in A)
         /\ InVec(g[j].extra_files, x) <=> InVec(f[j].extra_files, x) \/ (j = k /\ x \in E)
         /\ InVec(g[j].binfiles, x) <=> InVec(f[j].binfiles, x) \/ (j = k /\ x \in B)

\* A core file is replaced by one with the same pointer and id.
LEMMA FileReplaced ==
    ASSUME NEW f, FilesOk(f), NEW k \in DOMAIN f, NEW r \in FileRecs, r.ptr = f[k].ptr, r.fd = f[k].fd,
           Vec(r.maps), Vec(r.extra_files), Vec(r.binfiles), NEW g, g = [f EXCEPT ![k] = r]
    PROVE  /\ FilesOk(g) /\ SameFiles(f, g) /\ DOMAIN g = DOMAIN f /\ g \in Seq(FileRecs)
           /\ g[k] = r /\ \A j \in DOMAIN f : j # k => g[j] = f[j]
    <1>1. f \in Seq(FileRecs) /\ DOMAIN f = 1 .. Len(f) /\ Len(f) \in Nat
        BY DEF FilesOk, Listed
    <1>2. g \in Seq(FileRecs) /\ DOMAIN g = DOMAIN f /\ g[k] = r /\ \A j \in DOMAIN f : j # k => g[j] = f[j]
        BY <1>1
    <1>3. \A j \in DOMAIN f : g[j].ptr = f[j].ptr /\ g[j].fd = f[j].fd
        BY <1>2
    <1>4. \A j \in DOMAIN g : Vec(g[j].maps) /\ Vec(g[j].extra_files) /\ Vec(g[j].binfiles)
        BY <1>2 DEF FilesOk
    <1>5. Listed(FileRecs, g)
        BY <1>2, <1>3 DEF Listed, FilesOk
    <1> QED
        BY <1>2, <1>3, <1>4, <1>5 DEF FilesOk, SameFiles

\* The core file at k gets a map.
LEMMA GainMap ==
    ASSUME NEW f, FilesOk(f), NEW k \in DOMAIN f, NEW p \in Nat, ~InVec(f[k].maps, p)
    PROVE  /\ Gained(f, [f EXCEPT ![k].maps = Append(@, p)], k, {p}, {}, {})
           /\ [f EXCEPT ![k].maps = Append(@, p)] \in Seq(FileRecs)
    <1> DEFINE v == Append(f[k].maps, p)
               r == [f[k] EXCEPT !.maps = v]
               g == [f EXCEPT ![k] = r]
    <1>1. f[k] \in FileRecs
        BY DEF FilesOk, Listed
    <1>2. Vec(v) /\ \A x : InVec(v, x) <=> InVec(f[k].maps, x) \/ x = p
        BY VecGains DEF FilesOk
    <1>3. g = [f EXCEPT ![k].maps = Append(@, p)]
        OBVIOUS
    <1> HIDE DEF v
    <1>4. /\ r \in FileRecs /\ r.ptr = f[k].ptr /\ r.fd = f[k].fd /\ r.maps = v
          /\ r.extra_files = f[k].extra_files /\ r.binfiles = f[k].binfiles
        BY <1>1, <1>2 DEF FileRecs, Vec
    <1>5. Vec(r.maps) /\ Vec(r.extra_files) /\ Vec(r.binfiles)
        BY <1>2, <1>4 DEF FilesOk
    <1> HIDE DEF r
    <1>6. g = [f EXCEPT ![k] = r]
        OBVIOUS
    <1> HIDE DEF g
    <1>7. FilesOk(g) /\ SameFiles(f, g) /\ g \in Seq(FileRecs) /\ g[k] = r /\ \A j \in DOMAIN f : j # k => g[j] = f[j]
        BY <1>4, <1>5, <1>6, FileReplaced
    <1>8. Gained(f, g, k, {p}, {}, {})
        BY <1>2, <1>4, <1>7 DEF Gained
    <1> QED
        BY <1>3, <1>7, <1>8

\* The core file at k gets a descriptor.
LEMMA GainDesc ==
    ASSUME NEW f, FilesOk(f), NEW k \in DOMAIN f, NEW p \in Nat, ~InVec(f[k].extra_files, p)
    PROVE  /\ Gained(f, [f EXCEPT ![k].extra_files = Append(@, p)], k, {}, {p}, {})
           /\ [f EXCEPT ![k].extra_files = Append(@, p)] \in Seq(FileRecs)
    <1> DEFINE v == Append(f[k].extra_files, p)
               r == [f[k] EXCEPT !.extra_files = v]
               g == [f EXCEPT ![k] = r]
    <1>1. f[k] \in FileRecs
        BY DEF FilesOk, Listed
    <1>2. Vec(v) /\ \A x : InVec(v, x) <=> InVec(f[k].extra_files, x) \/ x = p
        BY VecGains DEF FilesOk
    <1>3. g = [f EXCEPT ![k].extra_files = Append(@, p)]
        OBVIOUS
    <1> HIDE DEF v
    <1>4. /\ r \in FileRecs /\ r.ptr = f[k].ptr /\ r.fd = f[k].fd /\ r.extra_files = v
          /\ r.maps = f[k].maps /\ r.binfiles = f[k].binfiles
        BY <1>1, <1>2 DEF FileRecs, Vec
    <1>5. Vec(r.maps) /\ Vec(r.extra_files) /\ Vec(r.binfiles)
        BY <1>2, <1>4 DEF FilesOk
    <1> HIDE DEF r
    <1>6. g = [f EXCEPT ![k] = r]
        OBVIOUS
    <1> HIDE DEF g
    <1>7. FilesOk(g) /\ SameFiles(f, g) /\ g \in Seq(FileRecs) /\ g[k] = r /\ \A j \in DOMAIN f : j # k => g[j] = f[j]
        BY <1>4, <1>5, <1>6, FileReplaced
    <1>8. Gained(f, g, k, {}, {p}, {})
        BY <1>2, <1>4, <1>7 DEF Gained
    <1> QED
        BY <1>3, <1>7, <1>8

\* The core file at k gets a binary.
LEMMA GainBin ==
    ASSUME NEW f, FilesOk(f), NEW k \in DOMAIN f, NEW p \in Nat, ~InVec(f[k].binfiles, p)
    PROVE  /\ Gained(f, [f EXCEPT ![k].binfiles = Append(@, p)], k, {}, {}, {p})
           /\ [f EXCEPT ![k].binfiles = Append(@, p)] \in Seq(FileRecs)
    <1> DEFINE v == Append(f[k].binfiles, p)
               r == [f[k] EXCEPT !.binfiles = v]
               g == [f EXCEPT ![k] = r]
    <1>1. f[k] \in FileRecs
        BY DEF FilesOk, Listed
    <1>2. Vec(v) /\ \A x : InVec(v, x) <=> InVec(f[k].binfiles, x) \/ x = p
        BY VecGains DEF FilesOk
    <1>3. g = [f EXCEPT ![k].binfiles = Append(@, p)]
        OBVIOUS
    <1> HIDE DEF v
    <1>4. /\ r \in FileRecs /\ r.ptr = f[k].ptr /\ r.fd = f[k].fd /\ r.binfiles = v
          /\ r.maps = f[k].maps /\ r.extra_files = f[k].extra_files
        BY <1>1, <1>2 DEF FileRecs, Vec
    <1>5. Vec(r.maps) /\ Vec(r.extra_files) /\ Vec(r.binfiles)
        BY <1>2, <1>4 DEF FilesOk
    <1> HIDE DEF r
    <1>6. g = [f EXCEPT ![k] = r]
        OBVIOUS
    <1> HIDE DEF g
    <1>7. FilesOk(g) /\ SameFiles(f, g) /\ g \in Seq(FileRecs) /\ g[k] = r /\ \A j \in DOMAIN f : j # k => g[j] = f[j]
        BY <1>4, <1>5, <1>6, FileReplaced
    <1>8. Gained(f, g, k, {}, {}, {p})
        BY <1>2, <1>4, <1>7 DEF Gained
    <1> QED
        BY <1>3, <1>7, <1>8

\* No core file gets anything.
LEMMA GainNothing ==
    ASSUME NEW f, FilesOk(f), NEW A, NEW E, NEW B
    PROVE  Gained(f, f, 0, A, E, B)
    <1>1. 0 \notin DOMAIN f
        BY DEF FilesOk, Listed
    <1> QED
        BY <1>1 DEF Gained, SameFiles

\* A pointer for a new map.
LEMMA NewMapFree ==
    ASSUME NEW c, Weak(c)
    PROVE  Files!NewMap(c) \in Nat /\ ~HasPtr(c.maps, Files!NewMap(c))
    <1> DEFINE P == Files!Ptrs(c.maps)
               K == Files!Kept(c, LAMBDA f : f.maps)
    <1>1. IsFiniteSet(P)
        <2>1. IsFiniteSet(c.maps)
            BY DEF Weak, Parts, MapsOk
        <2> QED
            BY <2>1, PtrsFinite
    <1>2. K \subseteq P
        <2> SUFFICES ASSUME NEW x \in K PROVE x \in P
            OBVIOUS
        <2>1. PICK f \in Files!ToSet(c.files) : x \in Files!ToSet(f.maps)
            BY DEF Files!Kept
        <2>2. PICK k \in DOMAIN c.files : InVec(c.files[k].maps, x)
            BY <2>1 DEF Files!ToSet, InVec
        <2> QED
            BY <2>2 DEF Weak, PointsTo, Files!Ptrs, HasPtr
    <1>3. Files!NewMap(c) = Files!Lowest(P \cup K)
        BY DEF Files!NewMap
    <1>4. HasPtr(c.maps, Files!NewMap(c)) => Files!NewMap(c) \in P
        BY DEF HasPtr, Files!Ptrs
    <1> HIDE DEF P, K
    <1>5. P \cup K = P
        BY <1>2
    <1>6. Files!NewMap(c) \in Nat /\ Files!NewMap(c) \notin P
        BY <1>1, <1>3, <1>5, LowestFree
    <1> QED
        BY <1>4, <1>6

\* What loading never changes: the core files there are, the binaries, what is current; descriptors stay.
More(c, t) ==
    /\ SameFiles(c.files, t.files) /\ t.file = c.file /\ t.binfiles = c.binfiles /\ t.cur = c.cur
    /\ c.descs \subseteq t.descs

\* t is c with the map r, known to the core file at k.
Mapped(c, t, r, k) ==
    /\ t \in Cores /\ t.maps = c.maps \cup {r} /\ r \in CMapRecs /\ ~HasPtr(c.maps, r.ptr) /\ LiveFd(c, r.fd)
    /\ r.cf # None => k \in DOMAIN c.files /\ c.files[k].ptr = r.cf
    /\ Gained(c.files, t.files, k, {r.ptr}, {}, {})
    /\ t.descs = c.descs /\ t.desc = c.desc /\ t.next_id = c.next_id /\ t.freed_ids = c.freed_ids
    /\ t.binfiles = c.binfiles /\ t.cur = c.cur /\ t.file = c.file

\* rz_core_io_map_info_new: a map more, which its core file knows, breaks nothing.
LEMMA MappedGood ==
    ASSUME NEW c, Good(c), NEW t, NEW r, NEW k, Mapped(c, t, r, k)
    PROVE  Good(t) /\ More(c, t)
    <1>1. c \in Cores /\ Weak(c) /\ Parts(c)
        BY DEF Good, Weak, Parts
    <1>2. DOMAIN t.files = DOMAIN c.files /\ \A j \in DOMAIN c.files : t.files[j].ptr = c.files[j].ptr
        BY DEF Mapped, Gained, SameFiles
    <1>3. Parts(t)
        <2>1. MapsOk(t.maps)
            <3>1. IsFiniteSet(t.maps) /\ t.maps \in SUBSET CMapRecs
                BY <1>1, FS_AddElement DEF Parts, MapsOk, Mapped
            <3> QED
                BY <1>1, <3>1 DEF Parts, MapsOk, Mapped, HasPtr
        <2> QED
            BY <1>1, <2>1 DEF Parts, Mapped, Gained
    <1>4. Currents(t)
        BY <1>1, <1>2 DEF Weak, Currents, Mapped, InList
    <1>5. PointsTo(t)
        <2> SUFFICES ASSUME NEW j \in DOMAIN t.files, NEW p
                     PROVE  /\ InVec(t.files[j].maps, p) => HasPtr(t.maps, p)
                            /\ InVec(t.files[j].extra_files, p) => \E d \in t.descs : d.ptr = p /\ d.kind # "file"
                            /\ InVec(t.files[j].binfiles, p) => InList(t.binfiles, p)
            BY DEF PointsTo
        <2>1. InVec(t.files[j].maps, p) => HasPtr(c.maps, p) \/ p = r.ptr
            BY <1>1, <1>2 DEF Weak, PointsTo, Mapped, Gained
        <2>2. HasPtr(c.maps, p) \/ p = r.ptr => HasPtr(t.maps, p)
            BY DEF Mapped, HasPtr
        <2>3. InVec(t.files[j].extra_files, p) => InVec(c.files[j].extra_files, p)
            BY <1>2 DEF Mapped, Gained
        <2>4. InVec(t.files[j].binfiles, p) => InVec(c.files[j].binfiles, p)
            BY <1>2 DEF Mapped, Gained
        <2>5. InVec(t.files[j].extra_files, p) => \E d \in t.descs : d.ptr = p /\ d.kind # "file"
            BY <1>1, <1>2, <2>3 DEF Weak, PointsTo, Mapped
        <2>6. InVec(t.files[j].binfiles, p) => InList(t.binfiles, p)
            BY <1>1, <1>2, <2>4 DEF Weak, PointsTo, Mapped
        <2> QED
            BY <2>1, <2>2, <2>5, <2>6
    <1>6. Owners(t)
        <2>1. ASSUME NEW m \in t.maps, m.cf # None
              PROVE  \E j \in DOMAIN t.files : t.files[j].ptr = m.cf /\ InVec(t.files[j].maps, m.ptr)
            <3>1. CASE m \in c.maps
                <4>1. PICK j \in DOMAIN c.files : c.files[j].ptr = m.cf /\ InVec(c.files[j].maps, m.ptr)
                    BY <1>1, <2>1, <3>1 DEF Weak, Owners
                <4> QED
                    BY <1>2, <4>1 DEF Mapped, Gained
            <3>2. CASE m = r
                <4>1. k \in DOMAIN c.files /\ c.files[k].ptr = m.cf
                    BY <2>1, <3>2 DEF Mapped
                <4>2. InVec(t.files[k].maps, m.ptr)
                    BY <3>2, <4>1 DEF Mapped, Gained
                <4> QED
                    BY <1>2, <4>1, <4>2
            <3> QED
                BY <3>1, <3>2 DEF Mapped
        <2> QED
            BY <1>1, <2>1 DEF Weak, Owners, Mapped
    <1>7. \A m \in t.maps : LiveFd(t, m.fd)
        BY DEF Good, LiveFd, Mapped
    <1>8. More(c, t)
        BY DEF More, Mapped, Gained
    <1> QED
        BY <1>3, <1>4, <1>5, <1>6, <1>7, <1>8 DEF Good, Weak

\* A map on a descriptor that is there, of a core file that is there or of none.
LEMMA MapNewGood ==
    ASSUME NEW c, Good(c), NEW fd \in Nat, LiveFd(c, fd), NEW cf \in OrNone, cf # None => InList(c.files, cf)
    PROVE  Good(Files!MapNew(c, fd, cf)) /\ More(c, Files!MapNew(c, fd, cf))
    <1> DEFINE m == Files!NewMap(c)
               r == [ptr |-> m, fd |-> fd, cf |-> cf]
               maps == c.maps \cup {r}
               k == IF cf = None THEN 0 ELSE Files!At(c.files, cf)
               g == IF cf = None THEN c.files ELSE [c.files EXCEPT ![k].maps = Append(@, m)]
               t == [c EXCEPT !.maps = maps, !.files = g]
    <1>1. c \in Cores /\ Weak(c) /\ Parts(c) /\ FilesOk(c.files)
        BY DEF Good, Weak, Parts
    <1>2. m \in Nat /\ ~HasPtr(c.maps, m)
        BY <1>1, NewMapFree
    <1>3. r \in CMapRecs /\ r.ptr = m /\ r.fd = fd /\ r.cf = cf
        BY <1>2 DEF CMapRecs
    <1>4. maps \in SUBSET CMapRecs
        BY <1>1, <1>3 DEF Parts, MapsOk
    <1>5. Files!MapNew(c, fd, cf) = t
        <2>1. CASE cf = None
            <3>1. Files!MapNew(c, fd, cf) = [c EXCEPT !.maps = maps]
                BY <2>1 DEF Files!MapNew
            <3>2. t = [c EXCEPT !.maps = maps, !.files = c.files]
                BY <2>1
            <3> HIDE DEF maps
            <3>3. [c EXCEPT !.maps = maps] = [c EXCEPT !.maps = maps, !.files = c.files]
                BY <1>1 DEF Cores
            <3> QED
                BY <3>1, <3>2, <3>3
        <2>2. CASE cf # None
            <3>1. Files!MapNew(c, fd, cf) = [[c EXCEPT !.maps = maps] EXCEPT !.files[Files!At(c.files, cf)].maps = Append(@, m)]
                BY <2>2 DEF Files!MapNew
            <3>2. t = [c EXCEPT !.maps = maps, !.files = [c.files EXCEPT ![Files!At(c.files, cf)].maps = Append(@, m)]]
                BY <2>2
            <3> HIDE DEF maps, m
            <3> DEFINE a == Files!At(c.files, cf)
            <3> HIDE DEF a
            <3>3. [[c EXCEPT !.maps = maps] EXCEPT !.files[a].maps = Append(@, m)]
                    = [c EXCEPT !.maps = maps, !.files = [c.files EXCEPT ![a].maps = Append(@, m)]]
                BY <1>1 DEF Cores
            <3> QED
                BY <3>1, <3>2, <3>3 DEF a
        <2> QED
            BY <2>1, <2>2
    <1> HIDE DEF m, r, maps
    <1>6. Gained(c.files, g, k, {m}, {}, {}) /\ g \in Seq(FileRecs) /\ (cf # None => k \in DOMAIN c.files /\ c.files[k].ptr = cf)
        <2>1. CASE cf = None
            <3>1. k = 0 /\ g = c.files
                BY <2>1
            <3> HIDE DEF k, g
            <3>2. Gained(c.files, c.files, 0, {m}, {}, {})
                BY <1>1, GainNothing
            <3> QED
                BY <1>1, <2>1, <3>1, <3>2 DEF FilesOk, Listed
        <2>2. CASE cf # None
            <3>1. k = Files!At(c.files, cf) /\ g = [c.files EXCEPT ![k].maps = Append(@, m)]
                BY <2>2
            <3> HIDE DEF k, g
            <3>2. k \in DOMAIN c.files /\ c.files[k].ptr = cf
                BY <1>1, <2>2, <3>1, FileAt
            <3>3. ~InVec(c.files[k].maps, m)
                BY <1>1, <1>2, <3>2 DEF Weak, PointsTo
            <3>4. Gained(c.files, g, k, {m}, {}, {}) /\ g \in Seq(FileRecs)
                BY <1>1, <1>2, <3>1, <3>2, <3>3, GainMap
            <3> QED
                BY <3>2, <3>4
        <2> QED
            BY <2>1, <2>2
    <1> HIDE DEF k, g
    <1>7. /\ t \in Cores /\ t.maps = maps /\ t.files = g /\ t.descs = c.descs /\ t.desc = c.desc
          /\ t.next_id = c.next_id /\ t.freed_ids = c.freed_ids
          /\ t.binfiles = c.binfiles /\ t.cur = c.cur /\ t.file = c.file
        BY <1>1, <1>4, <1>6 DEF Cores
    <1> HIDE DEF t
    <1>8. Mapped(c, t, r, k)
        BY <1>2, <1>3, <1>6, <1>7 DEF Mapped, maps
    <1> QED
        BY <1>5, <1>8, MappedGood

\* find_reusable_file finds a descriptor of the kind, or none.
LEMMA ReusableIs ==
    ASSUME NEW c, Weak(c), NEW cf, cf # None => InList(c.files, cf), NEW kind, NEW bf
    PROVE  LET p == Files!Reusable(c, cf, kind, bf)
           IN  p = None \/ \E d \in c.descs : d.ptr = p
    <1> DEFINE k == Files!At(c.files, cf)
               own == c.files[k].extra_files
               Owns(q) == \E d \in c.descs : d.ptr = q /\ d.kind = kind /\ d.bf = bf
               I == {i \in 1 .. Len(own) : Owns(own[i])}
               i == IF I # {} THEN Files!Min(I) ELSE 0
               p == Files!Reusable(c, cf, kind, bf)
    <1>1. CASE cf = None
        BY <1>1 DEF Files!Reusable
    <1>2. CASE cf # None
        <2>1. p = IF i = 0 THEN None ELSE own[i]
            BY <1>2 DEF Files!Reusable, Files!SelectInSeq
        <2>2. CASE I = {}
            BY <2>1, <2>2
        <2>3. CASE I # {}
            <3>1. I \in SUBSET Nat
                OBVIOUS
            <3>2. i \in I
                <4> HIDE DEF I
                <4> QED
                    BY <2>3, <3>1, MinIs
            <3>3. Owns(own[i]) /\ i # 0
                <4> HIDE DEF i, own, Owns
                <4> QED
                    BY <3>2
            <3> QED
                BY <2>1, <3>3
        <2> QED
            BY <2>2, <2>3
    <1> QED
        BY <1>1, <1>2

\* A core file gets the descriptor r.
Attached(c, t, r, k) ==
    /\ t \in Cores /\ r \in c.descs /\ r.kind # "file" /\ Gained(c.files, t.files, k, {}, {r.ptr}, {})
    /\ t.descs = c.descs /\ t.desc = c.desc /\ t.next_id = c.next_id /\ t.freed_ids = c.freed_ids
    /\ t.maps = c.maps /\ t.binfiles = c.binfiles /\ t.cur = c.cur /\ t.file = c.file

\* io_create_mem_map: a virtual descriptor that its core file adds to extra_files breaks nothing.
LEMMA AttachedGood ==
    ASSUME NEW c, Good(c), NEW t, NEW r, NEW k, Attached(c, t, r, k)
    PROVE  Good(t) /\ More(c, t)
    <1>1. c \in Cores /\ Weak(c) /\ Parts(c)
        BY DEF Good, Weak, Parts
    <1>2. DOMAIN t.files = DOMAIN c.files /\ \A j \in DOMAIN c.files : t.files[j].ptr = c.files[j].ptr
        BY DEF Attached, Gained, SameFiles
    <1>3. Parts(t)
        BY <1>1 DEF Parts, Attached, Gained
    <1>4. Currents(t)
        BY <1>1, <1>2 DEF Weak, Currents, Attached, InList
    <1>5. PointsTo(t)
        <2> SUFFICES ASSUME NEW j \in DOMAIN t.files, NEW p
                     PROVE  /\ InVec(t.files[j].maps, p) => HasPtr(t.maps, p)
                            /\ InVec(t.files[j].extra_files, p) => \E d \in t.descs : d.ptr = p /\ d.kind # "file"
                            /\ InVec(t.files[j].binfiles, p) => InList(t.binfiles, p)
            BY DEF PointsTo
        <2>1. InVec(t.files[j].maps, p) => InVec(c.files[j].maps, p)
            BY <1>2 DEF Attached, Gained
        <2>2. InVec(t.files[j].binfiles, p) => InVec(c.files[j].binfiles, p)
            BY <1>2 DEF Attached, Gained
        <2>3. InVec(t.files[j].extra_files, p) => InVec(c.files[j].extra_files, p) \/ p = r.ptr
            BY <1>2 DEF Attached, Gained
        <2>4. InVec(t.files[j].extra_files, p) => \E d \in t.descs : d.ptr = p /\ d.kind # "file"
            BY <1>1, <1>2, <2>3 DEF Weak, PointsTo, Attached
        <2>5. InVec(t.files[j].maps, p) => HasPtr(t.maps, p)
            BY <1>1, <1>2, <2>1 DEF Weak, PointsTo, Attached
        <2>6. InVec(t.files[j].binfiles, p) => InList(t.binfiles, p)
            BY <1>1, <1>2, <2>2 DEF Weak, PointsTo, Attached
        <2> QED
            BY <2>4, <2>5, <2>6
    <1>6. Owners(t)
        <2>1. ASSUME NEW m \in t.maps, m.cf # None
              PROVE  \E j \in DOMAIN t.files : t.files[j].ptr = m.cf /\ InVec(t.files[j].maps, m.ptr)
            <3>1. PICK j \in DOMAIN c.files : c.files[j].ptr = m.cf /\ InVec(c.files[j].maps, m.ptr)
                BY <1>1, <2>1 DEF Weak, Owners, Attached
            <3> QED
                BY <1>2, <3>1 DEF Attached, Gained
        <2> QED
            BY <1>1, <2>1 DEF Weak, Owners, Attached
    <1>7. \A m \in t.maps : LiveFd(t, m.fd)
        BY DEF Good, LiveFd, Attached
    <1>8. More(c, t)
        BY DEF More, Attached, Gained
    <1> QED
        BY <1>3, <1>4, <1>5, <1>6, <1>7, <1>8 DEF Good, Weak

\* Loading on and on.
LEMMA MoreTwice ==
    ASSUME NEW c, NEW t, NEW u, More(c, t), More(t, u)
    PROVE  More(c, u)
    BY DEF More, SameFiles

\* The descriptor a map needs is there, and the core file knows it.
LEMMA ExtraFileGood ==
    ASSUME NEW c, Good(c), NEW cf, cf # None => InList(c.files, cf), NEW kind, kind # "file", NEW bf, MayOpen(c, kind, bf)
    PROVE  LET t == Files!ExtraFile(c, cf, kind, bf)
               old == Files!Reusable(c, cf, kind, bf)
               p == IF old = None THEN Files!NewDesc(c) ELSE old
           IN  Good(t) /\ More(c, t) /\ \E d \in t.descs : d.ptr = p
    <1> DEFINE t == Files!ExtraFile(c, cf, kind, bf)
               old == Files!Reusable(c, cf, kind, bf)
               u == Files!OpenNomap(c, kind, bf)
               r == OpenRec(c, kind, bf)
               n == Files!NewDesc(c)
    <1>1. c \in Cores /\ Weak(c) /\ Parts(c)
        BY DEF Good, Weak, Parts
    <1>2. CASE old # None
        <2>1. t = c
            BY <1>2 DEF Files!ExtraFile
        <2>2. \E d \in c.descs : d.ptr = old
            BY <1>1, <1>2, ReusableIs
        <2>3. More(c, c)
            BY DEF More, SameFiles
        <2> HIDE DEF old, t
        <2>4. Good(t) /\ More(c, t) /\ \E d \in t.descs : d.ptr = old
            BY <2>1, <2>2, <2>3
        <2> QED
            BY <1>2, <2>4 DEF t, old
    <1>3. CASE old = None
        <2>1. Opened(c, u, r) /\ r.ptr = n
            BY OpenNomapIs DEF OpenRec
        <2>2. r.kind = kind
            BY DEF OpenRec
        <2>3. t = IF cf = None THEN u ELSE [u EXCEPT !.files[Files!At(c.files, cf)].extra_files = Append(@, n)]
            BY <1>3 DEF Files!ExtraFile
        <2> HIDE DEF u, r, n, t
        <2>4. Good(u)
            BY <2>1, OpenedGood
        <2>5. More(c, u)
            BY <2>1 DEF Opened, More, SameFiles
        <2>6. u \in Cores /\ r \in u.descs /\ u.files = c.files /\ FilesOk(u.files) /\ n \in Nat
            BY <2>1, <2>4 DEF Opened, Good, Weak, Parts, NewRec, DescRecs
        <2>7. Good(t) /\ More(c, t) /\ r \in t.descs
            <3>1. CASE cf = None
                BY <2>3, <2>4, <2>5, <2>6, <3>1
            <3>2. CASE cf # None
                <4> DEFINE k == Files!At(c.files, cf)
                           g == [u.files EXCEPT ![k].extra_files = Append(@, n)]
                <4>1. k \in DOMAIN c.files
                    BY <1>1, <3>2, FileAt
                <4>2. ~InVec(c.files[k].extra_files, n)
                    BY <1>1, <2>1, <4>1 DEF Weak, PointsTo, Opened, NewRec, HasPtr
                <4> HIDE DEF k
                <4>3. Gained(u.files, g, k, {}, {n}, {}) /\ g \in Seq(FileRecs)
                    BY <2>6, <4>1, <4>2, GainDesc
                <4>4. t = [u EXCEPT !.files = g]
                    BY <2>3, <2>6, <3>2 DEF Cores, k
                <4> HIDE DEF g
                <4>5. Attached(u, t, r, k)
                    BY <2>1, <2>2, <2>6, <4>3, <4>4 DEF Cores, Attached
                <4>6. Good(t) /\ More(u, t)
                    BY <2>4, <4>5, AttachedGood
                <4> QED
                    BY <2>5, <2>6, <4>5, <4>6, MoreTwice DEF Attached
            <3> QED
                BY <3>1, <3>2
        <2>8. \E d \in t.descs : d.ptr = n
            BY <2>1, <2>7
        <2> QED
            BY <1>3, <2>7, <2>8 DEF t, n
    <1> QED
        BY <1>2, <1>3

\* add_map and io_create_mem_map.
LEMMA AddMapGood ==
    ASSUME NEW c, Good(c), NEW cf \in OrNone, cf # None => InList(c.files, cf),
           NEW b \in Nat, InList(c.binfiles, b), NEW kind \in Files!Kinds
    PROVE  Good(Files!AddMap(c, cf, b, kind)) /\ More(c, Files!AddMap(c, cf, b, kind))
    <1> DEFINE fd == c.binfiles[Files!At(c.binfiles, b)].fd
               bf == IF kind = "vmap" THEN b ELSE None
               t == Files!ExtraFile(c, cf, kind, bf)
               old == Files!Reusable(c, cf, kind, bf)
               p == IF old = None THEN Files!NewDesc(c) ELSE old
               u == Files!AddMap(c, cf, b, kind)
               tfd == Files!The(t.descs, p).fd
    <1>1. c \in Cores /\ Weak(c) /\ Parts(c)
        BY DEF Good, Weak, Parts
    <1>2. u = IF Files!DescGet(c, fd) = None THEN c
              ELSE IF kind = "fmap" THEN Files!MapNew(c, fd, cf) ELSE Files!MapNew(t, tfd, cf)
        BY DEF Files!AddMap
    <1>3. kind \in {"fmap", "vmap", "mmap"} /\ kind # "file"
        BY DEF Files!Kinds
    <1>4. MayOpen(c, kind, bf)
        BY <1>3 DEF MayOpen, OrNone
    <1>5. CASE Files!DescGet(c, fd) = None
        BY <1>2, <1>5 DEF More, SameFiles
    <1>6. CASE Files!DescGet(c, fd) # None /\ kind = "fmap"
        <2>1. LiveFd(c, fd)
            BY <1>1, <1>6, DescGetIs
        <2>2. fd \in Nat
            BY <1>1, <2>1 DEF LiveFd, Parts, DescsOk, DescRecs
        <2> HIDE DEF fd, u
        <2>3. u = Files!MapNew(c, fd, cf)
            BY <1>2, <1>6
        <2> QED
            BY <2>1, <2>2, <2>3, MapNewGood DEF u
    <1>7. CASE Files!DescGet(c, fd) # None /\ kind # "fmap"
        <2>1. Good(t) /\ More(c, t) /\ \E d \in t.descs : d.ptr = p
            <3> HIDE DEF bf
            <3> QED
                BY <1>3, <1>4, ExtraFileGood
        <2>2. PICK d \in t.descs : d.ptr = p
            BY <2>1
        <2>3. u = Files!MapNew(t, tfd, cf)
            BY <1>2, <1>7
        <2> HIDE DEF t, p, u
        <2>4. DescsOk(t.descs)
            BY <2>1 DEF Good, Weak, Parts
        <2>5. tfd = d.fd
            BY <2>2, <2>4, TheIs
        <2> HIDE DEF tfd
        <2>6. LiveFd(t, tfd) /\ tfd \in Nat
            BY <2>4, <2>5 DEF LiveFd, DescsOk, DescRecs
        <2>7. cf # None => InList(t.files, cf)
            BY <2>1 DEF More, SameFiles, InList
        <2>8. Good(u) /\ More(t, u)
            BY <2>1, <2>3, <2>6, <2>7, MapNewGood
        <2> QED
            BY <2>1, <2>8, MoreTwice DEF u
    <1> QED
        BY <1>5, <1>6, <1>7

\* rz_core_bin_apply_maps, for the core file cf.
LEMMA AllMapped ==
    ASSUME NEW c, Good(c), NEW cf \in OrNone, cf # None => InList(c.files, cf),
           NEW b \in Nat, InList(c.binfiles, b), NEW layout \in Seq(Files!Kinds)
    PROVE  LET t == Files!FoldLeft(LAMBDA w, kind : Files!AddMap(w, cf, b, kind), c, layout)
           IN  Good(t) /\ More(c, t)
    <1> DEFINE S == DOMAIN layout
               Is(f) == f = [s \in SUBSET S |-> IF s = {} THEN c
                                ELSE Files!AddMap(f[s \ {Files!Max(s)}], cf, b, layout[Files!Max(s)])]
               f == CHOOSE f : Is(f)
    <1>1. Files!FoldLeft(LAMBDA w, kind : Files!AddMap(w, cf, b, kind), c, layout) = f[S]
        BY DEF Files!FoldLeft, Files!MapThenFoldSet
    <1> DEFINE ch == [s \in SUBSET S |-> Files!Max(s)]
               V == {t \in Cores : Good(t) /\ More(c, t)}
               G == [x \in S \X V |-> Files!AddMap(x[2], cf, b, layout[x[1]])]
    <1>2. S = 1 .. Len(layout) /\ Len(layout) \in Nat /\ \A i \in S : layout[i] \in Files!Kinds
        OBVIOUS
    <1>3. IsFiniteSet(S)
        BY Places
    <1>4. \A s \in SUBSET S : s # {} => ch[s] \in s /\ ch[s] = Files!Max(s)
        <2> SUFFICES ASSUME NEW s \in SUBSET S, s # {} PROVE Files!Max(s) \in s
            OBVIOUS
        <2>1. s \in SUBSET (0 .. Len(layout))
            BY <1>2
        <2> QED
            BY <1>2, <2>1, MaxIs
    <1>5. \A y : Good(y) /\ More(c, y) <=> y \in V
        BY DEF Good, Weak, Parts
    <1>6. ASSUME NEW x \in S, NEW w \in V
          PROVE  Files!AddMap(w, cf, b, layout[x]) \in V /\ G[<<x, w>>] = Files!AddMap(w, cf, b, layout[x])
        <2> DEFINE u == Files!AddMap(w, cf, b, layout[x])
        <2>1. G[<<x, w>>] = u
            OBVIOUS
        <2>2. Good(w) /\ More(c, w)
            BY <1>5
        <2> HIDE DEF V, S
        <2>3. layout[x] \in Files!Kinds
            BY <1>2
        <2>4. (cf # None => InList(w.files, cf)) /\ InList(w.binfiles, b)
            BY <2>2 DEF More, SameFiles, InList
        <2>5. Good(u) /\ More(w, u)
            BY <2>2, <2>3, <2>4, AddMapGood
        <2> HIDE DEF u
        <2>6. u \in V
            BY <1>5, <2>2, <2>5, MoreTwice
        <2> QED
            BY <2>1, <2>6 DEF u
    <1>7. c \in V
        BY <1>5 DEF More, SameFiles
    <1> HIDE DEF ch, V, G
    <1>8. PICK h : IsFold(h, S, V, c, ch, G)
        <2>1. \A x \in S : \A w \in V : G[<<x, w>>] \in V
            BY <1>6
        <2> HIDE DEF S
        <2> QED
            BY <1>3, <1>4, <1>7, <2>1, FoldExists
    <1>9. Is(h)
        <2>1. h = [s \in SUBSET S |-> h[s]] /\ h \in [SUBSET S -> V]
            BY <1>8 DEF IsFold
        <2>2. ASSUME NEW s \in SUBSET S
              PROVE  h[s] = IF s = {} THEN c ELSE Files!AddMap(h[s \ {Files!Max(s)}], cf, b, layout[Files!Max(s)])
            <3>1. CASE s = {}
                BY <1>8, <3>1 DEF IsFold
            <3>2. CASE s # {}
                <4>1. ch[s] = Files!Max(s) /\ ch[s] \in S /\ h[s \ {ch[s]}] \in V
                    BY <1>4, <2>1, <3>2
                <4>2. h[s] = G[<<ch[s], h[s \ {ch[s]}]>>]
                    BY <1>8, <3>2 DEF IsFold
                <4> QED
                    BY <1>6, <3>2, <4>1, <4>2
            <3> QED
                BY <3>1, <3>2
        <2> QED
            BY <2>1, <2>2
    <1>10. Is(f)
        <2> HIDE DEF Is
        <2> QED
            BY <1>9
    <1> HIDE DEF f
    <1>11. f[S] \in V
        <2> DEFINE T == {s \in SUBSET S : f[s] \in V}
        <2>1. {} \in T
            BY <1>7, <1>10
        <2>2. ASSUME NEW s \in SUBSET S, s # {}, s \ {ch[s]} \in T PROVE s \in T
            <3>1. f[s] = Files!AddMap(f[s \ {ch[s]}], cf, b, layout[ch[s]]) /\ ch[s] \in S
                BY <1>4, <1>10, <2>2
            <3>2. f[s \ {ch[s]}] \in V
                BY <2>2
            <3> QED
                BY <1>6, <3>1, <3>2
        <2>3. Picks(ch, S)
            BY <1>4 DEF Picks
        <2>4. S \in T => f[S] \in V
            OBVIOUS
        <2> HIDE DEF T, S, Is
        <2>5. Climbs(T, S, ch)
            BY <2>2 DEF Climbs
        <2>6. \A s \in SUBSET S : s \in T
            BY <1>3, <2>1, <2>3, <2>5, SetInduction
        <2> QED
            BY <2>4, <2>6
    <1> HIDE DEF S
    <1> QED
        BY <1>1, <1>5, <1>11

\* A list gets a record with a new pointer.
LEMMA ListGains ==
    ASSUME NEW T, NEW list, Listed(T, list), NEW r \in T, ~InList(list, r.ptr)
    PROVE  /\ Listed(T, Append(list, r))
           /\ \A p : InList(Append(list, r), p) <=> InList(list, p) \/ p = r.ptr
           /\ DOMAIN Append(list, r) = DOMAIN list \cup {Len(list) + 1} /\ Len(list) + 1 \notin DOMAIN list
           /\ Append(list, r)[Len(list) + 1] = r /\ \A k \in DOMAIN list : Append(list, r)[k] = list[k]
    <1> DEFINE w == Append(list, r)
               n == Len(list) + 1
    <1>1. list \in Seq(T)
        BY DEF Listed
    <1>2. w \in Seq(T) /\ w[n] = r /\ \A i \in DOMAIN list : w[i] = list[i]
        BY <1>1
    <1>3. DOMAIN w = DOMAIN list \cup {n} /\ n \notin DOMAIN list
        BY <1>1
    <1> HIDE DEF w, n
    <1>4. Listed(T, w)
        BY <1>2, <1>3 DEF Listed, InList
    <1>5. \A p : InList(w, p) <=> InList(list, p) \/ p = r.ptr
        BY <1>2, <1>3 DEF InList
    <1> QED
        BY <1>2, <1>3, <1>4, <1>5 DEF w, n

\* The pointers of a list.
LEMMA ListFinite ==
    ASSUME NEW T, NEW list, Listed(T, list)
    PROVE  /\ IsFiniteSet(Files!Ptrs(Files!ToSet(list)))
           /\ \A p : InList(list, p) <=> p \in Files!Ptrs(Files!ToSet(list))
    <1> DEFINE S == Files!ToSet(list)
               n == Len(list)
    <1>1. list \in Seq(T) /\ n \in Nat /\ DOMAIN list = 1 .. n
        BY DEF Listed
    <1>2. list \in Surjection(1 .. n, S)
        BY <1>1 DEF Surjection, Files!ToSet
    <1>3. IsFiniteSet(1 .. n)
        BY <1>1, FS_Interval
    <1> HIDE DEF S, n
    <1>4. IsFiniteSet(S)
        BY <1>2, <1>3, FS_Surjection
    <1>5. IsFiniteSet(Files!Ptrs(S))
        BY <1>4, PtrsFinite
    <1>6. \A p : InList(list, p) <=> p \in Files!Ptrs(Files!ToSet(list))
        BY DEF InList, Files!Ptrs, Files!ToSet
    <1> QED
        BY <1>5, <1>6 DEF S

\* A pointer for a new binary.
LEMMA NewBinFree ==
    ASSUME NEW c, Weak(c)
    PROVE  Files!NewBin(c) \in Nat /\ ~InList(c.binfiles, Files!NewBin(c))
    <1> DEFINE P == Files!Ptrs(Files!ToSet(c.binfiles))
               K == Files!Kept(c, LAMBDA f : f.binfiles)
               F == {d.bf : d \in c.descs}
               used == P \cup K \cup {c.cur} \cup F
               n == Files!NewBin(c)
    <1>1. IsFiniteSet(P) /\ \A p : InList(c.binfiles, p) <=> p \in P
        BY ListFinite DEF Weak, Parts
    <1>2. K \subseteq P
        <2> SUFFICES ASSUME NEW x \in K PROVE x \in P
            OBVIOUS
        <2>1. PICK f \in Files!ToSet(c.files) : x \in Files!ToSet(f.binfiles)
            BY DEF Files!Kept
        <2>2. PICK k \in DOMAIN c.files : InVec(c.files[k].binfiles, x)
            BY <2>1 DEF Files!ToSet, InVec
        <2> HIDE DEF P
        <2> QED
            BY <1>1, <2>2 DEF Weak, PointsTo
    <1>3. F \subseteq P \cup {None}
        <2> HIDE DEF P
        <2> QED
            BY <1>1 DEF Weak, Owners
    <1>4. n = Files!Lowest(used)
        BY DEF Files!NewBin
    <1> HIDE DEF P, K, F, n
    <1>5. IsFiniteSet(used)
        <2> DEFINE Q == P \cup {None}
                   R == Q \cup {c.cur}
        <2>1. IsFiniteSet(Q)
            BY <1>1, FS_AddElement
        <2> HIDE DEF Q
        <2>2. IsFiniteSet(R)
            BY <2>1, FS_AddElement
        <2> HIDE DEF R
        <2>3. used \subseteq R
            BY <1>2, <1>3 DEF Q, R
        <2> QED
            BY <2>2, <2>3, FS_Subset
    <1> HIDE DEF used
    <1>6. n \in Nat /\ n \notin used
        BY <1>4, <1>5, LowestFree
    <1> QED
        BY <1>1, <1>6 DEF used, n

\* A pointer for a new core file.
LEMMA NewFileFree ==
    ASSUME NEW c, Weak(c)
    PROVE  Files!NewFile(c) \in Nat /\ ~InList(c.files, Files!NewFile(c))
    <1> DEFINE P == Files!Ptrs(Files!ToSet(c.files))
               F == {m.cf : m \in c.maps}
               used == P \cup {c.file} \cup F
               n == Files!NewFile(c)
    <1>1. IsFiniteSet(P) /\ \A p : InList(c.files, p) <=> p \in P
        BY ListFinite DEF Weak, Parts, FilesOk
    <1>2. F \subseteq P \cup {None}
        <2> HIDE DEF P
        <2> QED
            BY <1>1 DEF Weak, Owners, InList
    <1>3. n = Files!Lowest(used)
        BY DEF Files!NewFile
    <1> HIDE DEF P, F, n
    <1>4. IsFiniteSet(used)
        <2> DEFINE Q == P \cup {None}
                   R == Q \cup {c.file}
        <2>1. IsFiniteSet(Q)
            BY <1>1, FS_AddElement
        <2> HIDE DEF Q
        <2>2. IsFiniteSet(R)
            BY <2>1, FS_AddElement
        <2> HIDE DEF R
        <2>3. used \subseteq R
            BY <1>2 DEF Q, R
        <2> QED
            BY <2>2, <2>3, FS_Subset
    <1> HIDE DEF used
    <1>5. n \in Nat /\ n \notin used
        BY <1>3, <1>4, LowestFree
    <1> QED
        BY <1>1, <1>5 DEF used, n

\* rz_io_use_fd.
LEMMA UseFdGood ==
    ASSUME NEW c, Good(c), NEW fd
    PROVE  Good(Files!UseFd(c, fd)) /\ More(c, Files!UseFd(c, fd))
    <1> DEFINE p == Files!DescGet(c, fd)
               u == Files!UseFd(c, fd)
    <1>1. c \in Cores /\ Weak(c) /\ Parts(c)
        BY DEF Good, Weak, Parts
    <1>2. u = IF p = None THEN c ELSE [c EXCEPT !.desc = p]
        BY DEF Files!UseFd
    <1>3. CASE p = None
        BY <1>2, <1>3 DEF More, SameFiles
    <1>4. CASE p # None
        <2>1. PICK d \in c.descs : d.ptr = p
            BY <1>1, <1>4, DescGetIs
        <2>2. p \in OrNone
            BY <1>1, <2>1 DEF Parts, DescsOk, DescRecs, OrNone
        <2> HIDE DEF p, u
        <2>3. /\ u \in Cores /\ u.descs = c.descs /\ u.desc = p /\ u.next_id = c.next_id /\ u.freed_ids = c.freed_ids
              /\ u.maps = c.maps /\ u.binfiles = c.binfiles /\ u.cur = c.cur /\ u.files = c.files /\ u.file = c.file
            BY <1>1, <1>2, <1>4, <2>2 DEF Cores
        <2>4. Parts(u)
            BY <1>1, <2>3 DEF Parts
        <2>5. Currents(u)
            BY <1>1, <2>1, <2>3 DEF Weak, Currents, HasPtr
        <2>6. PointsTo(u) /\ Owners(u)
            BY <1>1, <2>3 DEF Weak, PointsTo, Owners
        <2>7. \A m \in u.maps : LiveFd(u, m.fd)
            BY <2>3 DEF Good, LiveFd
        <2>8. More(c, u)
            BY <2>3 DEF More, SameFiles
        <2> QED
            BY <2>4, <2>5, <2>6, <2>7, <2>8 DEF Good, Weak, u
    <1> QED
        BY <1>3, <1>4

\* t is c with the binary r, which is current and known to the core file at k.
BinOpened(c, t, r, k) ==
    /\ t \in Cores /\ t.binfiles = Append(c.binfiles, r) /\ r \in BinRecs /\ ~InList(c.binfiles, r.ptr)
    /\ t.cur = r.ptr /\ Gained(c.files, t.files, k, {}, {}, {r.ptr})
    /\ t.descs = c.descs /\ t.desc = c.desc /\ t.next_id = c.next_id /\ t.freed_ids = c.freed_ids
    /\ t.maps = c.maps /\ t.file = c.file

\* rz_bin_open_io: a binary more, which its core file knows, breaks nothing.
LEMMA BinOpenedGood ==
    ASSUME NEW c, Good(c), NEW t, NEW r, NEW k, BinOpened(c, t, r, k)
    PROVE  Good(t)
    <1>1. c \in Cores /\ Weak(c) /\ Parts(c)
        BY DEF Good, Weak, Parts
    <1>2. DOMAIN t.files = DOMAIN c.files /\ \A j \in DOMAIN c.files : t.files[j].ptr = c.files[j].ptr
        BY DEF BinOpened, Gained, SameFiles
    <1>3. Listed(BinRecs, t.binfiles) /\ \A p : InList(t.binfiles, p) <=> InList(c.binfiles, p) \/ p = r.ptr
        <2>1. Listed(BinRecs, c.binfiles) /\ r \in BinRecs /\ ~InList(c.binfiles, r.ptr) /\ t.binfiles = Append(c.binfiles, r)
            BY <1>1 DEF Parts, BinOpened
        <2> QED
            BY <2>1, ListGains
    <1>4. Parts(t)
        BY <1>1, <1>3 DEF Parts, BinOpened, Gained
    <1>5. Currents(t)
        <2>1. t.file # None => InList(t.files, t.file)
            BY <1>1, <1>2 DEF Weak, Currents, BinOpened, InList
        <2>2. t.desc # None => HasPtr(t.descs, t.desc)
            BY <1>1 DEF Weak, Currents, BinOpened
        <2>3. InList(t.binfiles, t.cur)
            BY <1>3 DEF BinOpened
        <2> QED
            BY <2>1, <2>2, <2>3 DEF Currents
    <1>6. PointsTo(t)
        <2> SUFFICES ASSUME NEW j \in DOMAIN t.files, NEW p
                     PROVE  /\ InVec(t.files[j].maps, p) => HasPtr(t.maps, p)
                            /\ InVec(t.files[j].extra_files, p) => \E d \in t.descs : d.ptr = p /\ d.kind # "file"
                            /\ InVec(t.files[j].binfiles, p) => InList(t.binfiles, p)
            BY DEF PointsTo
        <2>1. InVec(t.files[j].maps, p) => InVec(c.files[j].maps, p)
            BY <1>2 DEF BinOpened, Gained
        <2>2. InVec(t.files[j].binfiles, p) => InVec(c.files[j].binfiles, p) \/ p = r.ptr
            BY <1>2 DEF BinOpened, Gained
        <2>3. InVec(t.files[j].extra_files, p) => InVec(c.files[j].extra_files, p)
            BY <1>2 DEF BinOpened, Gained
        <2>4. InVec(t.files[j].extra_files, p) => \E d \in t.descs : d.ptr = p /\ d.kind # "file"
            BY <1>1, <1>2, <2>3 DEF Weak, PointsTo, BinOpened
        <2>5. InVec(t.files[j].maps, p) => HasPtr(t.maps, p)
            BY <1>1, <1>2, <2>1 DEF Weak, PointsTo, BinOpened
        <2>6. InVec(t.files[j].binfiles, p) => InList(t.binfiles, p)
            BY <1>1, <1>2, <1>3, <2>2 DEF Weak, PointsTo
        <2> QED
            BY <2>4, <2>5, <2>6
    <1>7. Owners(t)
        <2>1. ASSUME NEW m \in t.maps, m.cf # None
              PROVE  \E j \in DOMAIN t.files : t.files[j].ptr = m.cf /\ InVec(t.files[j].maps, m.ptr)
            <3>1. PICK j \in DOMAIN c.files : c.files[j].ptr = m.cf /\ InVec(c.files[j].maps, m.ptr)
                BY <1>1, <2>1 DEF Weak, Owners, BinOpened
            <3> QED
                BY <1>2, <3>1 DEF BinOpened, Gained
        <2>2. \A d \in t.descs : d.bf # None => InList(t.binfiles, d.bf)
            BY <1>1, <1>3 DEF Weak, Owners, BinOpened
        <2> QED
            BY <2>1, <2>2 DEF Owners
    <1>8. \A m \in t.maps : LiveFd(t, m.fd)
        BY DEF Good, LiveFd, BinOpened
    <1> QED
        BY <1>4, <1>5, <1>6, <1>7, <1>8 DEF Good, Weak

\* The current file has a descriptor.
CurrentOpen(c) == InList(c.files, c.file) /\ LiveFd(c, c.files[Files!At(c.files, c.file)].fd)

\* t is c with another current file and another current binary.
Chosen(c, t, file, sel) ==
    /\ t \in Cores /\ t.file = file /\ t.cur = sel /\ (file # None => InList(c.files, file)) /\ (sel # None => InList(c.binfiles, sel))
    /\ t.files = c.files /\ t.descs = c.descs /\ t.desc = c.desc /\ t.next_id = c.next_id /\ t.freed_ids = c.freed_ids
    /\ t.maps = c.maps /\ t.binfiles = c.binfiles

\* What is current may be any file and any binary that are there.
LEMMA ChosenGood ==
    ASSUME NEW c, Good(c), NEW t, NEW file, NEW sel, Chosen(c, t, file, sel)
    PROVE  Good(t)
    <1>1. c \in Cores /\ Weak(c) /\ Parts(c)
        BY DEF Good, Weak, Parts
    <1>2. Parts(t)
        BY <1>1 DEF Parts, Chosen
    <1>3. Currents(t)
        BY <1>1 DEF Weak, Currents, Chosen
    <1>4. PointsTo(t) /\ Owners(t)
        BY <1>1 DEF Weak, PointsTo, Owners, Chosen
    <1>5. \A m \in t.maps : LiveFd(t, m.fd)
        BY DEF Good, LiveFd, Chosen
    <1> QED
        BY <1>2, <1>3, <1>4, <1>5 DEF Good, Weak

\* A pointer to a core file is a pointer.
LEMMA FilePtr ==
    ASSUME NEW c, Parts(c), NEW cf, InList(c.files, cf)
    PROVE  cf \in Nat /\ cf # None
    <1> DEFINE k == Files!At(c.files, cf)
    <1>1. c.files[k] \in FileRecs /\ c.files[k].ptr = cf
        BY FileAt
    <1> HIDE DEF k
    <1> QED
        BY <1>1, NoneNoPtr DEF FileRecs

\* The current file keeps its descriptor.
LEMMA OpenMore ==
    ASSUME NEW c, Good(c), CurrentOpen(c), NEW t, Good(t), More(c, t)
    PROVE  CurrentOpen(t)
    <1> DEFINE k == Files!At(c.files, c.file)
               j == Files!At(t.files, t.file)
    <1>1. Parts(c) /\ Parts(t) /\ t.file = c.file /\ SameFiles(c.files, t.files)
        BY DEF Good, Weak, More
    <1>2. k \in DOMAIN c.files /\ c.files[k].ptr = c.file
        BY <1>1, FileAt DEF CurrentOpen
    <1>3. k \in DOMAIN t.files /\ t.files[k].ptr = t.file /\ t.files[k].fd = c.files[k].fd
        BY <1>1, <1>2 DEF SameFiles
    <1>4. InList(t.files, t.file)
        BY <1>3 DEF InList
    <1>5. k = j
        BY <1>1, <1>3, <1>4, FileAt
    <1>6. LiveFd(t, c.files[k].fd)
        BY DEF CurrentOpen, More, LiveFd
    <1> HIDE DEF k, j
    <1>7. LiveFd(t, t.files[j].fd)
        BY <1>3, <1>5, <1>6
    <1> QED
        BY <1>4, <1>7 DEF CurrentOpen, j

\* Maps, descriptors and another current binary may be added, and nothing else changes.
Grown(c, t) ==
    /\ SameFiles(c.files, t.files) /\ t.file = c.file /\ t.binfiles = c.binfiles /\ c.descs \subseteq t.descs

\* A binary is where rz_list_find would find it.
LEMMA BinAt ==
    ASSUME NEW c, Parts(c), NEW b, InList(c.binfiles, b)
    PROVE  LET k == Files!At(c.binfiles, b)
           IN  /\ k \in DOMAIN c.binfiles /\ c.binfiles[k] \in BinRecs /\ c.binfiles[k].ptr = b
               /\ c.binfiles[k].fd \in Nat /\ c.binfiles[k].obj.maps \in Seq(Files!Kinds) /\ b \in Nat
    <1> DEFINE k == Files!At(c.binfiles, b)
               r == c.binfiles[k]
    <1>1. c.binfiles \in Seq(BinRecs) /\ DOMAIN c.binfiles = 1 .. Len(c.binfiles)
        BY DEF Parts, Listed
    <1>2. b \in Files!Ptrs(Files!ToSet(c.binfiles))
        BY DEF InList, Files!Ptrs, Files!ToSet
    <1>3. k \in 1 .. Len(c.binfiles) /\ r.ptr = b
        BY <1>1, <1>2, AtFacts
    <1> HIDE DEF k
    <1>4. r \in BinRecs
        BY <1>1, <1>3
    <1> HIDE DEF r
    <1>5. r.ptr \in Nat /\ r.fd \in Nat /\ r.obj \in Files!BinObjects
        BY <1>4 DEF BinRecs
    <1>6. r.obj.maps \in Seq(Files!Kinds)
        BY <1>5 DEF Files!BinObjects
    <1> QED
        BY <1>1, <1>3, <1>4, <1>5, <1>6 DEF k, r

\* rz_core_bin_apply_maps.
LEMMA ApplyMapsGood ==
    ASSUME NEW c, Good(c), NEW b, InList(c.binfiles, b)
    PROVE  Good(Files!ApplyMaps(c, b)) /\ More(c, Files!ApplyMaps(c, b))
    <1> DEFINE k == Files!At(c.binfiles, b)
               layout == c.binfiles[k].obj.maps
               fd == c.binfiles[k].fd
               cf == Files!FindByFd(c.files, fd)
               a == Files!ApplyMaps(c, b)
    <1>1. Parts(c)
        BY DEF Good, Weak
    <1>2. layout \in Seq(Files!Kinds) /\ b \in Nat
        BY <1>1, BinAt
    <1>3. a = Files!FoldLeft(LAMBDA w, kind : Files!AddMap(w, cf, b, kind), c, layout)
        BY DEF Files!ApplyMaps
    <1> HIDE DEF layout, fd, k, a
    <1>4. cf \in OrNone /\ (cf # None => InList(c.files, cf))
        <2>1. c.files \in Seq(FileRecs) /\ \A j \in 1 .. Len(c.files) : c.files[j] \in FileRecs /\ j \in DOMAIN c.files
            BY <1>1 DEF Parts, FilesOk, Listed
        <2>2. cf = None \/ \E j \in 1 .. Len(c.files) : cf = c.files[j].ptr
            BY <2>1, FindFacts
        <2> HIDE DEF cf
        <2> QED
            BY <2>1, <2>2 DEF FileRecs, OrNone, InList
    <1> HIDE DEF cf
    <1>5. Good(a) /\ More(c, a)
        BY <1>2, <1>3, <1>4, AllMapped
    <1> QED
        BY <1>5 DEF a

\* rz_core_bin_apply_all_info.
LEMMA ApplyAllInfoGood ==
    ASSUME NEW c, Good(c), NEW b, InList(c.binfiles, b)
    PROVE  Good(Files!ApplyAllInfo(c, b)) /\ Grown(c, Files!ApplyAllInfo(c, b))
    <1> DEFINE a == Files!ApplyMaps(c, b)
               t == [a EXCEPT !.cur = b]
               u == Files!ApplyAllInfo(c, b)
    <1>1. u = c \/ u = t
        BY DEF Files!ApplyAllInfo
    <1>2. Good(a) /\ More(c, a)
        BY ApplyMapsGood
    <1> HIDE DEF a, u
    <1>3. a \in Cores /\ (a.file # None => InList(a.files, a.file)) /\ InList(a.binfiles, b)
        BY <1>2 DEF Good, Weak, Parts, Currents, More
    <1>4. b \in Nat
        BY BinAt DEF Good, Weak
    <1>5. Chosen(a, t, a.file, b)
        BY <1>3, <1>4 DEF Chosen, Cores, OrNone
    <1> HIDE DEF t
    <1>6. Good(t)
        BY <1>2, <1>5, ChosenGood
    <1>7. Grown(c, t)
        BY <1>2, <1>5 DEF Grown, More, Chosen
    <1>8. Grown(c, c)
        BY DEF Grown, SameFiles
    <1> QED
        BY <1>1, <1>6, <1>7, <1>8 DEF u

\* What rz_core_binfiles_delete and rz_core_bin_raise do with a binary.
LEMMA RaisedGood ==
    ASSUME NEW c, Good(c), NEW b, InList(c.binfiles, b)
    PROVE  Good(Files!Raised(c, b))
    <1> DEFINE fd == c.binfiles[Files!At(c.binfiles, b)].fd
               t == Files!UseFd(c, fd)
    <1>1. Files!Raised(c, b) = Files!ApplyAllInfo(t, b)
        BY DEF Files!Raised
    <1> HIDE DEF fd
    <1>2. Good(t) /\ More(c, t)
        BY UseFdGood
    <1> HIDE DEF t
    <1>3. InList(t.binfiles, b)
        BY <1>2 DEF More
    <1> QED
        BY <1>1, <1>2, <1>3, ApplyAllInfoGood

\* The map of the whole file, where it is needed.
LEMMA WholeGood ==
    ASSUME NEW t, Good(t), NEW fd \in Nat, LiveFd(t, fd), NEW u,
           u = t \/ u = Files!MapNew(t, fd, None)
    PROVE  Good(u) /\ u.file = t.file
    <1> DEFINE w == Files!MapNew(t, fd, None)
    <1>1. None \in OrNone
        BY DEF OrNone
    <1>2. Good(w) /\ More(t, w)
        BY <1>1, MapNewGood
    <1> HIDE DEF w
    <1> QED
        BY <1>2 DEF More, w

\* rz_core_bin_load of a binary that can be read.
LEMMA BinLoadGood ==
    ASSUME NEW c, Good(c), CurrentOpen(c), NEW obj \in Files!BinObjects
    PROVE  Good(Files!BinLoad(c, obj)) /\ Files!BinLoad(c, obj).file = c.file
    <1> DEFINE k == Files!At(c.files, c.file)
               fd == c.files[k].fd
               b == Files!NewBin(c)
               r == [ptr |-> b, fd |-> fd, obj |-> obj]
               list == Append(c.binfiles, r)
               g == [c.files EXCEPT ![k].binfiles = Append(@, b)]
               o == [c EXCEPT !.binfiles = list, !.cur = b, !.files = g]
               a == Files!ApplyAllInfo(o, b)
               t == Files!UseFd(a, fd)
               u == Files!BinLoad(c, obj)
    <1>1. c \in Cores /\ Weak(c) /\ Parts(c) /\ FilesOk(c.files) /\ Listed(BinRecs, c.binfiles)
        BY DEF Good, Weak, Parts
    <1>2. k \in DOMAIN c.files /\ c.files[k] \in FileRecs
        BY <1>1, FileAt DEF CurrentOpen
    <1>3. fd \in Nat /\ LiveFd(c, fd)
        BY <1>2 DEF FileRecs, CurrentOpen
    <1>4. b \in Nat /\ ~InList(c.binfiles, b)
        BY <1>1, NewBinFree
    <1>5. r \in BinRecs /\ r.ptr = b /\ r.fd = fd
        BY <1>3, <1>4 DEF BinRecs
    <1>6. o = [c EXCEPT !.binfiles = Append(@, r), !.cur = b, !.files[k].binfiles = Append(@, b)]
        BY <1>1 DEF Cores
    <1>7. u = t \/ u = Files!MapNew(t, fd, None)
        BY <1>6 DEF Files!BinLoad
    <1> HIDE DEF r, k, fd, b
    <1>8. /\ Listed(BinRecs, list) /\ InList(list, b) /\ (\A p : InList(list, p) <=> InList(c.binfiles, p) \/ p = b)
          /\ DOMAIN list = DOMAIN c.binfiles \cup {Len(c.binfiles) + 1} /\ list[Len(c.binfiles) + 1] = r
        BY <1>1, <1>4, <1>5, ListGains
    <1>9. Gained(c.files, g, k, {}, {}, {b}) /\ g \in Seq(FileRecs)
        <2>1. ~InVec(c.files[k].binfiles, b)
            BY <1>1, <1>2, <1>4 DEF Weak, PointsTo
        <2> QED
            BY <1>1, <1>2, <1>4, <2>1, GainBin
    <1>10. list \in Seq(BinRecs)
        BY <1>8 DEF Listed
    <1> HIDE DEF list, g
    <1>11. /\ o \in Cores /\ o.binfiles = list /\ o.cur = b /\ o.files = g
           /\ o.descs = c.descs /\ o.desc = c.desc /\ o.next_id = c.next_id /\ o.freed_ids = c.freed_ids
           /\ o.maps = c.maps /\ o.file = c.file
        BY <1>1, <1>4, <1>9, <1>10 DEF Cores, OrNone
    <1> HIDE DEF o
    <1>12. BinOpened(c, o, r, k)
        BY <1>4, <1>5, <1>9, <1>11 DEF BinOpened, list
    <1>13. Good(o)
        BY <1>12, BinOpenedGood
    <1>14. Good(a) /\ Grown(o, a)
        <2>1. InList(o.binfiles, b)
            BY <1>8, <1>11
        <2> QED
            BY <1>13, <2>1, ApplyAllInfoGood
    <1> HIDE DEF a
    <1>15. Good(t) /\ More(a, t)
        BY <1>14, UseFdGood
    <1> HIDE DEF t, u
    <1>16. t.file = c.file /\ LiveFd(t, fd)
        BY <1>3, <1>11, <1>14, <1>15 DEF More, Grown, LiveFd
    <1>17. Good(u) /\ u.file = c.file
        BY <1>3, <1>7, <1>15, <1>16, WholeGood
    <1> QED
        BY <1>17 DEF u

\* A binary gets another descriptor.
LEMMA BinMoved ==
    ASSUME NEW list, Listed(BinRecs, list), NEW k \in DOMAIN list, NEW fd \in Nat,
           NEW g, g = [list EXCEPT ![k].fd = fd]
    PROVE  Listed(BinRecs, g) /\ \A p : InList(g, p) <=> InList(list, p)
    <1> DEFINE r == [list[k] EXCEPT !.fd = fd]
    <1>1. list \in Seq(BinRecs) /\ list[k] \in BinRecs /\ DOMAIN list = 1 .. Len(list) /\ Len(list) \in Nat
        BY DEF Listed
    <1>2. r \in BinRecs /\ r.ptr = list[k].ptr
        BY <1>1 DEF BinRecs
    <1>3. g = [list EXCEPT ![k] = r]
        OBVIOUS
    <1> HIDE DEF r
    <1>4. g \in Seq(BinRecs) /\ DOMAIN g = DOMAIN list /\ g[k] = r /\ \A j \in DOMAIN list : j # k => g[j] = list[j]
        BY <1>1, <1>2, <1>3
    <1>5. \A j \in DOMAIN list : g[j].ptr = list[j].ptr
        BY <1>2, <1>4
    <1> QED
        BY <1>4, <1>5 DEF Listed, InList

\* rz_core_bin_load of a binary that cannot be read.
LEMMA BinLoadFailsGood ==
    ASSUME NEW c, Good(c), CurrentOpen(c)
    PROVE  Good(Files!BinLoadFails(c)) /\ Files!BinLoadFails(c).file = c.file
    <1> DEFINE fd == c.files[Files!At(c.files, c.file)].fd
               k == Files!At(c.binfiles, c.cur)
               list == [c.binfiles EXCEPT ![k].fd = fd]
               o == IF k = 0 THEN c ELSE [c EXCEPT !.binfiles[k].fd = fd]
               t == Files!UseFd(o, fd)
               u == Files!BinLoadFails(c)
    <1>1. c \in Cores /\ Weak(c) /\ Parts(c) /\ Listed(BinRecs, c.binfiles)
        BY DEF Good, Weak, Parts
    <1>2. fd \in Nat /\ LiveFd(c, fd)
        BY <1>1, FileAt DEF FileRecs, CurrentOpen
    <1>3. u = t \/ u = Files!MapNew(t, fd, None)
        BY DEF Files!BinLoadFails
    <1>4. k = 0 \/ k \in DOMAIN c.binfiles
        <2>1. c.binfiles \in Seq(BinRecs) /\ DOMAIN c.binfiles = 1 .. Len(c.binfiles)
            BY <1>1 DEF Listed
        <2> QED
            BY <2>1, AtFacts
    <1> HIDE DEF fd, k
    <1>5. Good(o) /\ o.descs = c.descs /\ o.file = c.file
        <2>1. CASE k = 0
            BY <2>1
        <2>2. CASE k # 0
            <3>1. Listed(BinRecs, list) /\ \A p : InList(list, p) <=> InList(c.binfiles, p)
                BY <1>1, <1>2, <1>4, <2>2, BinMoved
            <3>2. list \in Seq(BinRecs)
                BY <3>1 DEF Listed
            <3>3. o = [c EXCEPT !.binfiles = list]
                BY <1>1, <2>2 DEF Cores
            <3> HIDE DEF list, o
            <3>4. Rebinned(c, o, list, c.cur)
                BY <1>1, <3>2, <3>3 DEF Rebinned, Cores
            <3>5. Enough(c, list, c.cur)
                <4>1. c.cur \in OrNone /\ (c.cur # None => InList(list, c.cur))
                    BY <1>1, <3>1 DEF Weak, Currents, Cores
                <4>2. \A j \in DOMAIN c.files : \A p : InVec(c.files[j].binfiles, p) => InList(list, p)
                    BY <1>1, <3>1 DEF Weak, PointsTo
                <4>3. \A d \in c.descs : d.bf # None => InList(list, d.bf)
                    BY <1>1, <3>1 DEF Weak, Owners
                <4> QED
                    BY <3>1, <4>1, <4>2, <4>3 DEF Enough
            <3>6. Good(o)
                BY <3>4, <3>5, BinsLeft
            <3> QED
                BY <3>4, <3>6 DEF Rebinned
        <2> QED
            BY <2>1, <2>2
    <1> HIDE DEF o
    <1>6. Good(t) /\ More(o, t)
        BY <1>5, UseFdGood
    <1> HIDE DEF t, u
    <1>7. LiveFd(t, fd) /\ t.file = c.file
        BY <1>2, <1>5, <1>6 DEF More, LiveFd
    <1>8. Good(u) /\ u.file = c.file
        BY <1>2, <1>3, <1>6, <1>7, WholeGood
    <1> QED
        BY <1>8 DEF u

\* rz_core_bin_load.
LEMMA TryLoadGood ==
    ASSUME NEW c, Good(c), CurrentOpen(c), NEW obj \in Files!BinObjects \cup {None}
    PROVE  Good(Files!TryLoad(c, obj)) /\ Files!TryLoad(c, obj).file = c.file
    <1>1. CASE obj = None
        BY <1>1, BinLoadFailsGood DEF Files!TryLoad
    <1>2. CASE obj # None
        BY <1>2, BinLoadGood DEF Files!TryLoad
    <1> QED
        BY <1>1, <1>2

\* The first binary on a descriptor.
LEMMA FoundBin ==
    ASSUME NEW c, Parts(c), NEW fd
    PROVE  LET b == Files!FindByFd(c.binfiles, fd)
           IN  b # None => InList(c.binfiles, b) /\ b \in Nat
    <1> DEFINE b == Files!FindByFd(c.binfiles, fd)
    <1>1. c.binfiles \in Seq(BinRecs) /\ \A i \in 1 .. Len(c.binfiles) : c.binfiles[i] \in BinRecs /\ i \in DOMAIN c.binfiles
        BY DEF Parts, Listed
    <1>2. b = None \/ \E i \in 1 .. Len(c.binfiles) : b = c.binfiles[i].ptr
        BY <1>1, FindFacts
    <1> HIDE DEF b
    <1>3. b # None => InList(c.binfiles, b) /\ b \in Nat
        BY <1>1, <1>2 DEF BinRecs, InList
    <1> QED
        BY <1>3 DEF b

\* rz_core_file_set_by_file.
LEMMA SetByFileGood ==
    ASSUME NEW c, Good(c), NEW cf, InList(c.files, cf)
    PROVE  LET t == Files!SetByFile(c, cf)
           IN  /\ Good(t) /\ t.file = cf
               /\ LiveFd(c, c.files[Files!At(c.files, cf)].fd) => CurrentOpen(t)
    <1> DEFINE k == Files!At(c.files, cf)
               fd == c.files[k].fd
               b == Files!FindByFd(c.binfiles, fd)
               sel == IF b = None THEN c.cur ELSE b
               s == [c EXCEPT !.file = cf, !.cur = sel]
               t == Files!UseFd(s, fd)
               u == Files!SetByFile(c, cf)
    <1>1. c \in Cores /\ Weak(c) /\ Parts(c)
        BY DEF Good, Weak, Parts
    <1>2. cf \in Nat
        BY <1>1, FilePtr
    <1>3. u = t
        BY DEF Files!SetByFile
    <1>4. sel \in OrNone /\ (sel # None => InList(c.binfiles, sel))
        <2>1. b # None => InList(c.binfiles, b) /\ b \in Nat
            BY <1>1, FoundBin
        <2>2. c.cur \in OrNone /\ (c.cur # None => InList(c.binfiles, c.cur))
            BY <1>1 DEF Weak, Currents, Cores
        <2> HIDE DEF b
        <2> QED
            BY <2>1, <2>2 DEF OrNone
    <1> HIDE DEF sel, u
    <1>5. Chosen(c, s, cf, sel)
        BY <1>1, <1>2, <1>4 DEF Chosen, Cores, OrNone
    <1> HIDE DEF s
    <1>6. Good(s)
        BY <1>5, ChosenGood
    <1>7. s.files = c.files /\ s.file = cf /\ s.descs = c.descs
        BY <1>5 DEF Chosen
    <1> HIDE DEF k
    <1>8. LiveFd(c, fd) => CurrentOpen(s)
        BY <1>7 DEF CurrentOpen, LiveFd, k
    <1>9. Good(t) /\ More(s, t)
        <2> HIDE DEF fd
        <2> QED
            BY <1>6, UseFdGood
    <1> HIDE DEF t
    <1>10. LiveFd(c, fd) => CurrentOpen(t)
        BY <1>6, <1>8, <1>9, OpenMore
    <1>11. t.file = cf
        BY <1>7, <1>9 DEF More
    <1> QED
        BY <1>3, <1>9, <1>10, <1>11 DEF u, k

\* t is c with the core file r, which is current.
Filed(c, t, r) ==
    /\ t \in Cores /\ t.files = Append(c.files, r) /\ r \in FileRecs /\ ~InList(c.files, r.ptr) /\ t.file = r.ptr
    /\ EmptyFile(r)
    /\ t.descs = c.descs /\ t.desc = c.desc /\ t.next_id = c.next_id /\ t.freed_ids = c.freed_ids
    /\ t.maps = c.maps /\ t.binfiles = c.binfiles /\ t.cur = c.cur

\* rz_core_file_open: a core file more that points to nothing yet breaks nothing.
LEMMA FiledGood ==
    ASSUME NEW c, Good(c), NEW t, NEW r, Filed(c, t, r)
    PROVE  /\ Good(t) /\ InList(t.files, r.ptr) /\ \E k \in DOMAIN t.files : t.files[k] = r
           /\ \A j \in DOMAIN c.files : j \in DOMAIN t.files /\ t.files[j] = c.files[j]
    <1> DEFINE n == Len(c.files) + 1
    <1>1. c \in Cores /\ Weak(c) /\ Parts(c) /\ FilesOk(c.files) /\ Listed(FileRecs, c.files)
        BY DEF Good, Weak, Parts, FilesOk
    <1>2. /\ Listed(FileRecs, t.files) /\ (\A p : InList(t.files, p) <=> InList(c.files, p) \/ p = r.ptr)
          /\ DOMAIN t.files = DOMAIN c.files \cup {n} /\ t.files[n] = r /\ n \notin DOMAIN c.files
          /\ \A j \in DOMAIN c.files : t.files[j] = c.files[j]
        <2>1. r \in FileRecs /\ ~InList(c.files, r.ptr) /\ t.files = Append(c.files, r)
            BY DEF Filed
        <2> QED
            BY <1>1, <2>1, ListGains
    <1> HIDE DEF n
    <1>3. \A p : ~InVec(r.maps, p) /\ ~InVec(r.extra_files, p) /\ ~InVec(r.binfiles, p)
        BY DEF Filed, EmptyFile, InVec
    <1>4. Parts(t)
        <2>1. Vec(r.maps) /\ Vec(r.extra_files) /\ Vec(r.binfiles)
            BY DEF Filed, EmptyFile, Vec, FileRecs
        <2>2. FilesOk(t.files)
            BY <1>1, <1>2, <2>1 DEF FilesOk
        <2> QED
            BY <1>1, <2>2 DEF Parts, Filed
    <1>5. Currents(t)
        BY <1>1, <1>2 DEF Weak, Currents, Filed
    <1>6. PointsTo(t)
        BY <1>1, <1>2, <1>3 DEF Weak, PointsTo, Filed
    <1>7. Owners(t)
        BY <1>1, <1>2 DEF Weak, Owners, Filed
    <1>8. \A m \in t.maps : LiveFd(t, m.fd)
        BY DEF Good, LiveFd, Filed
    <1>9. Good(t)
        BY <1>4, <1>5, <1>6, <1>7, <1>8 DEF Good, Weak
    <1> QED
        BY <1>2, <1>9

\* A file just opened: a new current core file with a descriptor of its own.
JustOpened(c, t) ==
    /\ Good(t) /\ CurrentOpen(t) /\ ~InList(c.files, t.file)
    /\ \A j \in DOMAIN c.files : j \in DOMAIN t.files /\ t.files[j] = c.files[j]
    /\ c.descs \subseteq t.descs
    /\ \E k \in DOMAIN t.files : \E d \in t.descs :
         t.files[k].ptr = t.file /\ d.fd = t.files[k].fd /\ d.kind = "file" /\ ~LiveFd(c, d.fd)

\* rz_core_file_open of a path that is one file.
LEMMA FileOpenGood ==
    ASSUME NEW c, Good(c)
    PROVE  JustOpened(c, Files!FileOpen(c))
    <1> DEFINE r == OpenRec(c, "file", None)
               o == Files!OpenNomap(c, "file", None)
               p == Files!NewFile(o)
               empty == <<>>
               fd == Files!The(o.descs, o.desc).fd
               f == [ptr |-> p, fd |-> fd, binfiles |-> empty, extra_files |-> empty, maps |-> empty]
               list == Append(o.files, f)
               t == [o EXCEPT !.files = list, !.file = p]
    <1>1. Opened(c, o, r)
        <2>1. MayOpen(c, "file", None)
            BY DEF MayOpen, OrNone
        <2> QED
            BY <2>1, OpenNomapIs
    <1>2. r.kind = "file"
        BY DEF OpenRec
    <1>3. Files!FileOpen(c) = [o EXCEPT !.files = Append(@, f), !.file = p]
        BY DEF Files!FileOpen, Files!FileNew
    <1>4. empty \in Seq(Nat) /\ DOMAIN empty = {}
        OBVIOUS
    <1> HIDE DEF r, o, empty
    <1>5. Good(o)
        BY <1>1, OpenedGood
    <1>6. o \in Cores /\ Weak(o) /\ DescsOk(o.descs) /\ Listed(FileRecs, o.files) /\ r \in o.descs /\ o.desc = r.ptr
        BY <1>1, <1>5 DEF Good, Weak, Parts, Opened, FilesOk
    <1>7. fd = r.fd /\ fd \in Nat
        BY <1>6, TheIs DEF DescsOk, DescRecs
    <1>8. p \in Nat /\ ~InList(o.files, p)
        BY <1>6, NewFileFree
    <1>9. t = [o EXCEPT !.files = Append(@, f), !.file = p]
        BY <1>6 DEF Cores
    <1> HIDE DEF p, fd
    <1>10. /\ f \in FileRecs /\ f.ptr = p /\ f.fd = fd /\ EmptyFile(f)
        BY <1>4, <1>7, <1>8 DEF FileRecs, EmptyFile
    <1> HIDE DEF f
    <1>11. list \in Seq(FileRecs)
        BY <1>6, <1>10 DEF Listed
    <1> HIDE DEF list
    <1>12. Filed(o, t, f)
        BY <1>6, <1>8, <1>10, <1>11 DEF Filed, Cores, OrNone, list
    <1> HIDE DEF t
    <1>13. /\ Good(t) /\ InList(t.files, f.ptr) /\ (\E k \in DOMAIN t.files : t.files[k] = f)
           /\ \A j \in DOMAIN o.files : j \in DOMAIN t.files /\ t.files[j] = o.files[j]
        BY <1>5, <1>12, FiledGood
    <1>14. PICK k \in DOMAIN t.files : t.files[k] = f
        BY <1>13
    <1>15. t.file = p /\ t.descs = o.descs /\ r \in t.descs
        BY <1>6, <1>10, <1>12 DEF Filed
    <1>16. CurrentOpen(t)
        <2>1. k = Files!At(t.files, p)
            BY <1>10, <1>13, <1>14, FileAt DEF Good, Weak
        <2> QED
            BY <1>7, <1>10, <1>13, <1>14, <1>15, <2>1 DEF CurrentOpen, LiveFd
    <1>17. o.files = c.files /\ c.descs \subseteq o.descs /\ ~LiveFd(c, r.fd)
        BY <1>1 DEF Opened, NewRec
    <1>18. JustOpened(c, t)
        <2>1. \E d \in t.descs : t.files[k].ptr = t.file /\ d.fd = t.files[k].fd /\ d.kind = "file" /\ ~LiveFd(c, d.fd)
            BY <1>2, <1>7, <1>10, <1>14, <1>15, <1>17
        <2>2. ~InList(c.files, t.file)
            BY <1>8, <1>15, <1>17
        <2> QED
            BY <1>13, <1>14, <1>15, <1>16, <1>17, <2>1, <2>2 DEF JustOpened
    <1> QED
        BY <1>3, <1>9, <1>18

\* A file opened and its binary loaded, or not: the core has files.
LEMMA OpenLoadGood ==
    ASSUME NEW c, Good(c), NEW obj \in Files!BinObjects \cup {None}
    PROVE  LET t == Files!TryLoad(Files!FileOpen(c), obj) IN Good(t) /\ InList(t.files, t.file)
    <1> DEFINE a == Files!FileOpen(c)
               t == Files!TryLoad(a, obj)
    <1>1. JustOpened(c, a)
        BY FileOpenGood
    <1> HIDE DEF a
    <1>2. Good(a) /\ CurrentOpen(a)
        BY <1>1 DEF JustOpened
    <1>3. InList(a.files, a.file) /\ Parts(a)
        BY <1>2 DEF CurrentOpen, Good, Weak
    <1>4. a.file # None
        BY <1>3, FilePtr
    <1>5. Good(t) /\ t.file = a.file
        BY <1>2, TryLoadGood
    <1> HIDE DEF t
    <1>6. InList(t.files, t.file)
        BY <1>4, <1>5 DEF Good, Weak, Currents
    <1> QED
        BY <1>5, <1>6 DEF t, a

\* rz_core_file_open of a path that holds several files.
LEMMA FileOpenManyGood ==
    ASSUME NEW c, Good(c), NEW obj1 \in Files!BinObjects \cup {None}, NEW obj2 \in Files!BinObjects \cup {None}
    PROVE  Good(Files!FileOpenMany(c, obj1, obj2))
    <1> DEFINE b == Files!TryLoad(Files!FileOpen(c), obj1)
               t == Files!TryLoad(Files!FileOpen(b), obj2)
               u == [t EXCEPT !.file = t.files[1].ptr]
               fd == t.files[1].fd
    <1>1. Files!FileOpenMany(c, obj1, obj2) = t \/ Files!FileOpenMany(c, obj1, obj2) = Files!UseFd(u, fd)
        BY DEF Files!FileOpenMany
    <1>2. Good(b)
        BY OpenLoadGood
    <1> HIDE DEF b
    <1>3. Good(t) /\ InList(t.files, t.file)
        BY <1>2, OpenLoadGood
    <1> HIDE DEF t
    <1>4. t \in Cores /\ t.files \in Seq(FileRecs)
        BY <1>3 DEF Good, Weak, Parts, FilesOk, Listed
    <1>5. 1 \in DOMAIN t.files /\ t.files[1] \in FileRecs
        BY <1>3, <1>4 DEF InList
    <1>6. t.files[1].ptr \in Nat /\ InList(t.files, t.files[1].ptr)
        BY <1>5 DEF FileRecs, InList
    <1>7. t.cur # None => InList(t.binfiles, t.cur)
        BY <1>3 DEF Good, Weak, Currents
    <1> DEFINE p == t.files[1].ptr
    <1> HIDE DEF p
    <1>8. u = [t EXCEPT !.file = p] /\ p \in Nat /\ InList(t.files, p)
        BY <1>6 DEF p
    <1>9. Chosen(t, u, p, t.cur)
        BY <1>4, <1>7, <1>8 DEF Chosen, Cores, OrNone
    <1> HIDE DEF u
    <1>10. Good(u)
        BY <1>3, <1>9, ChosenGood
    <1>11. Good(Files!UseFd(u, fd))
        BY <1>10, UseFdGood
    <1> QED
        BY <1>1, <1>3, <1>11

\* rz_io_desc_exchange of two descriptors that are there.
LEMMA ExchangeGood ==
    ASSUME NEW c, Good(c), NEW d1 \in c.descs, NEW d2 \in c.descs, d1 # d2, NEW fd, fd = d1.fd, NEW fdx, fdx = d2.fd
    PROVE  LET t == Files!Exchange(c, fd, fdx)
           IN  Good(t) /\ \A d \in c.descs : \E e \in t.descs : e.ptr = d.ptr
    <1> DEFINE Sw(d) == CASE d.fd = fd -> fdx [] d.fd = fdx -> fd [] OTHER -> d.fd
               N(d) == [d EXCEPT !.fd = Sw(d)]
               S == {N(d) : d \in c.descs}
               t == [c EXCEPT !.descs = S]
    <1>1. c \in Cores /\ Weak(c) /\ Parts(c) /\ DescsOk(c.descs) /\ PoolOk(c.next_id, c.freed_ids, c.descs)
        BY DEF Good, Weak, Parts
    <1>2. Files!Exchange(c, fd, fdx) = t
        BY DEF Files!Exchange
    <1>3. fd # fdx /\ fd \in Nat /\ fdx \in Nat /\ \A d \in c.descs : d \in DescRecs /\ d.fd \in Nat
        BY <1>1 DEF DescsOk, DescRecs
    <1>4. \A d \in c.descs : Sw(d) = IF d.fd = fd THEN fdx ELSE IF d.fd = fdx THEN fd ELSE d.fd
        BY <1>3
    <1> HIDE DEF Sw
    <1>5. \A d \in c.descs : Sw(d) \in Nat /\ \E e \in c.descs : e.fd = Sw(d)
        BY <1>3, <1>4
    <1>6. \A d, e \in c.descs : Sw(d) = Sw(e) => d.fd = e.fd
        BY <1>3, <1>4
    <1>7. \A d \in c.descs : \E e \in c.descs : Sw(e) = d.fd
        BY <1>3, <1>4
    <1>8. \A d \in c.descs : N(d) \in DescRecs /\ N(d).ptr = d.ptr /\ N(d).kind = d.kind /\ N(d).bf = d.bf /\ N(d).fd = Sw(d)
        BY <1>3, <1>5 DEF DescRecs
    <1>9. IsFiniteSet(S)
        <2> DEFINE f == [d \in c.descs |-> N(d)]
        <2>1. f \in Surjection(c.descs, S)
            BY DEF Surjection
        <2>2. IsFiniteSet(c.descs)
            BY <1>1 DEF DescsOk
        <2> HIDE DEF f, S
        <2> QED
            BY <2>1, <2>2, FS_Surjection
    <1> HIDE DEF N
    <1>10. \A e \in S : \E d \in c.descs : e = N(d)
        OBVIOUS
    <1>11. \A d \in c.descs : N(d) \in S
        OBVIOUS
    <1> HIDE DEF S
    <1>12. DescsOk(S)
        <2>1. S \in SUBSET DescRecs
            BY <1>8, <1>10
        <2>2. ASSUME NEW x \in S, NEW y \in S, x.ptr = y.ptr \/ x.fd = y.fd PROVE x = y
            <3>1. PICK d \in c.descs : x = N(d)
                BY <1>10
            <3>2. PICK e \in c.descs : y = N(e)
                BY <1>10
            <3>3. d.ptr = e.ptr \/ Sw(d) = Sw(e)
                BY <1>8, <2>2, <3>1, <3>2
            <3>4. d = e
                BY <1>1, <1>6, <3>3 DEF DescsOk
            <3> QED
                BY <3>1, <3>2, <3>4
        <2>3. \A x \in S : x.kind = "file" => x.bf = None
            BY <1>1, <1>8, <1>10 DEF DescsOk
        <2> QED
            BY <1>9, <2>1, <2>2, <2>3 DEF DescsOk
    <1>13. \A x \in S : \E d \in c.descs : x.fd = d.fd
        BY <1>5, <1>8, <1>10
    <1>14. PoolOk(c.next_id, c.freed_ids, S)
        BY <1>1, <1>13 DEF PoolOk
    <1>15. /\ t \in Cores /\ t.descs = S /\ t.desc = c.desc /\ t.next_id = c.next_id /\ t.freed_ids = c.freed_ids
           /\ t.maps = c.maps /\ t.binfiles = c.binfiles /\ t.cur = c.cur /\ t.files = c.files /\ t.file = c.file
        BY <1>1, <1>12 DEF Cores, DescsOk
    <1> HIDE DEF t
    <1>16. Parts(t)
        BY <1>1, <1>12, <1>14, <1>15 DEF Parts
    <1>17. Currents(t)
        BY <1>1, <1>8, <1>11, <1>15 DEF Weak, Currents, HasPtr
    <1>18. PointsTo(t)
        BY <1>1, <1>8, <1>11, <1>15 DEF Weak, PointsTo
    <1>19. Owners(t)
        BY <1>1, <1>8, <1>10, <1>15 DEF Weak, Owners
    <1>20. \A m \in t.maps : LiveFd(t, m.fd)
        <2> SUFFICES ASSUME NEW m \in c.maps PROVE \E x \in S : x.fd = m.fd
            BY <1>15 DEF LiveFd
        <2>1. PICK d \in c.descs : d.fd = m.fd
            BY DEF Good, LiveFd
        <2>2. PICK e \in c.descs : Sw(e) = d.fd
            BY <1>7
        <2> QED
            BY <1>8, <1>11, <2>1, <2>2
    <1>21. Good(t)
        BY <1>16, <1>17, <1>18, <1>19, <1>20 DEF Good, Weak
    <1>22. \A d \in c.descs : \E e \in t.descs : e.ptr = d.ptr
        BY <1>8, <1>11, <1>15
    <1> QED
        BY <1>2, <1>21, <1>22

-----------------------------------------------------------------------------
(* The steps of the core.                                                  *)

\* The new core file of rz_core_file_reopen has its descriptor.
HasOwn(c, new) ==
    \E k \in DOMAIN c.files : \E d \in c.descs : c.files[k].ptr = new /\ d.fd = c.files[k].fd /\ d.kind = "file"

\* A close under way: which file, and what is to be done after it.
Reopens == {"load", "keep", "forget"}
Sweeps == {"sweep", "resweep"}
Closings == [file : OrNone, then : {"nothing", "all"} \cup Reopens \cup Sweeps, new : OrNone,
             obj : Files!BinObjects \cup {None}, at : Nat]

\* The core file that is being closed is there, and so is the one that takes its place; only
\* rz_core_file_close_all_but closes descriptors in between.
ClosingOk(c, cl) ==
    cl # None =>
      /\ cl \in Closings
      /\ cl.file # None => InList(c.files, cl.file)
      /\ cl.file = None => cl.then \in Sweeps
      /\ cl.then \in Reopens => cl.new # cl.file /\ HasOwn(c, cl.new)

\* Descriptors of files stay.
OwnStay(c, t) == \A d \in c.descs : d.kind = "file" => d \in t.descs

\* What a close under way needs is there as long as core files stay and files on disk stay open.
LEMMA ClosingKept ==
    ASSUME NEW c, NEW t, NEW cl, ClosingOk(c, cl), Stay(c, t), OwnStay(c, t)
    PROVE  ClosingOk(t, cl)
    <1> SUFFICES ASSUME cl # None
                 PROVE  /\ cl \in Closings
                        /\ cl.file # None => InList(t.files, cl.file)
                        /\ cl.file = None => cl.then \in Sweeps
                        /\ cl.then \in Reopens => cl.new # cl.file /\ HasOwn(t, cl.new)
        BY DEF ClosingOk
    <1>1. cl.file # None => InList(t.files, cl.file)
        BY DEF ClosingOk, Stay, SameFiles, InList
    <1>2. HasOwn(c, cl.new) => HasOwn(t, cl.new)
        BY DEF HasOwn, Stay, SameFiles, OwnStay
    <1> QED
        BY <1>1, <1>2 DEF ClosingOk

\* The last element of a vector.
LEMMA LastIn ==
    ASSUME NEW v, Vec(v), v # <<>>
    PROVE  Files!Last(v) \in Nat /\ InVec(v, Files!Last(v))
    BY DEF Files!Last, Vec, InVec

\* A turn of the first loop of rz_core_file_close.
LEMMA MapTurn ==
    ASSUME NEW c, Good(c), NEW cl, ClosingOk(c, cl), NEW m
    PROVE  Good(Files!MapDel(c, m)) /\ ClosingOk(Files!MapDel(c, m), cl)
    <1> DEFINE t == Files!MapDel(c, m)
    <1>1. Good(t) /\ Stay(c, t) /\ t.descs = c.descs
        BY MapDelGood
    <1> HIDE DEF t
    <1>2. OwnStay(c, t)
        BY <1>1 DEF OwnStay
    <1>3. Good(t) /\ ClosingOk(t, cl)
        BY <1>1, <1>2, ClosingKept
    <1> QED
        BY <1>3 DEF t

\* A turn of the second loop.
LEMMA ExtraTurn ==
    ASSUME NEW c, Good(c), NEW cl, ClosingOk(c, cl), NEW k \in DOMAIN c.files, NEW p, InVec(c.files[k].extra_files, p)
    PROVE  Good(Files!DescClose(c, p, TRUE)) /\ ClosingOk(Files!DescClose(c, p, TRUE), cl)
    <1> DEFINE t == Files!DescClose(c, p, TRUE)
    <1>1. PICK d \in c.descs : d.ptr = p /\ d.kind # "file"
        BY DEF Good, Weak, PointsTo
    <1>2. Good(t) /\ Stay(c, t) /\ \A e \in c.descs : e # d => e \in t.descs
        BY <1>1, DescCloseGood
    <1> HIDE DEF t
    <1>3. OwnStay(c, t)
        BY <1>1, <1>2 DEF OwnStay
    <1>4. Good(t) /\ ClosingOk(t, cl)
        BY <1>2, <1>3, ClosingKept
    <1> QED
        BY <1>4 DEF t

\* rz_bin_file_delete leaves the descriptors of files.
LEMMA BinDeleteStay ==
    ASSUME NEW c, Good(c), NEW b \in Nat
    PROVE  Good(Files!BinDelete(c, b)) /\ Stay(c, Files!BinDelete(c, b)) /\ OwnStay(c, Files!BinDelete(c, b))
    <1> DEFINE t == Files!BinDelete(c, b)
    <1>1. Good(t) /\ SameFiles(c.files, t.files) /\ t.file = c.file /\ t.descs = {d \in c.descs : d.bf # b}
        BY BinDeleteGood
    <1> HIDE DEF t
    <1>2. DescsOk(c.descs)
        BY DEF Good, Weak, Parts
    <1>3. OwnStay(c, t)
        BY <1>1, <1>2, NoneNoPtr DEF OwnStay, DescsOk
    <1> QED
        BY <1>1, <1>3 DEF Stay, t

\* A turn of the third loop.
LEMMA BinTurn ==
    ASSUME NEW c, Good(c), NEW cl, ClosingOk(c, cl), NEW b \in Nat
    PROVE  Good(Files!BinDelete(c, b)) /\ ClosingOk(Files!BinDelete(c, b), cl)
    BY BinDeleteStay, ClosingKept

\* What holds between the steps of the core: nothing points to what is gone, and what a close
\* under way still needs is there.
CoreInv == usage \in Usages /\ Good(core) /\ ClosingOk(core, closing)
\* What is to be shown of the state after a step.
After == Good(core') /\ ClosingOk(core', closing')

\* What may be loaded is a binary or nothing, and a plugin closes or does not.
LEMMA UsageOk ==
    ASSUME CoreInv
    PROVE  Files!Loads \subseteq Files!BinObjects \cup {None} /\ Files!Closes \subseteq BOOLEAN
    <1>1. usage.objects \subseteq Files!BinObjects
        BY FilesAssumption DEF CoreInv, Files!CoreFilesAssumption
    <1>2. Files!Loads \subseteq Files!BinObjects \cup {None}
        BY <1>1 DEF Files!Loads, Files!Objects
    <1>3. Files!Closes \subseteq BOOLEAN
        BY DEF Files!Closes
    <1> QED
        BY <1>2, <1>3

\* A command that is no close.
LEMMA Settled ==
    ASSUME closing = None, UNCHANGED closing, Good(core')
    PROVE  After
    BY DEF After, ClosingOk

\* A command that may create something.
LEMMA Created ==
    ASSUME NEW c, Good(c), Files!Creates(c)
    PROVE  After
    BY Settled DEF Files!Creates

\* Another current file or binary.
LEMMA ChooseGood ==
    ASSUME NEW c, Good(c), NEW file \in OrNone, NEW sel \in OrNone,
           file # None => InList(c.files, file), sel # None => InList(c.binfiles, sel)
    PROVE  Good([c EXCEPT !.file = file, !.cur = sel])
    <1> DEFINE t == [c EXCEPT !.file = file, !.cur = sel]
    <1>1. c \in Cores
        BY DEF Good, Weak, Parts
    <1>2. Chosen(c, t, file, sel)
        BY <1>1 DEF Chosen, Cores
    <1> HIDE DEF t
    <1>3. Good(t)
        BY <1>2, ChosenGood
    <1> QED
        BY <1>3 DEF t

\* Another current binary.
LEMMA PickBinGood ==
    ASSUME NEW c, Good(c), NEW sel \in OrNone, sel # None => InList(c.binfiles, sel)
    PROVE  Good([c EXCEPT !.cur = sel])
    <1>1. c \in Cores /\ c.file \in OrNone /\ (c.file # None => InList(c.files, c.file))
        BY DEF Good, Weak, Parts, Currents, Cores
    <1>2. [c EXCEPT !.cur = sel] = [c EXCEPT !.file = c.file, !.cur = sel]
        BY <1>1 DEF Cores
    <1>3. Good([c EXCEPT !.file = c.file, !.cur = sel])
        BY <1>1, ChooseGood
    <1> QED
        BY <1>2, <1>3

\* What the core may load.
LEMMA LoadableOpen ==
    ASSUME CoreInv, Files!Loadable
    PROVE  CurrentOpen(core)
    <1>1. Parts(core) /\ Currents(core)
        BY DEF CoreInv, Good, Weak
    <1>2. InList(core.files, core.file)
        BY <1>1 DEF Files!Loadable, Currents
    <1>3. LiveFd(core, core.files[Files!At(core.files, core.file)].fd)
        BY <1>1, DescGetIs DEF Files!Loadable
    <1> QED
        BY <1>2, <1>3 DEF CurrentOpen

\* rz_core_file_open.
LEMMA OpenKeeps ==
    ASSUME CoreInv, Files!Open PROVE After
    <1>1. Good(Files!FileOpen(core))
        BY FileOpenGood DEF CoreInv, JustOpened
    <1> QED
        BY <1>1, Created DEF Files!Open

\* rz_core_file_open that stops at a break.
LEMMA OpenInterruptedKeeps ==
    ASSUME CoreInv, Files!OpenInterrupted PROVE After
    <1>1. MayOpen(core, "file", None)
        BY DEF MayOpen, OrNone
    <1>2. Opened(core, Files!OpenNomap(core, "file", None), OpenRec(core, "file", None))
        BY <1>1, OpenNomapIs DEF CoreInv
    <1>3. Good(Files!OpenNomap(core, "file", None))
        BY <1>2, OpenedGood DEF CoreInv
    <1> QED
        BY <1>3, Created DEF Files!OpenInterrupted

\* rz_core_file_open of a path that holds several files.
LEMMA OpenManyKeeps ==
    ASSUME CoreInv, NEW obj1 \in Files!Loads, NEW obj2 \in Files!Loads, Files!OpenMany(obj1, obj2) PROVE After
    <1>1. obj1 \in Files!BinObjects \cup {None} /\ obj2 \in Files!BinObjects \cup {None}
        BY UsageOk
    <1>2. Good(Files!FileOpenMany(core, obj1, obj2))
        BY <1>1, FileOpenManyGood DEF CoreInv
    <1> QED
        BY <1>2, Created DEF Files!OpenMany

\* open_nobin_file.
LEMMA OpenNobinKeeps ==
    ASSUME CoreInv, Files!OpenNobin PROVE After
    <1> DEFINE c == Files!OpenNomap(core, "file", None)
               r == OpenRec(core, "file", None)
               fd == Files!NextId(core)
    <1>1. MayOpen(core, "file", None)
        BY DEF MayOpen, OrNone
    <1>2. Opened(core, c, r)
        BY <1>1, OpenNomapIs DEF CoreInv
    <1>3. r.fd = fd
        BY DEF OpenRec
    <1>4. Files!Creates(Files!MapNew(c, fd, None))
        BY DEF Files!OpenNobin
    <1> HIDE DEF c, r, fd
    <1>5. Good(c)
        BY <1>2, OpenedGood DEF CoreInv
    <1>6. LiveFd(c, fd) /\ fd \in Nat /\ None \in OrNone
        BY <1>2, <1>3 DEF Opened, NewRec, LiveFd, DescRecs, OrNone
    <1>7. Good(Files!MapNew(c, fd, None))
        BY <1>5, <1>6, MapNewGood
    <1> QED
        BY <1>4, <1>7, Created

\* rz_core_bin_load.
LEMMA LoadKeeps ==
    ASSUME CoreInv, NEW obj \in Files!Loads, Files!Load(obj) PROVE After
    <1>1. obj \in Files!BinObjects \cup {None} /\ CurrentOpen(core)
        BY UsageOk, LoadableOpen DEF Files!Load
    <1>2. Good(Files!TryLoad(core, obj))
        BY <1>1, TryLoadGood DEF CoreInv
    <1> QED
        BY <1>2, Created DEF Files!Load

\* rz_io_map_del.
LEMMA DeleteMapKeeps ==
    ASSUME CoreInv, NEW m, Files!DeleteMap(m) PROVE After
    <1>1. Good(Files!MapDel(core, m))
        BY MapDelGood DEF CoreInv
    <1> QED
        BY <1>1, Settled DEF Files!DeleteMap

\* The pointers of the binaries.
LEMMA BinPtr ==
    ASSUME NEW c, Parts(c), NEW b \in Files!Ptrs(Files!ToSet(c.binfiles))
    PROVE  b \in Nat /\ InList(c.binfiles, b)
    <1>1. InList(c.binfiles, b)
        BY DEF Files!Ptrs, Files!ToSet, InList
    <1> QED
        BY <1>1, BinAt

\* rz_core_bin_raise.
LEMMA RaiseKeeps ==
    ASSUME CoreInv, NEW b \in Files!Ptrs(Files!ToSet(core.binfiles)), Files!Raise(b) PROVE After
    <1> DEFINE c == [core EXCEPT !.cur = b]
    <1>1. Good(core) /\ b \in Nat /\ InList(core.binfiles, b) /\ core \in Cores
        BY BinPtr DEF CoreInv, Good, Weak, Parts
    <1>2. Good(c)
        BY <1>1, PickBinGood DEF OrNone
    <1>3. c.binfiles = core.binfiles
        BY <1>1 DEF Cores
    <1>4. Files!Creates(Files!Raised(c, b))
        BY DEF Files!Raise
    <1> HIDE DEF c
    <1>5. Good(Files!Raised(c, b))
        BY <1>1, <1>2, <1>3, RaisedGood
    <1> QED
        BY <1>4, <1>5, Created

\* rz_open_use_handler.
LEMMA UseFileKeeps ==
    ASSUME CoreInv, NEW cf \in Files!Ptrs(Files!ToSet(core.files)), Files!UseFile(cf) PROVE After
    <1> DEFINE fd == core.files[Files!At(core.files, cf)].fd
               b == Files!FindByFd(core.binfiles, fd)
               s == [core EXCEPT !.file = cf]
               c == Files!UseFd(s, fd)
               t == [c EXCEPT !.cur = b]
               u == IF b = None THEN c ELSE Files!Raised(t, b)
    <1>1. Good(core) /\ Weak(core) /\ Parts(core) /\ core \in Cores
        BY DEF CoreInv, Good, Weak, Parts
    <1>2. InList(core.files, cf)
        BY DEF Files!Ptrs, Files!ToSet, InList
    <1>3. cf \in Nat
        BY <1>1, <1>2, FilePtr
    <1>4. b # None => InList(core.binfiles, b) /\ b \in Nat
        BY <1>1, FoundBin
    <1>5. Files!Creates(u)
        BY DEF Files!UseFile
    <1> HIDE DEF fd, b
    <1>6. Good(s) /\ s.binfiles = core.binfiles
        <2>1. core.cur \in OrNone /\ (core.cur # None => InList(core.binfiles, core.cur))
            BY <1>1 DEF Weak, Currents, Cores
        <2>2. s = [core EXCEPT !.file = cf, !.cur = core.cur] /\ s.binfiles = core.binfiles
            BY <1>1 DEF Cores
        <2>3. Good([core EXCEPT !.file = cf, !.cur = core.cur])
            BY <1>1, <1>2, <1>3, <2>1, ChooseGood DEF OrNone
        <2> QED
            BY <2>2, <2>3
    <1> HIDE DEF s
    <1>7. Good(c) /\ c.binfiles = core.binfiles
        <2>1. Good(c) /\ More(s, c)
            BY <1>6, UseFdGood
        <2> HIDE DEF c
        <2> QED
            BY <1>6, <2>1 DEF More
    <1> HIDE DEF c
    <1>8. b # None => Good(Files!Raised(t, b))
        <2> SUFFICES ASSUME b # None PROVE Good(Files!Raised(t, b))
            OBVIOUS
        <2>1. c \in Cores /\ b \in Nat /\ InList(c.binfiles, b)
            BY <1>4, <1>7 DEF Good, Weak, Parts
        <2>2. Good(t)
            BY <1>7, <2>1, PickBinGood DEF OrNone
        <2>3. t.binfiles = c.binfiles
            BY <2>1 DEF Cores
        <2> HIDE DEF t
        <2> QED
            BY <2>1, <2>2, <2>3, RaisedGood
    <1> HIDE DEF t
    <1>9. Good(u)
        BY <1>7, <1>8
    <1> HIDE DEF u
    <1> QED
        BY <1>5, <1>9, Created

\* rz_core_binfiles_delete.
LEMMA DeleteBinKeeps ==
    ASSUME CoreInv, NEW b \in Files!Ptrs(Files!ToSet(core.binfiles)),
           NEW at \in Files!Ptrs(Files!ToSet(core.binfiles)) \cup {None}, Files!DeleteBin(b, at)
    PROVE  After
    <1> DEFINE c == Files!BinDelete(core, b)
               u == IF at = None THEN c ELSE Files!Raised(c, at)
    <1>1. Good(core) /\ Parts(core)
        BY DEF CoreInv, Good, Weak
    <1>2. b \in Nat
        BY <1>1, BinPtr
    <1>3. at # b /\ Files!Creates(u)
        BY DEF Files!DeleteBin
    <1>4. Good(c) /\ \A p : InList(c.binfiles, p) <=> InList(core.binfiles, p) /\ p # b
        BY <1>1, <1>2, BinDeleteGood
    <1> HIDE DEF c
    <1>5. at # None => Good(Files!Raised(c, at))
        <2> SUFFICES ASSUME at # None PROVE Good(Files!Raised(c, at))
            OBVIOUS
        <2>1. InList(core.binfiles, at)
            BY <1>1, BinPtr
        <2> QED
            BY <1>3, <1>4, <2>1, RaisedGood
    <1>6. Good(u)
        BY <1>4, <1>5
    <1> HIDE DEF u
    <1> QED
        BY <1>3, <1>6, Created

\* rz_bin_file_delete_all.
LEMMA DeleteAllBinsKeeps ==
    ASSUME CoreInv, Files!DeleteAllBins PROVE After
    <1>1. Good(Files!BinDeleteAll(core))
        BY BinDeleteAllGood DEF CoreInv
    <1> QED
        BY <1>1, Settled DEF Files!DeleteAllBins

\* rz_core_file_close_fd of a descriptor that no core file has.
LEMMA CloseDescKeeps ==
    ASSUME CoreInv, NEW p \in Files!Ptrs(core.descs), NEW closes \in BOOLEAN, Files!CloseDesc(p, closes) PROVE After
    <1>1. PICK d \in core.descs : p = d.ptr
        BY DEF Files!Ptrs
    <1>2. Good(Files!DescClose(core, p, closes))
        BY <1>1, DescCloseGood DEF CoreInv
    <1> QED
        BY <1>2, Settled DEF Files!CloseDesc

\* rz_io_reopen.
LEMMA ReopenKeeps ==
    ASSUME CoreInv, NEW p \in Files!Ptrs(core.descs), NEW closes \in BOOLEAN, Files!Reopen(p, closes) PROVE After
    <1> DEFINE old == Files!The(core.descs, p)
               o == Files!OpenNomap(core, old.kind, old.bf)
               r == OpenRec(core, old.kind, old.bf)
               fd == Files!NextId(core)
               x == Files!Exchange(o, old.fd, fd)
    <1>1. PICK d \in core.descs : p = d.ptr
        BY DEF Files!Ptrs
    <1>2. Good(core) /\ Weak(core) /\ DescsOk(core.descs)
        BY DEF CoreInv, Good, Weak, Parts
    <1>3. old = d
        BY <1>1, <1>2, TheIs
    <1>4. Files!Creates(Files!DescClose(x, p, closes))
        BY DEF Files!Reopen
    <1> HIDE DEF old
    <1>5. MayOpen(core, old.kind, old.bf)
        BY <1>2, <1>3 DEF MayOpen, DescsOk, DescRecs, Weak, Owners
    <1>6. Opened(core, o, r)
        BY <1>2, <1>5, OpenNomapIs
    <1>7. r.fd = fd
        BY DEF OpenRec
    <1> HIDE DEF o, r, fd
    <1>8. Good(o)
        BY <1>2, <1>6, OpenedGood
    <1>9. old \in o.descs /\ r \in o.descs /\ old # r
        BY <1>3, <1>6 DEF Opened, NewRec, HasPtr
    <1>10. Good(x) /\ \A e \in o.descs : \E e2 \in x.descs : e2.ptr = e.ptr
        BY <1>7, <1>8, <1>9, ExchangeGood
    <1> HIDE DEF x
    <1>11. PICK e2 \in x.descs : e2.ptr = p
        BY <1>1, <1>3, <1>9, <1>10
    <1>12. Good(Files!DescClose(x, p, closes))
        BY <1>10, <1>11, DescCloseGood
    <1> QED
        BY <1>4, <1>12, Created

\* The start of a close that nothing follows, or the closes of the other files.
LEMMA BeginClose ==
    ASSUME NEW c, Good(c), NEW cf, InList(c.files, cf), NEW closes \in BOOLEAN,
           NEW cl, cl \in Closings, cl.file = cf, cl.then \notin Reopens
    PROVE  Good(Files!FileCloseBegin(c, cf, closes)) /\ ClosingOk(Files!FileCloseBegin(c, cf, closes), cl)
    <1> DEFINE t == Files!FileCloseBegin(c, cf, closes)
    <1>1. Good(t) /\ Stay(c, t) /\ cf # None
        BY CloseBeginGood, FilePtr DEF Good, Weak
    <1> HIDE DEF t
    <1>2. InList(t.files, cf)
        BY <1>1 DEF Stay, SameFiles, InList
    <1>3. Good(t) /\ ClosingOk(t, cl)
        BY <1>1, <1>2 DEF ClosingOk
    <1> QED
        BY <1>3 DEF t

\* The record of such a close.
LEMMA PlainClosing ==
    ASSUME NEW cf \in Nat, NEW then \in {"nothing", "all"}
    PROVE  LET cl == Files!Begun(cf, then)
           IN  cl \in Closings /\ cl.file = cf /\ cl.then \notin Reopens
    BY DEF Closings, OrNone, Reopens, Files!Begun

\* rz_core_file_close_all_but between two descriptors.
LEMMA Sweeping ==
    ASSUME NEW c, NEW cl, cl \in Closings, cl.file = None, cl.then \in Sweeps
    PROVE  ClosingOk(c, cl)
    BY DEF ClosingOk, Sweeps, Reopens

\* The start of rz_core_file_close_all_but.
LEMMA SweepBegun ==
    ASSUME NEW c, NEW then \in Sweeps
    PROVE  ClosingOk(c, Files!Begun(None, then))
    <1> DEFINE cl == Files!Begun(None, then)
    <1>1. cl \in Closings /\ cl.file = None /\ cl.then \in Sweeps
        BY DEF Files!Begun, Closings, OrNone
    <1> HIDE DEF cl
    <1>2. ClosingOk(c, cl)
        BY <1>1, Sweeping
    <1> QED
        BY <1>2 DEF cl

\* rz_core_file_reopen comes to it.
LEMMA ToSweep ==
    ASSUME closing' = Files!Begun(None, "sweep"), Good(core')
    PROVE  After
    <1> DEFINE c == core'
    <1>1. ClosingOk(c, Files!Begun(None, "sweep"))
        BY SweepBegun DEF Sweeps
    <1> QED
        BY <1>1 DEF After

\* rz_core_file_close_fd of a core file.
LEMMA CloseFileKeeps ==
    ASSUME CoreInv, NEW cf \in Files!Ptrs(Files!ToSet(core.files)), NEW closes \in BOOLEAN, Files!CloseFile(cf, closes) PROVE After
    <1> DEFINE cl == Files!Begun(cf, "nothing")
    <1>1. Good(core) /\ Parts(core)
        BY DEF CoreInv, Good, Weak
    <1>2. InList(core.files, cf)
        BY DEF Files!Ptrs, Files!ToSet, InList
    <1>3. cf \in Nat
        BY <1>1, <1>2, FilePtr
    <1>4. cl \in Closings /\ cl.file = cf /\ cl.then \notin Reopens
        BY <1>3, PlainClosing
    <1>5. core' = Files!FileCloseBegin(core, cf, closes) /\ closing' = cl
        BY DEF Files!CloseFile
    <1> HIDE DEF cl
    <1>6. Good(Files!FileCloseBegin(core, cf, closes)) /\ ClosingOk(Files!FileCloseBegin(core, cf, closes), cl)
        BY <1>1, <1>2, <1>4, BeginClose
    <1> QED
        BY <1>5, <1>6 DEF After

\* A core file that is there.
LEMMA FileThere ==
    ASSUME NEW c, Parts(c), DOMAIN c.files # {}
    PROVE  1 \in DOMAIN c.files /\ InList(c.files, c.files[1].ptr) /\ c.files[1].ptr \in Nat
    <1>1. c.files \in Seq(FileRecs)
        BY DEF Parts, FilesOk, Listed
    <1>2. 1 \in DOMAIN c.files /\ c.files[1] \in FileRecs
        BY <1>1
    <1> QED
        BY <1>2 DEF InList, FileRecs

\* rz_open_close_all_handler.
LEMMA CloseAllKeeps ==
    ASSUME CoreInv, NEW closes \in BOOLEAN, Files!CloseAll(closes) PROVE After
    <1> DEFINE cf == core.files[1].ptr
               cl == Files!Begun(cf, "all")
    <1>1. Good(core) /\ Parts(core)
        BY DEF CoreInv, Good, Weak
    <1>2. core.files # <<>> /\ core.files \in Seq(FileRecs)
        BY <1>1 DEF Files!CloseAll, Parts, FilesOk, Listed
    <1>3. DOMAIN core.files # {}
        BY <1>2, Places
    <1>4. InList(core.files, cf) /\ cf \in Nat
        BY <1>1, <1>3, FileThere
    <1>5. core' = Files!FileCloseBegin(core, cf, closes) /\ closing' = cl
        BY DEF Files!CloseAll
    <1> HIDE DEF cf
    <1>6. cl \in Closings /\ cl.file = cf /\ cl.then \notin Reopens
        BY <1>4, PlainClosing
    <1> HIDE DEF cl
    <1>7. Good(Files!FileCloseBegin(core, cf, closes)) /\ ClosingOk(Files!FileCloseBegin(core, cf, closes), cl)
        BY <1>1, <1>4, <1>6, BeginClose
    <1> QED
        BY <1>5, <1>7 DEF After

\* rz_core_file_reopen up to the close of the old file: the new one has its descriptor.
LEMMA ReopenFileKeeps ==
    ASSUME CoreInv, NEW then \in Reopens, NEW obj \in Files!Loads, NEW closes \in BOOLEAN,
           Files!ReopenFile(then, obj, closes)
    PROVE  After
    <1> DEFINE k == Files!At(core.files, core.file)
               f == core.files[k]
               b == Files!FindByFd(core.binfiles, f.fd)
               o == Files!FileOpen(core)
               s == IF b = None THEN o ELSE Files!BinDelete(o, b)
               t == Files!FileCloseBegin(s, f.ptr, closes)
               cl == [Files!Begun(f.ptr, then) EXCEPT !.new = o.file, !.obj = obj]
    <1>1. Good(core) /\ Weak(core) /\ Parts(core) /\ Listed(BinRecs, core.binfiles)
        BY DEF CoreInv, Good, Weak, Parts
    <1>2. CurrentOpen(core) /\ obj \in Files!BinObjects \cup {None}
        BY LoadableOpen, UsageOk DEF Files!ReopenFile
    <1>3. core' = t /\ closing' = cl
        BY DEF Files!ReopenFile
    <1>4. /\ k \in DOMAIN core.files /\ f.ptr = core.file /\ f \in FileRecs /\ LiveFd(core, f.fd)
          /\ InList(core.files, f.ptr)
        BY <1>1, <1>2, FileAt DEF CurrentOpen
    <1>5. b = None \/ b \in Nat
        <2>1. core.binfiles \in Seq(BinRecs) /\ \A i \in 1 .. Len(core.binfiles) : core.binfiles[i] \in BinRecs
            BY <1>1 DEF Listed
        <2>2. b = None \/ \E i \in 1 .. Len(core.binfiles) : b = core.binfiles[i].ptr
            BY <2>1, FindFacts
        <2> HIDE DEF b
        <2> QED
            BY <2>1, <2>2 DEF BinRecs
    <1>6. JustOpened(core, o)
        BY <1>1, FileOpenGood
    <1> HIDE DEF f, k, b, o
    <1>7. Good(s) /\ Stay(o, s) /\ OwnStay(o, s)
        <2>1. Good(o)
            BY <1>6 DEF JustOpened
        <2>2. CASE b = None
            BY <2>1, <2>2 DEF Stay, SameFiles, OwnStay
        <2>3. CASE b # None
            <3>1. b \in Nat /\ s = Files!BinDelete(o, b)
                BY <1>5, <2>3
            <3> QED
                BY <2>1, <3>1, BinDeleteStay
        <2> QED
            BY <2>2, <2>3
    <1> HIDE DEF s
    <1>8. k \in DOMAIN o.files /\ o.files[k] = f
        BY <1>4, <1>6 DEF JustOpened, f
    <1>9. k \in DOMAIN s.files /\ s.files[k].ptr = f.ptr /\ s.files[k].fd = f.fd
        BY <1>7, <1>8 DEF Stay, SameFiles
    <1>10. InList(s.files, f.ptr)
        BY <1>9 DEF InList
    <1>11. k = Files!At(s.files, f.ptr)
        BY <1>7, <1>9, <1>10, FileAt DEF Good, Weak
    <1> DEFINE fd == s.files[Files!At(s.files, f.ptr)].fd
    <1>12. Good(t) /\ Stay(s, t) /\ \A e \in s.descs : e.fd # fd => e \in t.descs
        BY <1>7, <1>10, CloseBeginGood
    <1>13. fd = f.fd
        BY <1>9, <1>11
    <1> HIDE DEF t, fd
    <1>14. PICK j \in DOMAIN o.files : \E d \in o.descs :
             o.files[j].ptr = o.file /\ d.fd = o.files[j].fd /\ d.kind = "file" /\ ~LiveFd(core, d.fd)
        BY <1>6 DEF JustOpened
    <1>15. PICK d \in o.descs : o.files[j].ptr = o.file /\ d.fd = o.files[j].fd /\ d.kind = "file" /\ ~LiveFd(core, d.fd)
        BY <1>14
    <1>16. d \in t.descs
        <2>1. d \in s.descs
            BY <1>7, <1>15 DEF OwnStay
        <2>2. d.fd # fd
            BY <1>4, <1>13, <1>15
        <2> QED
            BY <1>12, <2>1, <2>2
    <1>17. j \in DOMAIN t.files /\ t.files[j].ptr = o.file /\ t.files[j].fd = d.fd
        BY <1>7, <1>12, <1>15 DEF Stay, SameFiles
    <1>18. HasOwn(t, o.file)
        BY <1>15, <1>16, <1>17 DEF HasOwn
    <1>19. o.file # f.ptr
        BY <1>4, <1>6 DEF JustOpened
    <1>20. InList(t.files, f.ptr)
        BY <1>10, <1>12 DEF Stay, SameFiles, InList
    <1>21. o.file \in OrNone /\ f.ptr \in Nat
        BY <1>4, <1>6 DEF JustOpened, Good, Weak, Parts, Cores, FileRecs
    <1>22. cl \in Closings /\ cl.file = f.ptr /\ cl.new = o.file /\ cl.file # None
        BY <1>2, <1>21, NoneNoPtr DEF Closings, OrNone, Files!Begun
    <1> HIDE DEF cl
    <1>23. ClosingOk(t, cl)
        BY <1>18, <1>19, <1>20, <1>22 DEF ClosingOk
    <1> QED
        BY <1>3, <1>12, <1>23 DEF After

\* rz_core_file_reopen that cannot open the file again, or stops at a break.
LEMMA ReopenFileFailsKeeps ==
    ASSUME CoreInv, Files!ReopenFileFails PROVE After
    <1> DEFINE o == Files!OpenNomap(core, "file", None)
    <1>1. CurrentOpen(core) /\ Good(core)
        BY LoadableOpen DEF Files!ReopenFileFails, CoreInv
    <1>2. InList(core.files, core.file)
        BY <1>1 DEF CurrentOpen
    <1>3. Opened(core, o, OpenRec(core, "file", None))
        <2>1. MayOpen(core, "file", None)
            BY DEF MayOpen, OrNone
        <2> QED
            BY <1>1, <2>1, OpenNomapIs
    <1>4. PICK c \in {core, o} : core' = Files!SetByFile(c, core.file) /\ closing' = Files!Begun(None, "sweep")
        BY DEF Files!ReopenFileFails
    <1> HIDE DEF o
    <1>5. Good(o) /\ o.files = core.files
        <2>1. Good(o)
            BY <1>1, <1>3, OpenedGood
        <2> QED
            BY <1>3, <2>1 DEF Opened
    <1>6. Good(c) /\ InList(c.files, core.file)
        BY <1>1, <1>2, <1>5
    <1>7. Good(Files!SetByFile(c, core.file))
        BY <1>6, SetByFileGood
    <1> QED
        BY <1>4, <1>7, ToSweep

\* rz_open_close_all_handler with no core file.
LEMMA CloseRestKeeps ==
    ASSUME CoreInv, Files!CloseRest PROVE After
    <1> DEFINE a == Files!IoCloseAll(core)
    <1>1. closing = None /\ UNCHANGED closing /\ core.files = <<>> /\ core' = Files!BinDeleteAll(a)
        BY DEF Files!CloseRest
    <1>2. DOMAIN core.files = {}
        BY <1>1
    <1>3. Good(a)
        BY <1>2, IoCloseAllGood DEF CoreInv
    <1> HIDE DEF a
    <1>4. Good(Files!BinDeleteAll(a))
        BY <1>3, BinDeleteAllGood
    <1> QED
        BY <1>1, <1>4, Settled

\* The core file that is being closed.
LEMMA ClosingThere ==
    ASSUME CoreInv, Files!InFile
    PROVE  LET k == Files!At(core.files, closing.file)
           IN  /\ k \in DOMAIN core.files /\ Files!ClosingFile = core.files[k] /\ InList(core.files, closing.file)
               /\ Vec(Files!ClosingFile.maps) /\ Vec(Files!ClosingFile.extra_files) /\ Vec(Files!ClosingFile.binfiles)
               /\ closing.file \in Nat /\ closing \in Closings
    <1>1. Parts(core) /\ FilesOk(core.files) /\ InList(core.files, closing.file) /\ closing \in Closings
        BY DEF CoreInv, Good, Weak, Parts, ClosingOk, Files!InFile
    <1> DEFINE k == Files!At(core.files, closing.file)
    <1>2. k \in DOMAIN core.files
        BY <1>1, FileAt
    <1>3. Files!ClosingFile = core.files[k]
        BY DEF Files!ClosingFile
    <1>4. Vec(core.files[k].maps) /\ Vec(core.files[k].extra_files) /\ Vec(core.files[k].binfiles)
        BY <1>1, <1>2 DEF FilesOk
    <1>5. closing.file \in Nat
        BY <1>1, FilePtr
    <1> QED
        BY <1>1, <1>2, <1>3, <1>4, <1>5

\* rz_core_file_close deletes a map.
LEMMA CloseMapKeeps ==
    ASSUME CoreInv, Files!CloseMap PROVE After
    <1> DEFINE m == Files!Last(Files!ClosingFile.maps)
    <1>1. UNCHANGED closing /\ core' = IF m \in Files!Ptrs(core.maps) THEN Files!MapDel(core, m) ELSE core
        BY DEF Files!CloseMap
    <1> HIDE DEF m
    <1>2. Good(core) /\ ClosingOk(core, closing)
        BY DEF CoreInv
    <1>3. Good(Files!MapDel(core, m)) /\ ClosingOk(Files!MapDel(core, m), closing)
        BY <1>2, MapTurn
    <1> QED
        BY <1>1, <1>2, <1>3 DEF After

\* rz_core_file_close closes a descriptor of extra_files.
LEMMA CloseExtraKeeps ==
    ASSUME CoreInv, Files!CloseExtra PROVE After
    <1> DEFINE v == Files!ClosingFile.extra_files
               d == Files!Last(v)
               k == Files!At(core.files, closing.file)
    <1>1. /\ UNCHANGED closing /\ core' = IF d \in Files!Ptrs(core.descs) THEN Files!DescClose(core, d, TRUE) ELSE core
          /\ Files!InFile /\ v # <<>>
        BY DEF Files!CloseExtra
    <1>2. k \in DOMAIN core.files /\ v = core.files[k].extra_files /\ Vec(v)
        BY <1>1, ClosingThere
    <1> HIDE DEF v, k
    <1>3. InVec(core.files[k].extra_files, d)
        BY <1>1, <1>2, LastIn
    <1>4. Good(core) /\ ClosingOk(core, closing)
        BY DEF CoreInv
    <1> HIDE DEF d
    <1>5. Good(Files!DescClose(core, d, TRUE)) /\ ClosingOk(Files!DescClose(core, d, TRUE), closing)
        BY <1>2, <1>3, <1>4, ExtraTurn
    <1> QED
        BY <1>1, <1>4, <1>5 DEF After

\* rz_core_file_close deletes a binary.
LEMMA CloseBinKeeps ==
    ASSUME CoreInv, Files!CloseBin PROVE After
    <1> DEFINE v == Files!ClosingFile.binfiles
               b == Files!Last(v)
    <1>1. /\ UNCHANGED closing
          /\ core' = IF b \in Files!Ptrs(Files!ToSet(core.binfiles)) THEN Files!BinDelete(core, b) ELSE core
          /\ Files!InFile /\ v # <<>>
        BY DEF Files!CloseBin
    <1>2. Vec(v)
        BY <1>1, ClosingThere
    <1> HIDE DEF v
    <1>3. b \in Nat
        BY <1>1, <1>2, LastIn
    <1>4. Good(core) /\ ClosingOk(core, closing)
        BY DEF CoreInv
    <1> HIDE DEF b
    <1>5. Good(Files!BinDelete(core, b)) /\ ClosingOk(Files!BinDelete(core, b), closing)
        BY <1>3, <1>4, BinTurn
    <1> QED
        BY <1>1, <1>4, <1>5 DEF After

\* The end of rz_core_file_close, when its loops are through.
LEMMA EndClose ==
    ASSUME CoreInv, Files!Emptied
    PROVE  LET c == Files!FileCloseEnd(core, closing.file)
           IN  /\ Good(c) /\ c.descs = core.descs /\ closing # None /\ closing \in Closings
               /\ Files!ToSet(c.files) = {f \in Files!ToSet(core.files) : f.ptr # closing.file}
    <1> DEFINE k == Files!At(core.files, closing.file)
               empty == <<>>
    <1>1. Files!InFile /\ closing # None
        BY DEF Files!Emptied, Files!InFile
    <1>2. InList(core.files, closing.file) /\ closing.file \in Nat /\ Files!ClosingFile = core.files[k] /\ closing \in Closings
        BY <1>1, ClosingThere
    <1>3. Files!ClosingFile.maps = empty /\ Files!ClosingFile.extra_files = empty /\ Files!ClosingFile.binfiles = empty
        BY DEF Files!Emptied
    <1>4. DOMAIN empty = {}
        OBVIOUS
    <1> HIDE DEF empty, k
    <1>5. EmptyFile(core.files[k])
        BY <1>2, <1>3, <1>4 DEF EmptyFile
    <1> QED
        BY <1>1, <1>2, <1>5, CloseEndGood DEF CoreInv, k

\* rz_core_file_close frees the core file.
LEMMA CloseEndKeeps ==
    ASSUME CoreInv, Files!CloseEnd PROVE After
    <1> DEFINE c == Files!FileCloseEnd(core, closing.file)
               a == Files!IoCloseAll(c)
    <1>1. /\ Files!Emptied /\ closing' = None /\ (closing.then = "all" => c.files = <<>>)
          /\ core' = IF closing.then = "all" THEN Files!BinDeleteAll(a) ELSE c
        BY DEF Files!CloseEnd
    <1>2. Good(c)
        BY <1>1, EndClose
    <1> HIDE DEF c
    <1>3. closing.then = "all" => Good(Files!BinDeleteAll(a))
        <2> SUFFICES ASSUME closing.then = "all" PROVE Good(Files!BinDeleteAll(a))
            OBVIOUS
        <2>1. DOMAIN c.files = {}
            BY <1>1
        <2>2. Good(a)
            BY <1>2, <2>1, IoCloseAllGood
        <2> HIDE DEF a
        <2> QED
            BY <2>2, BinDeleteAllGood
    <1> HIDE DEF a
    <1>4. Good(core')
        BY <1>1, <1>2, <1>3
    <1> QED
        BY <1>1, <1>4 DEF After, ClosingOk

\* rz_core_file_close_fd goes on with the next core file.
LEMMA CloseNextKeeps ==
    ASSUME CoreInv, NEW closes \in BOOLEAN, Files!CloseNext(closes) PROVE After
    <1> DEFINE c == Files!FileCloseEnd(core, closing.file)
               cf == c.files[1].ptr
               cl == [closing EXCEPT !.file = cf]
    <1>1. /\ Files!Emptied /\ closing.then = "all" /\ Len(core.files) > 1
          /\ core' = Files!FileCloseBegin(c, cf, closes) /\ closing' = cl
        BY DEF Files!CloseNext
    <1>2. /\ Good(c) /\ closing \in Closings
          /\ Files!ToSet(c.files) = {f \in Files!ToSet(core.files) : f.ptr # closing.file}
        BY <1>1, EndClose
    <1> HIDE DEF c
    <1>3. DOMAIN c.files # {}
        <2>1. core.files \in Seq(FileRecs) /\ \A i, j \in DOMAIN core.files : core.files[i].ptr = core.files[j].ptr => i = j
            BY DEF CoreInv, Good, Weak, Parts, FilesOk, Listed
        <2>2. 1 \in DOMAIN core.files /\ 2 \in DOMAIN core.files
            BY <1>1, <2>1
        <2>3. core.files[1].ptr # core.files[2].ptr
            BY <2>1, <2>2
        <2>4. \A i \in DOMAIN core.files : core.files[i] \in Files!ToSet(core.files)
            BY DEF Files!ToSet
        <2>5. \E f \in Files!ToSet(core.files) : f.ptr # closing.file
            BY <2>2, <2>3, <2>4
        <2>6. Files!ToSet(c.files) # {}
            BY <1>2, <2>5
        <2> QED
            BY <2>6 DEF Files!ToSet
    <1>4. Parts(c)
        BY <1>2 DEF Good, Weak
    <1>5. InList(c.files, cf) /\ cf \in Nat
        BY <1>3, <1>4, FileThere
    <1> HIDE DEF cf
    <1>6. cl \in Closings /\ cl.file = cf /\ cl.then \notin Reopens
        BY <1>1, <1>2, <1>5 DEF Closings, OrNone, Reopens
    <1> HIDE DEF cl
    <1>7. Good(Files!FileCloseBegin(c, cf, closes)) /\ ClosingOk(Files!FileCloseBegin(c, cf, closes), cl)
        BY <1>2, <1>5, <1>6, BeginClose
    <1> QED
        BY <1>1, <1>7 DEF After

\* rz_core_file_reopen once the old file is closed: the new one is current, with its descriptor.
LEMMA NewSet ==
    ASSUME CoreInv, Files!Emptied, closing.then \in Reopens
    PROVE  /\ Good(Files!SetNew) /\ CurrentOpen(Files!SetNew) /\ closing.obj \in Files!BinObjects \cup {None}
    <1> DEFINE c == Files!FileCloseEnd(core, closing.file)
               new == closing.new
               t == Files!SetByFile(c, new)
    <1>1. Files!SetNew = t
        BY DEF Files!SetNew
    <1>2. /\ Good(c) /\ c.descs = core.descs /\ closing \in Closings /\ closing # None
          /\ Files!ToSet(c.files) = {f \in Files!ToSet(core.files) : f.ptr # closing.file}
        BY EndClose
    <1> HIDE DEF c
    <1>3. HasOwn(core, new) /\ new # closing.file /\ closing.obj \in Files!BinObjects \cup {None}
        BY <1>2 DEF CoreInv, ClosingOk, Closings
    <1> HIDE DEF new
    <1>4. PICK j \in DOMAIN c.files : c.files[j].ptr = new /\ LiveFd(c, c.files[j].fd)
        <2>1. PICK k \in DOMAIN core.files : \E d \in core.descs :
                core.files[k].ptr = new /\ d.fd = core.files[k].fd /\ d.kind = "file"
            BY <1>3 DEF HasOwn
        <2>2. core.files[k] \in Files!ToSet(c.files)
            BY <1>2, <1>3, <2>1 DEF Files!ToSet
        <2>3. PICK j \in DOMAIN c.files : c.files[j] = core.files[k]
            BY <2>2 DEF Files!ToSet
        <2> QED
            BY <1>2, <2>1, <2>3 DEF LiveFd
    <1>5. InList(c.files, new)
        BY <1>4 DEF InList
    <1>6. j = Files!At(c.files, new)
        BY <1>2, <1>4, <1>5, FileAt DEF Good, Weak
    <1>7. LiveFd(c, c.files[Files!At(c.files, new)].fd)
        BY <1>4, <1>6
    <1>8. Good(t) /\ CurrentOpen(t)
        BY <1>2, <1>5, <1>7, SetByFileGood
    <1> QED
        BY <1>1, <1>3, <1>8

\* rz_core_file_reopen loads the new file.
LEMMA CloseThenLoadKeeps ==
    ASSUME CoreInv, Files!CloseThenLoad PROVE After
    <1>1. Files!Emptied /\ closing.then \in Reopens /\ closing' = Files!Begun(None, "sweep") /\ core' = Files!TryLoad(Files!SetNew, closing.obj)
        BY DEF Files!CloseThenLoad, Reopens
    <1> DEFINE t == Files!SetNew
    <1>2. Good(t) /\ CurrentOpen(t) /\ closing.obj \in Files!BinObjects \cup {None}
        BY <1>1, NewSet
    <1> HIDE DEF t
    <1>3. Good(Files!TryLoad(t, closing.obj))
        BY <1>2, TryLoadGood
    <1> QED
        BY <1>1, <1>3, ToSweep DEF t

\* rz_core_file_reopen leaves the current binary.
LEMMA CloseThenKeepKeeps ==
    ASSUME CoreInv, Files!CloseThenKeep PROVE After
    <1>1. Files!Emptied /\ closing.then \in Reopens /\ closing' = Files!Begun(None, "sweep") /\ core' = Files!SetNew
        BY DEF Files!CloseThenKeep, Reopens
    <1>2. Good(Files!SetNew)
        BY <1>1, NewSet
    <1> QED
        BY <1>1, <1>2, ToSweep

\* rz_core_file_reopen forgets the current binary.
LEMMA CloseThenForgetKeeps ==
    ASSUME CoreInv, Files!CloseThenForget PROVE After
    <1> DEFINE t == Files!SetNew
               u == [t EXCEPT !.cur = None]
    <1>1. Files!Emptied /\ closing.then \in Reopens /\ closing' = Files!Begun(None, "sweep") /\ (core' = t \/ core' = u)
        BY DEF Files!CloseThenForget, Reopens
    <1>2. Good(t)
        BY <1>1, NewSet
    <1> HIDE DEF t
    <1>3. Good(u)
        BY <1>2, PickBinGood DEF OrNone
    <1> HIDE DEF u
    <1>4. Good(core')
        BY <1>1, <1>2, <1>3
    <1> QED
        BY <1>1, <1>4, ToSweep

\* The descriptor rz_core_file_close_all_but comes to.
LEMMA TurnFacts ==
    ASSUME CoreInv, NEW d \in core.descs, Files!Turn(d)
    PROVE  /\ Good(core) /\ Parts(core) /\ d.fd + 1 \in Nat
           /\ closing # None /\ closing \in Closings /\ closing.file = None /\ closing.then \in Sweeps
    <1>1. Good(core) /\ Parts(core) /\ core.descs \subseteq DescRecs
        BY DEF CoreInv, Good, Weak, Parts, DescsOk
    <1>2. d.fd + 1 \in Nat
        BY <1>1 DEF DescRecs
    <1>3. closing # None /\ closing.file = None
        BY DEF Files!Turn
    <1> QED
        BY <1>1, <1>2, <1>3 DEF CoreInv, ClosingOk

\* It closes a core file.
LEMMA SweepFileKeeps ==
    ASSUME CoreInv, NEW d \in core.descs, NEW closes \in BOOLEAN, Files!SweepFile(d, closes) PROVE After
    <1> DEFINE cf == Files!FindByFd(core.files, d.fd)
               cl == [closing EXCEPT !.file = cf, !.at = d.fd + 1]
    <1>1. /\ Files!Turn(d) /\ cf # None
          /\ core' = Files!FileCloseBegin(core, cf, closes) /\ closing' = cl
        BY DEF Files!SweepFile
    <1>2. /\ Good(core) /\ Parts(core) /\ d.fd + 1 \in Nat
          /\ closing \in Closings /\ closing.then \in Sweeps
        BY <1>1, TurnFacts
    <1>3. core.files \in Seq(FileRecs) /\ \A k \in 1 .. Len(core.files) : k \in DOMAIN core.files
        BY <1>2 DEF Parts, FilesOk, Listed
    <1>4. \E k \in 1 .. Len(core.files) : cf = core.files[k].ptr
        BY <1>1, <1>3, FindFacts
    <1> HIDE DEF cf
    <1>5. InList(core.files, cf)
        BY <1>3, <1>4 DEF InList
    <1>6. cf \in Nat
        BY <1>2, <1>5, FilePtr
    <1>7. cl \in Closings /\ cl.file = cf /\ cl.then \notin Reopens
        BY <1>2, <1>6 DEF Closings, OrNone, Reopens, Sweeps
    <1> HIDE DEF cl
    <1>8. Good(Files!FileCloseBegin(core, cf, closes)) /\ ClosingOk(Files!FileCloseBegin(core, cf, closes), cl)
        BY <1>2, <1>5, <1>7, BeginClose
    <1> QED
        BY <1>1, <1>8 DEF After

\* After the first time comes the second.
LEMMA SweptOk ==
    ASSUME NEW c PROVE ClosingOk(c, Files!Swept)
    <1>1. CASE closing.then = "sweep"
        <2>1. Files!Swept = Files!Begun(None, "resweep")
            BY <1>1 DEF Files!Swept
        <2>2. ClosingOk(c, Files!Begun(None, "resweep"))
            BY SweepBegun DEF Sweeps
        <2> QED
            BY <2>1, <2>2
    <1>2. CASE closing.then # "sweep"
        BY <1>2 DEF Files!Swept, ClosingOk
    <1> QED
        BY <1>1, <1>2

\* It closes a descriptor, or stops there.
LEMMA SweepDescKeeps ==
    ASSUME CoreInv, NEW d \in core.descs, NEW closes \in BOOLEAN, Files!SweepDesc(d, closes) PROVE After
    <1> DEFINE c == Files!DescClose(core, d.ptr, closes)
               cl == [closing EXCEPT !.at = d.fd + 1]
    <1>1. Files!Turn(d) /\ core' = c /\ (closing' = cl \/ closing' = Files!Swept)
        BY DEF Files!SweepDesc
    <1>2. /\ Good(core) /\ d.fd + 1 \in Nat
          /\ closing \in Closings /\ closing.file = None /\ closing.then \in Sweeps
        BY <1>1, TurnFacts
    <1>3. Good(c)
        BY <1>2, DescCloseGood
    <1> HIDE DEF c
    <1>4. cl \in Closings /\ cl.file = None /\ cl.then \in Sweeps
        BY <1>2 DEF Closings
    <1> HIDE DEF cl
    <1>5. ClosingOk(c, cl)
        BY <1>4, Sweeping
    <1>6. ClosingOk(c, Files!Swept)
        BY SweptOk
    <1> QED
        BY <1>1, <1>3, <1>5, <1>6 DEF After

\* The core file it closes is closed.
LEMMA CloseThenSweepKeeps ==
    ASSUME CoreInv, Files!CloseThenSweep PROVE After
    <1> DEFINE c == Files!FileCloseEnd(core, closing.file)
               cl == [closing EXCEPT !.file = None]
    <1>1. Files!Emptied /\ closing.then \in Sweeps /\ core' = c /\ closing' = cl
        BY DEF Files!CloseThenSweep, Sweeps
    <1>2. Good(c) /\ closing \in Closings
        BY <1>1, EndClose
    <1> HIDE DEF c
    <1>3. cl \in Closings /\ cl.file = None /\ cl.then \in Sweeps
        BY <1>1, <1>2 DEF Closings, OrNone
    <1> HIDE DEF cl
    <1>4. ClosingOk(c, cl)
        BY <1>3, Sweeping
    <1> QED
        BY <1>1, <1>2, <1>4 DEF After

\* It comes to its end.
LEMMA SweepEndKeeps ==
    ASSUME CoreInv, Files!SweepEnd PROVE After
    <1>1. UNCHANGED core /\ closing' = Files!Swept /\ Good(core)
        BY DEF Files!SweepEnd, CoreInv
    <1>2. ClosingOk(core, Files!Swept)
        BY SweptOk
    <1> QED
        BY <1>1, <1>2 DEF After

\* No file is open.
LEMMA StartGood ==
    ASSUME Files!Init PROVE CoreInv
    <1> DEFINE empty == <<>>
               first == Files!FirstFd
    <1>1. empty \in Seq(Nat) /\ empty \in Seq(BinRecs) /\ empty \in Seq(FileRecs) /\ DOMAIN empty = {} /\ first \in Nat
        BY DEF Files!FirstFd
    <1>2. /\ core = [descs |-> {}, desc |-> None, next_id |-> first, freed_ids |-> empty,
                     maps |-> {}, binfiles |-> empty, cur |-> None, files |-> empty, file |-> None]
          /\ closing = None /\ usage \in Usages
        BY DEF Files!Init
    <1> HIDE DEF empty, first
    <1>3. /\ core \in Cores /\ core.descs = {} /\ core.desc = None /\ core.next_id = first /\ core.freed_ids = empty
          /\ core.maps = {} /\ core.binfiles = empty /\ core.cur = None /\ core.files = empty /\ core.file = None
        BY <1>1, <1>2 DEF Cores, OrNone
    <1>4. FilesOk(core.files) /\ Listed(BinRecs, core.binfiles)
        BY <1>1, <1>3 DEF FilesOk, Listed
    <1>5. DescsOk(core.descs) /\ MapsOk(core.maps)
        BY <1>3, FS_EmptySet DEF DescsOk, MapsOk
    <1>6. PoolOk(core.next_id, core.freed_ids, core.descs)
        BY <1>1, <1>3 DEF PoolOk, Vec
    <1>7. Parts(core)
        BY <1>3, <1>4, <1>5, <1>6 DEF Parts
    <1>8. Currents(core) /\ PointsTo(core) /\ Owners(core)
        BY <1>1, <1>3 DEF Currents, PointsTo, Owners
    <1>9. Good(core)
        BY <1>3, <1>7, <1>8 DEF Good, Weak
    <1> QED
        BY <1>2, <1>9 DEF CoreInv, ClosingOk

\* Every command and every turn of a loop leaves what it found.
LEMMA StepKeeps ==
    ASSUME CoreInv, Files!Step PROVE After
    <1>1. CASE Files!Closing
        <2>1. ASSUME NEW closes \in Files!Closes,
                     Files!CloseNext(closes)
                     \/ \E d \in core.descs : Files!SweepFile(d, closes) \/ Files!SweepDesc(d, closes)
              PROVE  After
            BY <2>1, UsageOk, CloseNextKeeps, SweepFileKeeps, SweepDescKeeps
        <2> QED
            BY <1>1, <2>1, CloseMapKeeps, CloseExtraKeeps, CloseBinKeeps, CloseEndKeeps, CloseThenLoadKeeps,
               CloseThenKeepKeeps, CloseThenForgetKeeps, CloseThenSweepKeeps, SweepEndKeeps DEF Files!Closing
    <1>2. CASE Files!Open \/ Files!OpenInterrupted \/ Files!OpenNobin \/ Files!DeleteAllBins \/ Files!CloseRest
               \/ Files!ReopenFileFails
        BY <1>2, OpenKeeps, OpenInterruptedKeeps, OpenNobinKeeps, DeleteAllBinsKeeps, CloseRestKeeps, ReopenFileFailsKeeps
    <1>3. CASE \E obj \in Files!Loads : Files!Load(obj) \/ \E obj2 \in Files!Loads : Files!OpenMany(obj, obj2)
        BY <1>3, OpenManyKeeps, LoadKeeps
    <1>4. CASE \E m \in Files!Ptrs(core.maps) : Files!DeleteMap(m)
        BY <1>4, DeleteMapKeeps
    <1>5. CASE \E b \in Files!Ptrs(Files!ToSet(core.binfiles)) :
                 Files!Raise(b) \/ \E at \in Files!Ptrs(Files!ToSet(core.binfiles)) \cup {None} : Files!DeleteBin(b, at)
        BY <1>5, RaiseKeeps, DeleteBinKeeps
    <1>6. CASE \E cf \in Files!Ptrs(Files!ToSet(core.files)) : Files!UseFile(cf)
        BY <1>6, UseFileKeeps
    <1>7. ASSUME NEW closes \in Files!Closes,
                 \/ Files!CloseAll(closes)
                 \/ \E d \in Files!Ptrs(core.descs) : Files!Reopen(d, closes) \/ Files!CloseDesc(d, closes)
                 \/ \E cf \in Files!Ptrs(Files!ToSet(core.files)) : Files!CloseFile(cf, closes)
                 \/ \E then \in {"keep", "forget"} : Files!ReopenFile(then, None, closes)
                 \/ \E obj \in Files!Loads : Files!ReopenFile("load", obj, closes)
          PROVE  After
        <2>1. closes \in BOOLEAN /\ None \in Files!Loads /\ {"keep", "forget"} \subseteq Reopens /\ "load" \in Reopens
            BY UsageOk DEF Files!Loads, Reopens
        <2>2. CASE Files!CloseAll(closes)
            BY <2>1, <2>2, CloseAllKeeps
        <2>3. CASE \E d \in Files!Ptrs(core.descs) : Files!Reopen(d, closes) \/ Files!CloseDesc(d, closes)
            BY <2>1, <2>3, ReopenKeeps, CloseDescKeeps
        <2>4. CASE \E cf \in Files!Ptrs(Files!ToSet(core.files)) : Files!CloseFile(cf, closes)
            BY <2>1, <2>4, CloseFileKeeps
        <2>5. CASE \E then \in {"keep", "forget"} : Files!ReopenFile(then, None, closes)
            BY <2>1, <2>5, ReopenFileKeeps
        <2>6. CASE \E obj \in Files!Loads : Files!ReopenFile("load", obj, closes)
            BY <2>1, <2>6, ReopenFileKeeps
        <2> QED
            BY <1>7, <2>2, <2>3, <2>4, <2>5, <2>6
    <1> QED
        BY <1>1, <1>2, <1>3, <1>4, <1>5, <1>6, <1>7 DEF Files!Step

\* A list with different pointers has as many as it is long.
LEMMA ListCounted ==
    ASSUME NEW T, NEW list, Listed(T, list)
    PROVE  Files!Cardinality(Files!Ptrs(Files!ToSet(list))) = Len(list)
    <1> DEFINE P == Files!Ptrs(Files!ToSet(list))
               n == Len(list)
               f == [i \in 1 .. n |-> list[i].ptr]
    <1>1. n \in Nat /\ DOMAIN list = 1 .. n /\ \A i, j \in 1 .. n : list[i].ptr = list[j].ptr => i = j
        BY DEF Listed
    <1>2. P = {list[i].ptr : i \in 1 .. n}
        BY <1>1 DEF Files!Ptrs, Files!ToSet
    <1> HIDE DEF P
    <1>3. f \in Bijection(1 .. n, P)
        BY <1>1, <1>2 DEF Bijection, Injection, Surjection, IsInjective
    <1>4. IsFiniteSet(1 .. n) /\ Cardinality(1 .. n) = n
        BY <1>1, FS_Interval
    <1> HIDE DEF f, n
    <1>5. Cardinality(P) = n
        <2>1. ExistsBijection(1 .. n, P)
            BY <1>3 DEF ExistsBijection
        <2> QED
            BY <1>4, <2>1, FS_Bijection
    <1> QED
        BY <1>5 DEF P, n, Files!Cardinality, Cardinality

\* What the invariant says of core files, maps, descriptors and binaries.
LEMMA InvOwned ==
    ASSUME CoreInv PROVE FilesOwned
    <1>1. Good(core) /\ Weak(core) /\ Parts(core) /\ Currents(core) /\ PointsTo(core) /\ Owners(core)
        BY DEF CoreInv, Good, Weak
    <1>2. \A p : HasPtr(core.descs, p) <=> p \in Files!Ptrs(core.descs)
        BY DEF HasPtr, Files!Ptrs
    <1>3. \A p : HasPtr(core.maps, p) <=> p \in Files!Ptrs(core.maps)
        BY DEF HasPtr, Files!Ptrs
    <1>4. \A list, p : InList(list, p) <=> p \in Files!Ptrs(Files!ToSet(list))
        BY DEF InList, Files!Ptrs, Files!ToSet
    <1>5. \A v, p : InVec(v, p) <=> p \in Files!ToSet(v)
        BY DEF InVec, Files!ToSet
    <1>6. \A f \in Files!ToSet(core.files) : \E k \in DOMAIN core.files : f = core.files[k]
        BY DEF Files!ToSet
    <1>7. Files!TypeOK
        <2>1. \A S \in {core.descs, core.maps} : \A x, y \in S : x.ptr = y.ptr => x = y
            BY <1>1 DEF Parts, DescsOk, MapsOk
        <2>2. \A d, e \in core.descs : d.fd = e.fd => d = e
            BY <1>1 DEF Parts, DescsOk
        <2>3. Files!Cardinality(Files!Ptrs(Files!ToSet(core.binfiles))) = Len(core.binfiles)
            BY <1>1, ListCounted DEF Parts
        <2>4. Files!Cardinality(Files!Ptrs(Files!ToSet(core.files))) = Len(core.files)
            BY <1>1, ListCounted DEF Parts, FilesOk
        <2>5. \A f \in Files!ToSet(core.files) : \A vec \in {f.maps, f.extra_files, f.binfiles} : Files!IsInjective(vec)
            <3> SUFFICES ASSUME NEW f \in Files!ToSet(core.files), NEW vec \in {f.maps, f.extra_files, f.binfiles}
                         PROVE  Files!IsInjective(vec)
                OBVIOUS
            <3>1. Vec(vec)
                BY <1>1, <1>6 DEF Parts, FilesOk
            <3> QED
                BY <3>1 DEF Vec, Files!IsInjective
        <2>6. closing # None => closing.file \in Files!NoneOr(Files!Ptrs(Files!ToSet(core.files)))
            BY <1>4 DEF CoreInv, ClosingOk, Files!NoneOr
        <2>7. \A list \in {core.binfiles, core.files} : Files!Cardinality(Files!Ptrs(Files!ToSet(list))) = Len(list)
            BY <2>3, <2>4
        <2> QED
            BY <2>1, <2>2, <2>5, <2>6, <2>7 DEF Files!TypeOK
    <1>8. Files!NoDangling
        <2>1. core.file \in Files!NoneOr(Files!Ptrs(Files!ToSet(core.files)))
            BY <1>1, <1>4 DEF Currents, Files!NoneOr
        <2>2. core.desc \in Files!NoneOr(Files!Ptrs(core.descs))
            BY <1>1, <1>2 DEF Currents, Files!NoneOr
        <2>3. core.cur \in Files!NoneOr(Files!Ptrs(Files!ToSet(core.binfiles)))
            BY <1>1, <1>4 DEF Currents, Files!NoneOr
        <2>4. ASSUME NEW f \in Files!ToSet(core.files)
              PROVE  /\ Files!ToSet(f.maps) \subseteq Files!Ptrs(core.maps)
                     /\ Files!ToSet(f.extra_files) \subseteq Files!Ptrs(core.descs)
                     /\ Files!ToSet(f.binfiles) \subseteq Files!Ptrs(Files!ToSet(core.binfiles))
            <3>1. PICK k \in DOMAIN core.files : f = core.files[k]
                BY <1>6
            <3>2. \A p \in Files!ToSet(f.maps) : p \in Files!Ptrs(core.maps)
                BY <1>1, <1>3, <1>5, <3>1 DEF PointsTo
            <3>3. \A p \in Files!ToSet(f.extra_files) : p \in Files!Ptrs(core.descs)
                <4>1. \A p \in Files!ToSet(f.extra_files) : HasPtr(core.descs, p)
                    BY <1>1, <1>5, <3>1 DEF PointsTo, HasPtr
                <4> QED
                    BY <1>2, <4>1
            <3>4. \A p \in Files!ToSet(f.binfiles) : p \in Files!Ptrs(Files!ToSet(core.binfiles))
                BY <1>1, <1>4, <1>5, <3>1 DEF PointsTo
            <3> QED
                BY <3>2, <3>3, <3>4
        <2> QED
            BY <2>1, <2>2, <2>3, <2>4 DEF Files!NoDangling
    <1>9. Files!MapsHaveOwner
        <2> SUFFICES ASSUME NEW m \in core.maps
                     PROVE  /\ Files!DescGet(core, m.fd) # None
                            /\ m.cf # None => \E f \in Files!ToSet(core.files) : f.ptr = m.cf /\ m.ptr \in Files!ToSet(f.maps)
            BY DEF Files!MapsHaveOwner
        <2>1. LiveFd(core, m.fd)
            BY <1>1 DEF Good
        <2>2. Files!DescGet(core, m.fd) # None
            BY <1>1, <2>1, DescGetIs
        <2>3. ASSUME m.cf # None PROVE \E f \in Files!ToSet(core.files) : f.ptr = m.cf /\ m.ptr \in Files!ToSet(f.maps)
            <3>1. PICK k \in DOMAIN core.files : core.files[k].ptr = m.cf /\ InVec(core.files[k].maps, m.ptr)
                BY <1>1, <2>3 DEF Owners
            <3>2. core.files[k] \in Files!ToSet(core.files)
                BY DEF Files!ToSet
            <3> QED
                BY <1>5, <3>1, <3>2
        <2> QED
            BY <2>2, <2>3
    <1>10. Files!VfilesHaveBinary
        BY <1>1, <1>4 DEF Owners, Files!VfilesHaveBinary, Files!NoneOr
    <1> QED
        BY <1>7, <1>8, <1>9, <1>10 DEF FilesOwned, Files!FilesOwned

\* The files of the core, whatever is opened, loaded, deleted and closed.
THEOREM FilesAlwaysOwned == MCSpec => []FilesOwned
    <1>1. MCInit => CoreInv
        BY StartGood DEF MCInit
    <1>2. CoreInv /\ [MCNext]_<<part, vars, files, usage>> => CoreInv'
        <2> SUFFICES ASSUME CoreInv, [MCNext]_<<part, vars, files, usage>> PROVE CoreInv'
            OBVIOUS
        <2>1. CASE UNCHANGED <<core, closing, usage>>
            BY <2>1 DEF CoreInv
        <2>2. CASE Files!Next
            <3>1. After /\ usage' = usage
                BY <2>2, StepKeeps DEF Files!Next
            <3> QED
                BY <3>1 DEF After, CoreInv
        <2> QED
            BY <2>1, <2>2 DEF MCNext, files
    <1>3. CoreInv => FilesOwned
        BY InvOwned
    <1> QED
        BY <1>1, <1>2, <1>3, PTL DEF MCSpec

-----------------------------------------------------------------------------
(* The search of librz/search/search.c: loops, lists and sorting.          *)

\* What the next value of a loop of n rounds may be, from the round and the value before.
Rounds(V, n, G) == \A k \in 1 .. n : \A v \in V : G[<<k, v>>] \in V

\* The values, from v on.
IsLoop(h, V, v, n, G) == h \in [0 .. n -> V] /\ h[0] = v /\ \A k \in 1 .. n : h[k] = G[<<k, h[k - 1]>>]

\* It has values.
LEMMA LoopExists ==
    ASSUME NEW V, NEW v \in V, NEW n \in Nat, NEW G, Rounds(V, n, G)
    PROVE  \E h : IsLoop(h, V, v, n, G)
    <1> USE DEF Rounds
    <1> DEFINE Values(m, h) == h \in [0 .. m -> V] /\ h[0] = v /\ \A k \in 1 .. m : h[k] = G[<<k, h[k - 1]>>]
               S == {m \in 0 .. n : \E h : Values(m, h)}
    <1>1. 0 \in S
        <2>1. Values(0, [k \in 0 .. 0 |-> v])
            OBVIOUS
        <2> HIDE DEF Values
        <2> QED
            BY <2>1
    <1>2. ASSUME NEW m \in 0 .. n - 1, m \in S PROVE m + 1 \in S
        <2>1. PICK h : Values(m, h)
            BY <1>2
        <2> DEFINE g == [k \in 0 .. m + 1 |-> IF k = m + 1 THEN G[<<m + 1, h[m]>>] ELSE h[k]]
        <2>2. G[<<m + 1, h[m]>>] \in V
            BY <2>1
        <2>3. \A k \in 0 .. m : g[k] = h[k] /\ g[k] \in V
            BY <2>1
        <2>4. g[m + 1] = G[<<m + 1, h[m]>>]
            OBVIOUS
        <2>5. g \in [0 .. m + 1 -> V]
            BY <2>1, <2>2
        <2> HIDE DEF g
        <2>6. g[0] = v
            BY <2>1, <2>3
        <2>7. ASSUME NEW k \in 1 .. m + 1 PROVE g[k] = G[<<k, g[k - 1]>>]
            <3>1. CASE k = m + 1
                BY <3>1, <2>3, <2>4
            <3>2. CASE k \in 1 .. m
                <4>1. g[k] = h[k] /\ g[k - 1] = h[k - 1]
                    BY <3>2, <2>3
                <4> QED
                    BY <4>1, <3>2, <2>1
            <3> QED
                BY <3>1, <3>2
        <2>8. Values(m + 1, g)
            BY <2>5, <2>6, <2>7
        <2> QED
            BY <2>8
    <1>3. n \in S
        <2> HIDE DEF S
        <2>1. 0 .. n \subseteq S
            BY <1>1, <1>2, Induction
        <2> QED
            BY <2>1
    <1> QED
        BY <1>3 DEF IsLoop

\* An element of a sequence.
Has(s, x) == \E i \in DOMAIN s : s[i] = x

\* rz_th_queue_push of one hit list behind another.
LEMMA HasConcat ==
    ASSUME NEW V, NEW s \in Seq(V), NEW t \in Seq(V)
    PROVE  s \o t \in Seq(V) /\ \A x : Has(s \o t, x) <=> Has(s, x) \/ Has(t, x)
    <1>1. /\ s \o t \in Seq(V) /\ Len(s \o t) = Len(s) + Len(t) /\ Len(s) \in Nat /\ Len(t) \in Nat
          /\ DOMAIN s = 1 .. Len(s) /\ DOMAIN t = 1 .. Len(t) /\ DOMAIN (s \o t) = 1 .. Len(s) + Len(t)
          /\ \A i \in 1 .. Len(s) : (s \o t)[i] = s[i]
          /\ \A i \in 1 .. Len(t) : (s \o t)[Len(s) + i] = t[i]
        OBVIOUS
    <1>2. ASSUME NEW x, Has(s \o t, x) PROVE Has(s, x) \/ Has(t, x)
        <2>1. PICK i \in DOMAIN (s \o t) : (s \o t)[i] = x
            BY <1>2 DEF Has
        <2>2. CASE i <= Len(s)
            BY <1>1, <2>1, <2>2 DEF Has
        <2>3. CASE i > Len(s)
            <3>1. i - Len(s) \in 1 .. Len(t) /\ i = Len(s) + (i - Len(s))
                BY <1>1, <2>1, <2>3
            <3> QED
                BY <1>1, <2>1, <3>1 DEF Has
        <2> QED
            BY <1>1, <2>1, <2>2, <2>3
    <1>3. ASSUME NEW x, Has(s, x) \/ Has(t, x) PROVE Has(s \o t, x)
        <2>1. CASE Has(s, x)
            <3>1. PICK i \in DOMAIN s : s[i] = x
                BY <2>1 DEF Has
            <3>2. i \in DOMAIN (s \o t) /\ (s \o t)[i] = x
                BY <1>1, <3>1
            <3> QED
                BY <3>2 DEF Has
        <2>2. CASE Has(t, x)
            <3>1. PICK i \in DOMAIN t : t[i] = x
                BY <2>2 DEF Has
            <3>2. Len(s) + i \in DOMAIN (s \o t) /\ (s \o t)[Len(s) + i] = x
                BY <1>1, <3>1
            <3> QED
                BY <3>2 DEF Has
        <2> QED
            BY <1>3, <2>1, <2>2
    <1> QED
        BY <1>1, <1>2, <1>3

\* The hits of all patterns, one list behind the other.
LEMMA FlattenIs ==
    ASSUME NEW V, NEW ss \in Seq(Seq(V))
    PROVE  /\ FlattenSeq(ss) \in Seq(V)
           /\ \A x : Has(FlattenSeq(ss), x) <=> \E k \in DOMAIN ss : Has(ss[k], x)
    <1> DEFINE n == Len(ss)
               Is(f) == f = [i \in 1 .. n |-> IF i = 1 THEN ss[i] ELSE f[i - 1] \o ss[i]]
               f == CHOOSE f : Is(f)
    <1>1. n \in Nat /\ DOMAIN ss = 1 .. n /\ \A k \in 1 .. n : ss[k] \in Seq(V)
        OBVIOUS
    <1>2. CASE n = 0
        <2>1. ss = <<>> /\ FlattenSeq(ss) = ss
            BY <1>2 DEF FlattenSeq
        <2>2. \A x : ~Has(<<>>, x) /\ <<>> \in Seq(V) /\ DOMAIN ss = {}
            BY <2>1 DEF Has
        <2> QED
            BY <2>1, <2>2
    <1>3. CASE n # 0
        <2>1. FlattenSeq(ss) = f[n]
            BY <1>3 DEF FlattenSeq
        <2> DEFINE G == [x \in (1 .. n) \X Seq(V) |-> x[2] \o ss[x[1]]]
        <2>2. \A k \in 1 .. n : \A v \in Seq(V) : G[<<k, v>>] = v \o ss[k] /\ G[<<k, v>>] \in Seq(V)
            <3> SUFFICES ASSUME NEW k \in 1 .. n, NEW v \in Seq(V)
                         PROVE  G[<<k, v>>] = v \o ss[k] /\ G[<<k, v>>] \in Seq(V)
                OBVIOUS
            <3>1. ss[k] \in Seq(V) /\ <<k, v>> \in (1 .. n) \X Seq(V)
                BY <1>1
            <3> HIDE DEF n
            <3>2. G[<<k, v>>] = v \o ss[k]
                BY <3>1
            <3> HIDE DEF G
            <3>3. v \o ss[k] \in Seq(V)
                BY <3>1
            <3> QED
                BY <3>2, <3>3
        <2>3. <<>> \in Seq(V) /\ \A k \in 1 .. n : <<>> \o ss[k] = ss[k]
            BY <1>1
        <2> HIDE DEF n, G, f
        <2>4. PICK h : IsLoop(h, Seq(V), <<>>, n, G)
            <3>1. Rounds(Seq(V), n, G)
                BY <2>2 DEF Rounds
            <3> QED
                BY <1>1, <2>3, <3>1, LoopExists
        <2>5. h \in [0 .. n -> Seq(V)] /\ h[0] = <<>> /\ \A k \in 1 .. n : h[k] = h[k - 1] \o ss[k]
            <3>1. h \in [0 .. n -> Seq(V)] /\ h[0] = <<>> /\ \A k \in 1 .. n : h[k] = G[<<k, h[k - 1]>>]
                BY <2>4 DEF IsLoop
            <3>2. ASSUME NEW k \in 1 .. n PROVE h[k] = h[k - 1] \o ss[k]
                <4>1. h[k - 1] \in Seq(V)
                    BY <1>1, <3>1
                <4> QED
                    BY <2>2, <3>1, <4>1
            <3> QED
                BY <3>1, <3>2
        <2> DEFINE g == [i \in 1 .. n |-> h[i]]
        <2>6. Is(g)
            <3>1. ASSUME NEW i \in 1 .. n PROVE h[i] = IF i = 1 THEN ss[i] ELSE g[i - 1] \o ss[i]
                <4>1. CASE i = 1
                    <5>1. 1 \in 1 .. n /\ <<>> \o ss[1] = ss[1]
                        BY <2>3, <4>1
                    <5>2. h[1] = h[0] \o ss[1]
                        <6>1. h[1] = h[1 - 1] \o ss[1]
                            BY <2>5, <5>1
                        <6> QED
                            BY <6>1
                    <5>3. h[1] = ss[1]
                        BY <2>5, <5>1, <5>2
                    <5> QED
                        BY <4>1, <5>3
                <4>2. CASE i # 1
                    <5>1. i - 1 \in 1 .. n
                        BY <1>1, <4>2
                    <5> QED
                        BY <2>5, <4>2, <5>1
                <4> QED
                    BY <4>1, <4>2
            <3> QED
                BY <3>1
        <2>7. Is(f)
            <3> HIDE DEF Is, g
            <3> QED
                BY <2>6 DEF f
        <2> DEFINE S == {k \in 0 .. n : k # 0 => /\ f[k] \in Seq(V)
                                                 /\ \A x : Has(f[k], x) <=> \E j \in 1 .. k : Has(ss[j], x)}
        <2>8. ASSUME NEW k \in 0 .. n - 1, k \in S PROVE k + 1 \in S
            <3>1. k + 1 \in 1 .. n /\ k \in Nat
                BY <1>1
            <3>2. CASE k = 0
                <4>1. f[1] = ss[1]
                    BY <2>7, <3>1, <3>2
                <4>2. \A j : j \in 1 .. 1 <=> j = 1
                    OBVIOUS
                <4>3. f[1] \in Seq(V) /\ \A x : Has(f[1], x) <=> \E j \in 1 .. 1 : Has(ss[j], x)
                    BY <1>1, <3>1, <3>2, <4>1, <4>2
                <4> QED
                    BY <3>1, <3>2, <4>3
            <3>3. CASE k # 0
                <4>1. k + 1 # 1 /\ (k + 1) - 1 = k
                    BY <3>1, <3>3
                <4>2. f[k + 1] = f[(k + 1) - 1] \o ss[k + 1]
                    BY <2>7, <3>1, <4>1
                <4>3. f[k + 1] = f[k] \o ss[k + 1]
                    BY <4>1, <4>2
                <4>4. f[k] \in Seq(V) /\ \A x : Has(f[k], x) <=> \E j \in 1 .. k : Has(ss[j], x)
                    BY <2>8, <3>3
                <4>5. ss[k + 1] \in Seq(V)
                    BY <1>1, <3>1
                <4>6. f[k + 1] \in Seq(V) /\ \A x : Has(f[k + 1], x) <=> Has(f[k], x) \/ Has(ss[k + 1], x)
                    BY <4>3, <4>4, <4>5, HasConcat
                <4>7. \A j : j \in 1 .. k + 1 <=> j \in 1 .. k \/ j = k + 1
                    BY <3>1
                <4>8. \A x : Has(f[k + 1], x) <=> \E j \in 1 .. k + 1 : Has(ss[j], x)
                    BY <4>4, <4>6, <4>7
                <4> QED
                    BY <3>1, <4>6, <4>8
            <3> QED
                BY <3>2, <3>3
        <2>9. n \in S
            <3>1. 0 \in S
                BY <1>1
            <3> HIDE DEF S
            <3>2. 0 .. n \subseteq S
                BY <1>1, <2>8, <3>1, Induction
            <3> QED
                BY <1>1, <3>2
        <2> QED
            BY <1>1, <1>3, <2>1, <2>9
    <1> QED
        BY <1>2, <1>3

\* rz_th_queue_push of one hit.
LEMMA HasAppend ==
    ASSUME NEW V, NEW s \in Seq(V), NEW y \in V
    PROVE  Append(s, y) \in Seq(V) /\ \A x : Has(Append(s, y), x) <=> Has(s, x) \/ x = y
    <1>1. /\ Append(s, y) \in Seq(V) /\ Len(s) \in Nat /\ DOMAIN s = 1 .. Len(s)
          /\ DOMAIN Append(s, y) = 1 .. Len(s) + 1
          /\ \A i \in 1 .. Len(s) : Append(s, y)[i] = s[i]
          /\ Append(s, y)[Len(s) + 1] = y
        OBVIOUS
    <1>2. \A i : i \in 1 .. Len(s) + 1 <=> i \in 1 .. Len(s) \/ i = Len(s) + 1
        BY <1>1
    <1> QED
        BY <1>1, <1>2 DEF Has

HitRecs == [address : 0 .. W - 1, size : Nat]
PatternRecs == [len : Nat \ {0}, at : SUBSET (0 .. W - 1)]

\* A place of the pattern that lies in the window.
InWindow(p, win, x) ==
    \E a \in p.at : a >= win.addr /\ a + p.len <= win.addr + win.size /\ x = [address |-> a, size |-> p.len]

\* One round of the loop of bytes_find.
Round(p, win, n, last) ==
    IF \/ n - 1 < last.from \/ p.len > win.size - (n - 1)
       \/ win.addr + (n - 1) \notin p.at
    THEN last
    ELSE [from |-> (n - 1) + (IF Overlap THEN 1 ELSE p.len),
          hits |-> Append(last.hits, [address |-> win.addr + (n - 1), size |-> p.len])]

\* What the loop has found in n rounds: only places in the window, and all of them if hits may overlap.
FoundBy(p, win, n, v) ==
    /\ \A x : Has(v.hits, x) => InWindow(p, win, x)
    /\ Overlap => /\ v.from <= n
                  /\ \A a \in p.at : /\ a >= win.addr /\ a < win.addr + n
                                     /\ a + p.len <= win.addr + win.size
                                     => Has(v.hits, [address |-> a, size |-> p.len])

\* The last place before an address.
LEMMA LastPlace ==
    ASSUME NEW a \in Nat, NEW b \in Nat, NEW n \in Nat, a < b + n, a # b + (n - 1)
    PROVE  a < b + (n - 1)
    OBVIOUS

\* A round of bytes_find finds what is at its offset.
LEMMA RoundFinds ==
    ASSUME NEW p \in PatternRecs, NEW win \in Windows, NEW n \in 1 .. win.size,
           NEW v \in [from : Nat, hits : Hits]
    PROVE  /\ Round(p, win, n, v) \in [from : Nat, hits : Hits]
           /\ FoundBy(p, win, n - 1, v) => FoundBy(p, win, n, Round(p, win, n, v))
    <1> DEFINE a0 == win.addr + (n - 1)
               y == [address |-> a0, size |-> p.len]
               w == Round(p, win, n, v)
    <1>1. /\ p.len \in Nat /\ p.len >= 1 /\ p.at \in SUBSET (0 .. W - 1) /\ W \in Nat
          /\ win.addr \in Nat /\ win.size \in Nat /\ n \in Nat /\ v.from \in Nat /\ v.hits \in Seq(HitRecs)
        BY SearchAssumption DEF PatternRecs, Windows, Hits, HitRecs
    <1>2. CASE n - 1 < v.from \/ p.len > win.size - (n - 1) \/ a0 \notin p.at
        <2>1. w = v
            BY <1>2 DEF Round
        <2>2. ASSUME FoundBy(p, win, n - 1, v) PROVE FoundBy(p, win, n, v)
            <3>1. ASSUME Overlap, NEW a \in p.at, a >= win.addr, a < win.addr + n,
                         a + p.len <= win.addr + win.size
                  PROVE  a < win.addr + (n - 1)
                <4>1. a \in Nat
                    BY <1>1
                <4>2. v.from <= n - 1
                    BY <2>2, <3>1 DEF FoundBy
                <4>3. ~(n - 1 < v.from)
                    BY <1>1, <4>2
                <4>4. a = a0 => ~(p.len > win.size - (n - 1))
                    BY <1>1, <3>1, SMTT(30)
                <4>5. a # a0
                    BY <1>2, <4>3, <4>4
                <4> QED
                    BY <1>1, <3>1, <4>1, <4>5, LastPlace
            <3> QED
                BY <1>1, <2>2, <3>1 DEF FoundBy
        <2> QED
            BY <2>1, <2>2
    <1>3. CASE ~(n - 1 < v.from \/ p.len > win.size - (n - 1) \/ a0 \notin p.at)
        <2>1. w = [from |-> (n - 1) + (IF Overlap THEN 1 ELSE p.len), hits |-> Append(v.hits, y)]
            BY <1>3 DEF Round
        <2>2. y \in HitRecs /\ InWindow(p, win, y)
            <3>1. a0 \in p.at /\ a0 \in 0 .. W - 1 /\ a0 >= win.addr
                BY <1>1, <1>3
            <3>2. p.len <= win.size - (n - 1)
                BY <1>1, <1>3
            <3>3. a0 + p.len <= win.addr + win.size
                BY <1>1, <3>2
            <3> HIDE DEF a0
            <3> QED
                BY <1>1, <3>1, <3>3 DEF HitRecs, InWindow
        <2> HIDE DEF y, w
        <2>3. w.hits \in Seq(HitRecs) /\ \A x : Has(w.hits, x) <=> Has(v.hits, x) \/ x = y
            BY <1>1, <2>1, <2>2, HasAppend
        <2>4. w.from \in Nat /\ (Overlap => w.from = n)
            BY <1>1, <2>1
        <2>5. w \in [from : Nat, hits : Hits]
            BY <2>1, <2>3, <2>4 DEF Hits, HitRecs
        <2>6. ASSUME FoundBy(p, win, n - 1, v) PROVE FoundBy(p, win, n, w)
            <3>1. ASSUME NEW a \in p.at, a >= win.addr, a < win.addr + n, a + p.len <= win.addr + win.size, Overlap
                  PROVE  Has(w.hits, [address |-> a, size |-> p.len])
                <4>1. CASE a = a0
                    BY <2>3, <4>1 DEF y
                <4>2. CASE a # a0
                    <5>1. a \in Nat
                        BY <1>1
                    <5>2. a < win.addr + (n - 1)
                        BY <1>1, <3>1, <4>2, <5>1, LastPlace
                    <5> QED
                        BY <2>3, <2>6, <3>1, <5>2 DEF FoundBy
                <4> QED
                    BY <4>1, <4>2
            <3>2. \A x : Has(w.hits, x) => InWindow(p, win, x)
                BY <2>2, <2>3, <2>6 DEF FoundBy
            <3> QED
                BY <1>1, <2>4, <3>1, <3>2 DEF FoundBy
        <2> QED
            BY <2>5, <2>6 DEF w
    <1> QED
        BY <1>2, <1>3

\* bytes_find: hits are places of the pattern in the window, and all of them if they may overlap.
LEMMA MatchesIs ==
    ASSUME NEW p \in PatternRecs, NEW win \in Windows
    PROVE  /\ Matches(p, win) \in Hits
           /\ \A x : Has(Matches(p, win), x) => InWindow(p, win, x)
           /\ Overlap => \A x : InWindow(p, win, x) => Has(Matches(p, win), x)
    <1> DEFINE N == win.size
               V == [from : Nat, hits : Hits]
               v0 == [from |-> 0, hits |-> <<>>]
               Is(f) == f = [n \in 0 .. N |-> IF n = 0 THEN v0 ELSE Round(p, win, n, f[n - 1])]
               f == CHOOSE f : Is(f)
               G == [x \in (1 .. N) \X V |-> Round(p, win, x[1], x[2])]
    <1>1. Matches(p, win) = f[N].hits
        BY DEF Matches, Round
    <1>2. N \in Nat /\ v0 \in V
        BY SearchAssumption DEF Windows, Hits
    <1>3. \A n \in 1 .. N : \A v \in V : G[<<n, v>>] = Round(p, win, n, v) /\ G[<<n, v>>] \in V
        <2> SUFFICES ASSUME NEW n \in 1 .. N, NEW v \in V
                     PROVE  G[<<n, v>>] = Round(p, win, n, v) /\ Round(p, win, n, v) \in V
            OBVIOUS
        <2>1. Round(p, win, n, v) \in V
            BY RoundFinds
        <2> HIDE DEF V, N
        <2> QED
            BY <2>1
    <1> HIDE DEF N, G, v0, V
    <1>4. PICK h : IsLoop(h, V, v0, N, G)
        <2>1. Rounds(V, N, G)
            BY <1>3 DEF Rounds
        <2> QED
            BY <1>2, <2>1, LoopExists
    <1>5. h \in [0 .. N -> V] /\ h[0] = v0 /\ \A n \in 1 .. N : h[n] = Round(p, win, n, h[n - 1])
        <2>1. h \in [0 .. N -> V] /\ h[0] = v0 /\ \A n \in 1 .. N : h[n] = G[<<n, h[n - 1]>>]
            BY <1>4 DEF IsLoop
        <2>2. ASSUME NEW n \in 1 .. N PROVE h[n] = Round(p, win, n, h[n - 1])
            <3>1. h[n - 1] \in V
                BY <1>2, <2>1
            <3> QED
                BY <1>3, <2>1, <3>1
        <2> QED
            BY <2>1, <2>2
    <1>6. Is(h)
        <2>1. ASSUME NEW n \in 0 .. N PROVE h[n] = IF n = 0 THEN v0 ELSE Round(p, win, n, h[n - 1])
            <3>1. n = 0 \/ n \in 1 .. N
                BY <1>2
            <3> QED
                BY <1>5, <3>1
        <2> QED
            BY <1>5, <2>1
    <1>7. Is(f)
        <2> HIDE DEF Is
        <2> QED
            BY <1>6
    <1> HIDE DEF f
    <1> DEFINE S == {n \in 0 .. N : f[n] \in V /\ FoundBy(p, win, n, f[n])}
    <1>8. 0 \in S
        <2>1. f[0] = v0 /\ 0 \in 0 .. N
            BY <1>2, <1>7
        <2>2. \A x : ~Has(v0.hits, x)
            BY DEF Has, v0
        <2>3. \A a \in p.at : ~(a >= win.addr /\ a < win.addr + 0)
            BY SearchAssumption DEF PatternRecs, Windows
        <2>4. FoundBy(p, win, 0, v0)
            BY <2>2, <2>3 DEF FoundBy, v0
        <2> QED
            BY <1>2, <2>1, <2>4
    <1>9. ASSUME NEW n \in 0 .. N - 1, n \in S PROVE n + 1 \in S
        <2>1. n + 1 \in 1 .. N /\ (n + 1) - 1 = n /\ n + 1 \in 0 .. N /\ n + 1 # 0
            BY <1>2
        <2>2. f[n + 1] = Round(p, win, n + 1, f[(n + 1) - 1])
            BY <1>7, <2>1
        <2>3. f[n + 1] = Round(p, win, n + 1, f[n])
            BY <2>1, <2>2
        <2>4. f[n] \in V /\ FoundBy(p, win, (n + 1) - 1, f[n])
            BY <1>9, <2>1
        <2>5. f[n + 1] \in V /\ FoundBy(p, win, n + 1, f[n + 1])
            <3> DEFINE m == n + 1
                       u == f[n]
            <3>1. m \in 1 .. win.size /\ u \in [from : Nat, hits : Hits] /\ FoundBy(p, win, m - 1, u)
                BY <2>1, <2>4 DEF N, V
            <3>2. f[m] = Round(p, win, m, u)
                BY <2>3
            <3> HIDE DEF m, u
            <3>3. Round(p, win, m, u) \in [from : Nat, hits : Hits] /\ FoundBy(p, win, m, Round(p, win, m, u))
                BY <3>1, RoundFinds
            <3> QED
                BY <3>2, <3>3 DEF m, V
        <2> QED
            BY <2>1, <2>5
    <1>10. f[N] \in V /\ FoundBy(p, win, N, f[N])
        <2> HIDE DEF S
        <2>1. 0 .. N \subseteq S
            BY <1>2, <1>8, <1>9, Induction
        <2>2. N \in S
            BY <1>2, <2>1
        <2> QED
            BY <2>2 DEF S
    <1>11. f[N].hits \in Hits /\ \A x : Has(f[N].hits, x) => InWindow(p, win, x)
        BY <1>10 DEF V, FoundBy
    <1>12. ASSUME Overlap, NEW x, InWindow(p, win, x) PROVE Has(f[N].hits, x)
        <2>1. PICK a \in p.at : a >= win.addr /\ a + p.len <= win.addr + win.size /\ x = [address |-> a, size |-> p.len]
            BY <1>12 DEF InWindow
        <2>2. a < win.addr + N
            BY <2>1, SearchAssumption DEF PatternRecs, Windows, N
        <2> QED
            BY <1>10, <1>12, <2>1, <2>2 DEF FoundBy
    <1> QED
        BY <1>1, <1>11, <1>12

\* rz_search_hit_cmp orders the hits.
LEMMA HitOrder ==
    ASSUME NEW a \in HitRecs, NEW b \in HitRecs
    PROVE  /\ ~Before(a, a) /\ (Before(a, b) => ~Before(b, a))
           /\ Before(a, b) \/ a = b \/ Before(b, a)
           /\ \A c \in HitRecs : Before(a, b) /\ Before(b, c) => Before(a, c)
    <1>1. /\ a.address \in Nat /\ a.size \in Nat /\ b.address \in Nat /\ b.size \in Nat
          /\ \A c \in HitRecs : c.address \in Nat /\ c.size \in Nat
        BY SearchAssumption DEF HitRecs
    <1>2. a.address = b.address /\ a.size = b.size => a = b
        BY DEF HitRecs
    <1>3. Before(a, b) \/ a = b \/ Before(b, a)
        BY <1>1, <1>2 DEF Before
    <1> QED
        BY <1>1, <1>3 DEF Before

\* A list has finitely many elements.
LEMMA ElementsFinite ==
    ASSUME NEW V, NEW s \in Seq(V)
    PROVE  IsFiniteSet(ToSet(s)) /\ \A x : x \in ToSet(s) <=> Has(s, x)
    <1> DEFINE D == DOMAIN s
               f == [i \in D |-> s[i]]
    <1>1. D = 1 .. Len(s) /\ Len(s) \in Nat
        OBVIOUS
    <1>2. IsFiniteSet(D)
        BY <1>1, FS_Interval
    <1>3. f \in Surjection(D, ToSet(s))
        BY DEF Surjection, ToSet
    <1> HIDE DEF D, f
    <1>4. IsFiniteSet(ToSet(s))
        BY <1>2, <1>3, FS_Surjection
    <1> QED
        BY <1>4 DEF ToSet, Has

\* rz_list_sort and rz_list_sorted_uniq: the same hits, each once, in their order.
LEMMA SortedIs ==
    ASSUME NEW s \in Hits
    PROVE  /\ Sorted(s) \in Hits
           /\ \A x : Has(Sorted(s), x) <=> Has(s, x)
           /\ \A i, j \in DOMAIN Sorted(s) : i < j => Before(Sorted(s)[i], Sorted(s)[j])
    <1> DEFINE S == ToSet(s)
               N == Cardinality(S)
               Upto(h) == {g \in S : ~Before(h, g)}
               Place(h) == Cardinality(Upto(h))
               place == [h \in S |-> Place(h)]
               HitAt(k) == CHOOSE h \in S : Place(h) = k
    <1>1. IsFiniteSet(S) /\ (\A x : x \in S <=> Has(s, x)) /\ S \subseteq HitRecs
        <2>1. s \in Seq(HitRecs)
            BY DEF Hits, HitRecs
        <2> QED
            BY <2>1, ElementsFinite DEF Has
    <1>2. N \in Nat
        BY <1>1, FS_CardinalityType
    <1>3. \A x, y \in S : /\ ~Before(x, x) /\ (Before(x, y) => ~Before(y, x)) /\ (Before(x, y) \/ x = y \/ Before(y, x))
                          /\ \A z \in S : Before(x, y) /\ Before(y, z) => Before(x, z)
        BY <1>1, HitOrder
    <1> HIDE DEF S
    <1>4. \A x \in S : x \in Upto(x)
        BY <1>3
    <1>5. ASSUME NEW x \in S PROVE IsFiniteSet(Upto(x)) /\ Place(x) \in 1 .. N
        <2>1. Upto(x) \in SUBSET S /\ x \in Upto(x)
            BY <1>4
        <2> HIDE DEF Upto
        <2>2. IsFiniteSet(Upto(x)) /\ Place(x) <= N
            BY <1>1, <2>1, FS_Subset
        <2>3. Place(x) \in Nat /\ Place(x) # 0
            BY <2>1, <2>2, FS_CardinalityType, FS_EmptySet
        <2> HIDE DEF Place, N
        <2> QED
            BY <1>2, <2>2, <2>3
    <1>6. ASSUME NEW x \in S, NEW y \in S, Before(x, y) PROVE Place(x) < Place(y)
        <2>1. Upto(x) \in SUBSET Upto(y)
            BY <1>3, <1>6
        <2>2. y \notin Upto(x) /\ y \in Upto(y)
            BY <1>3, <1>6
        <2>3. IsFiniteSet(Upto(y)) /\ Place(x) \in Int /\ Place(y) \in Int
            BY <1>2, <1>5
        <2> HIDE DEF Upto
        <2>4. Place(x) <= Place(y) /\ Place(x) # Place(y)
            BY <2>1, <2>2, <2>3, FS_Subset
        <2> HIDE DEF Place
        <2> QED
            BY <2>3, <2>4
    <1>7. \A x \in S : Place(x) \in 1 .. N /\ Place(x) \in Int
        BY <1>2, <1>5
    <1> HIDE DEF Place, N
    <1>8. \A x, y \in S : Place(x) = Place(y) => x = y
        BY <1>3, <1>6, <1>7
    <1>9. \A x, y \in S : Place(x) < Place(y) => Before(x, y)
        BY <1>3, <1>6, <1>7
    <1>10. place \in Surjection(S, 1 .. N)
        <2>1. place \in Injection(S, 1 .. N)
            BY <1>7, <1>8 DEF Injection, IsInjective
        <2>2. IsFiniteSet(1 .. N) /\ Cardinality(1 .. N) = Cardinality(S)
            BY <1>2, FS_Interval DEF N
        <2> HIDE DEF place
        <2> QED
            BY <1>1, <2>1, <2>2, FS_Injection
    <1>11. \A k \in 1 .. N : \E x \in S : Place(x) = k
        BY <1>10 DEF Surjection
    <1>12. \A k \in 1 .. N : HitAt(k) \in S /\ Place(HitAt(k)) = k
        BY <1>11
    <1>13. Sorted(s) = [k \in 1 .. N |-> HitAt(k)]
        BY DEF Sorted, Place, Upto, N, S, HitAt
    <1> HIDE DEF HitAt
    <1>14. Sorted(s) \in Seq(HitRecs) /\ DOMAIN Sorted(s) = 1 .. N /\ \A k \in 1 .. N : Sorted(s)[k] = HitAt(k)
        BY <1>1, <1>2, <1>12, <1>13
    <1>15. Sorted(s) \in Hits
        BY <1>14 DEF Hits, HitRecs
    <1>16. ASSUME NEW x \in S PROVE Has(Sorted(s), x)
        <2>1. Place(x) \in 1 .. N /\ HitAt(Place(x)) = x
            BY <1>7, <1>8, <1>12
        <2> QED
            BY <1>14, <2>1 DEF Has
    <1>17. ASSUME NEW x, Has(Sorted(s), x) PROVE x \in S
        BY <1>12, <1>14, <1>17 DEF Has
    <1>18. ASSUME NEW i \in 1 .. N, NEW j \in 1 .. N, i < j PROVE Before(HitAt(i), HitAt(j))
        BY <1>9, <1>12, <1>18
    <1> QED
        BY <1>1, <1>14, <1>15, <1>16, <1>17, <1>18

\* The limit drops hits from the end.
LEMMA TrimIs ==
    ASSUME NEW s \in Hits, MaxHits \in Nat
    PROVE  /\ Trim(s) \in Hits /\ DOMAIN Trim(s) \subseteq DOMAIN s
           /\ \A i \in DOMAIN Trim(s) : Trim(s)[i] = s[i]
           /\ MaxHits = 0 => Trim(s) = s
           /\ MaxHits # 0 => Len(Trim(s)) <= MaxHits
    <1>1. s \in Seq(HitRecs) /\ Len(s) \in Nat /\ DOMAIN s = 1 .. Len(s) /\ Hits = Seq(HitRecs)
        BY DEF Hits, HitRecs
    <1>2. CASE MaxHits # 0 /\ Len(s) > MaxHits
        <2> DEFINE m == MaxHits
        <2>1. Trim(s) = SubSeq(s, 1, m) /\ m \in Nat /\ m < Len(s)
            BY <1>2 DEF Trim
        <2> HIDE DEF m
        <2>2. /\ SubSeq(s, 1, m) \in Seq(HitRecs) /\ Len(SubSeq(s, 1, m)) = m
              /\ \A i \in 1 .. m : SubSeq(s, 1, m)[i] = s[i]
            BY <1>1, <2>1
        <2>3. DOMAIN SubSeq(s, 1, m) = 1 .. m /\ 1 .. m \subseteq 1 .. Len(s)
            BY <1>1, <2>1, <2>2
        <2> QED
            BY <1>1, <1>2, <2>1, <2>2, <2>3 DEF m
    <1>3. CASE ~(MaxHits # 0 /\ Len(s) > MaxHits)
        <2>1. Trim(s) = s
            BY <1>3 DEF Trim
        <2> QED
            BY <1>1, <1>3, <2>1
    <1> QED
        BY <1>2, <1>3

-----------------------------------------------------------------------------
(* What a search has of each type.                                         *)

\* The elements of a sequence.
LEMMA SeqFacts ==
    ASSUME NEW V, NEW s \in Seq(V)
    PROVE  Len(s) \in Nat /\ DOMAIN s = 1 .. Len(s) /\ \A i \in DOMAIN s : s[i] \in V
    OBVIOUS

\* A sequence, from its elements.
LEMMA SeqFrom ==
    ASSUME NEW V, NEW n \in Nat, NEW s, s = [i \in 1 .. n |-> s[i]], \A i \in 1 .. n : s[i] \in V
    PROVE  s \in Seq(V) /\ Len(s) = n /\ DOMAIN s = 1 .. n
    OBVIOUS

\* The maps to search in and the patterns to search for.
LEMMA InputFacts ==
    /\ W \in Nat \ {0} /\ ChunkSize \in Nat \ {0} /\ ElementSize \in Nat \ {0}
    /\ Len(Maps) \in Nat /\ DOMAIN Maps = 1 .. Len(Maps)
    /\ \A m \in DOMAIN Maps : Maps[m].addr \in 0 .. W - 1 /\ Maps[m].addr \in Nat /\ Maps[m].size \in Nat
    /\ Len(Patterns) \in Nat /\ DOMAIN Patterns = 1 .. Len(Patterns)
    /\ \A k \in DOMAIN Patterns : Patterns[k] \in PatternRecs
    <1>1. W \in Nat \ {0} /\ ChunkSize \in Nat \ {0} /\ ElementSize \in Nat \ {0}
        BY SearchAssumption
    <1> DEFINE M == [addr : 0 .. W - 1, size : Nat]
    <1>2. Maps \in Seq(M) /\ Patterns \in Seq(PatternRecs)
        BY SearchAssumption DEF PatternRecs
    <1>3. \A m \in M : m.addr \in 0 .. W - 1 /\ m.addr \in Nat /\ m.size \in Nat
        BY <1>1
    <1> HIDE DEF M
    <1>4. Len(Maps) \in Nat /\ DOMAIN Maps = 1 .. Len(Maps) /\ \A i \in DOMAIN Maps : Maps[i] \in M
        BY <1>2, SeqFacts
    <1>5. Len(Patterns) \in Nat /\ DOMAIN Patterns = 1 .. Len(Patterns) /\ \A i \in DOMAIN Patterns : Patterns[i] \in PatternRecs
        BY <1>2, SeqFacts
    <1> QED
        BY <1>1, <1>3, <1>4, <1>5

\* The options of a search do not change, and are those of the code.
OptFits == opt \in [match_overlap : BOOLEAN, max_hits : Nat, progress : BOOLEAN, intr : BOOLEAN]

\* A new search.
LEMMA SearchTypeInit ==
    ASSUME SearchInit PROVE SearchTypeOK /\ OptFits
    <1>1. /\ main = "windows" /\ map = 1 /\ windows = <<>> /\ chunk = (IF Maps = <<>> THEN 0 ELSE Maps[1].addr)
          /\ next = 1 /\ stopped = FALSE /\ pc = [t \in Threads |-> "none"]
          /\ window = [t \in Threads |-> 0]
          /\ hits = <<>> /\ loop = TRUE /\ intervals = <<>> /\ closed = FALSE /\ printed = <<>>
          /\ cancel = "none" /\ failed = FALSE /\ interrupted = FALSE /\ ok = FALSE /\ ret = <<>>
        BY DEF SearchInit
    <1>2. W \in Nat /\ W >= 1 /\ Len(Maps) \in Nat /\ (Maps # <<>> => Maps[1].addr \in 0 .. W - 1)
        <2>1. W \in Nat /\ W >= 1 /\ Len(Maps) \in Nat
            BY InputFacts
        <2>2. ASSUME Maps # <<>> PROVE 1 \in DOMAIN Maps
            BY <2>2, SearchAssumption
        <2> QED
            BY <2>1, <2>2, InputFacts
    <1>3. map \in 1 .. Len(Maps) + 1 /\ chunk \in 0 .. W - 1 /\ windows \in Seq(Windows) /\ next \in 1 .. Len(windows) + 1
        BY <1>1, <1>2
    <1>5. window \in [Threads -> Nat]
        BY <1>1
    <1>6. hits \in Hits /\ ret \in Hits /\ intervals \in Seq(Nat) /\ printed \in Seq(Nat)
        BY <1>1 DEF Hits
    <1>7. opt \in Options
        BY DEF SearchInit
    <1> QED
        BY <1>1, <1>3, <1>5, <1>6, <1>7, SearchAssumption DEF SearchTypeOK, OptFits

\* assemble_search_window_list: a window is an interval of addresses.
LEMMA AssembleType ==
    ASSUME SearchTypeOK, Assemble PROVE SearchTypeOK'
    <1> DEFINE end == (Maps[map].addr + Maps[map].size) % W
               win == [addr |-> chunk, size |-> WindowSize(chunk, end)]
    <1>1. W \in Nat \ {0} /\ Len(Maps) \in Nat /\ ChunkSize \in Nat /\ ElementSize \in Nat \ {0}
        BY InputFacts
    <1>2. \A x \in Nat : x % W \in 0 .. W - 1
        BY <1>1
    <1>3. \A m \in 1 .. Len(Maps) : Maps[m].addr \in Nat /\ Maps[m].size \in Nat /\ Maps[m].addr \in 0 .. W - 1
        BY InputFacts
    <1>4. UNCHANGED <<next, stopped, pc, window, hits, loop, intervals, closed, printed, cancel, failed, interrupted, ok, ret>>
        BY DEF Assemble, walk, outcome
    <1>5. map \in 1 .. Len(Maps) + 1 /\ chunk \in 0 .. W - 1 /\ windows \in Seq(Windows) /\ next \in 1 .. Len(windows) + 1
        BY DEF SearchTypeOK
    <1>6. /\ main' \in {"windows", "cancel"} /\ map' \in 1 .. Len(Maps) + 1 /\ chunk' \in 0 .. W - 1
          /\ windows' \in Seq(Windows) /\ next \in 1 .. Len(windows') + 1
        <2>1. CASE map > Len(Maps)
            BY <1>5, <2>1 DEF Assemble, cut, SearchTypeOK
        <2>2. CASE ~(map > Len(Maps)) /\ chunk < end
            <3>1. map \in 1 .. Len(Maps)
                BY <1>1, <1>5, <2>2
            <3>2. end \in 0 .. W - 1
                <4>1. Maps[map].addr + Maps[map].size \in Nat
                    BY <1>3, <3>1
                <4> QED
                    BY <1>2, <4>1
            <3>3. /\ windows' = Append(windows, win)
                  /\ chunk' = (chunk + ChunkSize) % W /\ main' = main /\ map' = map /\ main = "windows"
                BY <2>2 DEF Assemble
            <3>4. WindowSize(chunk, end) \in 0 .. W - 1
                <4> DEFINE sz == (ChunkSize + ElementSize - 1) % W
                <4>1. ChunkSize + ElementSize - 1 \in Nat
                    BY <1>1
                <4>2. sz \in 0 .. W - 1
                    BY <1>2, <4>1
                <4>3. WindowSize(chunk, end) = end - chunk \/ WindowSize(chunk, end) = sz
                    BY DEF WindowSize
                <4> HIDE DEF end, sz
                <4>4. end - chunk \in 0 .. W - 1
                    BY <1>1, <1>5, <2>2, <3>2
                <4> QED
                    BY <4>2, <4>3, <4>4
            <3>5. win \in Windows
                BY <1>5, <3>4 DEF Windows
            <3> HIDE DEF win, end
            <3>6. Append(windows, win) \in Seq(Windows) /\ Len(Append(windows, win)) = Len(windows) + 1 /\ Len(windows) \in Nat
                BY <1>5, <3>5
            <3>7. windows' \in Seq(Windows) /\ next \in 1 .. Len(windows') + 1
                BY <1>5, <3>3, <3>6
            <3>8. chunk + ChunkSize \in Nat
                BY <1>1, <1>5
            <3>9. chunk' \in 0 .. W - 1
                BY <1>2, <3>3, <3>8
            <3> QED
                BY <1>5, <3>3, <3>7, <3>9
        <2>3. CASE ~(map > Len(Maps)) /\ ~(chunk < end)
            <3>1. /\ map' = map + 1 /\ chunk' = (IF map < Len(Maps) THEN Maps[map + 1].addr ELSE 0)
                  /\ main' = main /\ windows' = windows /\ main = "windows"
                BY <2>3 DEF Assemble
            <3>2. map' \in 1 .. Len(Maps) + 1
                BY <1>1, <1>5, <2>3, <3>1
            <3>3. chunk' \in 0 .. W - 1
                BY <1>1, <1>3, <1>5, <2>3, <3>1
            <3> QED
                BY <1>5, <3>1, <3>2, <3>3
        <2> QED
            BY <2>1, <2>2, <2>3
    <1> QED
        BY <1>4, <1>6 DEF SearchTypeOK

\* A worker holds a window that is not reported yet.
Holds(t) == pc[t] \in {"read", "find", "report"}

\* Each window that was taken is in the hands of one worker at most.
WindowsOnce ==
    /\ \A t \in Threads : Holds(t) => window[t] \in 1 .. next - 1
    /\ \A t, u \in Threads : Holds(t) /\ Holds(u) /\ window[t] = window[u] => t = u

\* What the patterns give in a window.
Found(win) == FlattenSeq([k \in DOMAIN Patterns |-> Matches(Patterns[k], win)])
ToFind(win, x) == \E k \in DOMAIN Patterns : InWindow(Patterns[k], win, x)

\* bytes_find for all patterns.
LEMMA FoundIs ==
    ASSUME NEW win \in Windows
    PROVE  /\ Found(win) \in Hits
           /\ \A x : Has(Found(win), x) => ToFind(win, x)
           /\ Overlap => \A x : ToFind(win, x) => Has(Found(win), x)
    <1> DEFINE ss == [k \in DOMAIN Patterns |-> Matches(Patterns[k], win)]
    <1>1. DOMAIN Patterns = 1 .. Len(Patterns) /\ Len(Patterns) \in Nat /\ \A k \in DOMAIN Patterns : Patterns[k] \in PatternRecs
        BY InputFacts
    <1>2. ASSUME NEW k \in DOMAIN Patterns
          PROVE  /\ Matches(Patterns[k], win) \in Hits
                 /\ \A x : Has(Matches(Patterns[k], win), x) => InWindow(Patterns[k], win, x)
                 /\ Overlap => \A x : InWindow(Patterns[k], win, x) => Has(Matches(Patterns[k], win), x)
        BY <1>1, MatchesIs
    <1>3. DOMAIN ss = DOMAIN Patterns /\ \A k \in DOMAIN Patterns : ss[k] = Matches(Patterns[k], win)
        OBVIOUS
    <1>4. ss \in Seq(Seq(HitRecs)) /\ Hits = Seq(HitRecs)
        <2>1. Hits = Seq(HitRecs)
            BY DEF Hits, HitRecs
        <2>2. \A k \in 1 .. Len(Patterns) : ss[k] \in Seq(HitRecs)
            BY <1>1, <1>2, <1>3, <2>1
        <2>3. ss = [k \in 1 .. Len(Patterns) |-> ss[k]]
            BY <1>1
        <2> HIDE DEF ss
        <2> QED
            BY <1>1, <2>1, <2>2, <2>3, SeqFrom
    <1>5. Found(win) = FlattenSeq(ss)
        BY DEF Found
    <1> HIDE DEF ss
    <1>6. Found(win) \in Hits /\ \A x : Has(Found(win), x) <=> \E k \in DOMAIN ss : Has(ss[k], x)
        BY <1>4, <1>5, FlattenIs
    <1>7. ASSUME NEW x, Has(Found(win), x) PROVE ToFind(win, x)
        BY <1>2, <1>3, <1>6, <1>7 DEF ToFind
    <1>8. ASSUME Overlap, NEW x, ToFind(win, x) PROVE Has(Found(win), x)
        BY <1>2, <1>3, <1>6, <1>8 DEF ToFind
    <1> QED
        BY <1>6, <1>7, <1>8

\* What no step but those of the caller changes.
LEMMA LeftAlone ==
    /\ \A t \in Threads : Worker(t) => UNCHANGED <<main, map, chunk, windows, closed, printed, cancel, interrupted, ok, ret>>
    /\ Cancel => UNCHANGED <<main, map, chunk, windows, next, stopped, pc, window, hits, closed, failed, ok, ret>>
    /\ Main /\ ~Assemble => UNCHANGED <<map, chunk, windows, next, stopped, window, intervals, printed, failed, interrupted>>
    <1>1. \A t \in Threads : Worker(t) => UNCHANGED <<main, map, chunk, windows, closed, printed, cancel, interrupted, ok, ret>>
        BY DEF Worker, Take, Read, Find, Report, Test, Others, cut, outcome
    <1>2. Cancel => UNCHANGED <<main, map, chunk, windows, next, stopped, pc, window, hits, closed, failed, ok, ret>>
        BY DEF Cancel, Check, PrintOne, CheckInterrupt, Flushed, Rest, cut, walk, outcome
    <1>3. Main /\ ~Assemble => UNCHANGED <<map, chunk, windows, next, stopped, window, intervals, printed, failed, interrupted>>
        BY DEF Main, CreateCancel, Spawn, PopAll, CloseWhenEmpty, Finish, cut, walk, outcome
    <1> QED
        BY <1>1, <1>2, <1>3

\* The steps of the caller but the first.
LEMMA MainType ==
    ASSUME SearchTypeOK, OptFits, Main, ~Assemble PROVE SearchTypeOK'
    <1>1. UNCHANGED <<map, chunk, windows, next, stopped, window, intervals, printed, failed, interrupted>>
        BY LeftAlone
    <1>2. <<>> \in Hits
        BY DEF Hits
    <1>3. CASE CreateCancel
        BY <1>1, <1>3 DEF CreateCancel, SearchTypeOK, cut, walk, outcome
    <1>4. CASE Spawn
        <2>1. pc' \in [Threads -> {"none", "take", "read", "find", "report", "test", "done"}]
            <3>1. CASE pc' = pc
                BY <3>1 DEF SearchTypeOK
            <3>2. ASSUME NEW U, pc' = [t \in Threads |-> IF t \in U THEN "take" ELSE "none"]
                  PROVE  pc' \in [Threads -> {"none", "take", "read", "find", "report", "test", "done"}]
                BY <3>2
            <3> QED
                BY <1>4, <3>1, <3>2 DEF Spawn
        <2> QED
            BY <1>1, <1>4, <2>1 DEF Spawn, SearchTypeOK, cut, outcome
    <1>5. CASE PopAll
        BY <1>1, <1>2, <1>5 DEF PopAll, SearchTypeOK, cut, walk
    <1>6. CASE CloseWhenEmpty
        BY <1>1, <1>6 DEF CloseWhenEmpty, SearchTypeOK, cut, walk, outcome
    <1>7. CASE Finish
        <2>1. ret \in Hits /\ MaxHits \in Nat
            BY DEF SearchTypeOK, OptFits, MaxHits
        <2>2. Trim(Sorted(ret)) \in Hits
            BY <2>1, SortedIs, TrimIs
        <2>3. ret' \in Hits
            BY <1>7, <2>2 DEF Finish
        <2> QED
            BY <1>1, <1>7, <2>3 DEF Finish, SearchTypeOK, cut, walk
    <1> QED
        BY <1>3, <1>4, <1>5, <1>6, <1>7 DEF Main

\* The steps of the cancel thread.
LEMMA CancelType ==
    ASSUME SearchTypeOK, Cancel PROVE SearchTypeOK'
    <1>1. UNCHANGED <<main, map, chunk, windows, next, stopped, pc, window, hits, closed, failed, ok, ret>>
        BY LeftAlone
    <1>2. CASE Check
        BY <1>1, <1>2 DEF Check, SearchTypeOK
    <1>3. CASE PrintOne
        <2>1. intervals \in Seq(Nat) /\ printed \in Seq(Nat) /\ intervals # <<>>
            BY <1>3 DEF PrintOne, SearchTypeOK
        <2>2. Tail(intervals) \in Seq(Nat) /\ Append(printed, Head(intervals)) \in Seq(Nat)
            BY <2>1
        <2> QED
            BY <1>1, <1>3, <2>2 DEF PrintOne, SearchTypeOK
    <1>4. CASE CheckInterrupt
        BY <1>1, <1>4 DEF CheckInterrupt, SearchTypeOK
    <1>5. CASE Flushed
        BY <1>1, <1>5 DEF Flushed, SearchTypeOK
    <1> QED
        BY <1>2, <1>3, <1>4, <1>5 DEF Cancel

\* A worker that holds a window holds one of the list.
LEMMA HeldWindow ==
    ASSUME SearchTypeOK, WindowsOnce, NEW t \in Threads, Holds(t)
    PROVE  window[t] \in DOMAIN windows /\ windows[window[t]] \in Windows
    <1>1. /\ Len(windows) \in Nat /\ DOMAIN windows = 1 .. Len(windows) /\ next \in 1 .. Len(windows) + 1
          /\ \A i \in DOMAIN windows : windows[i] \in Windows
        BY SeqFacts DEF SearchTypeOK
    <1>2. window[t] \in 1 .. next - 1
        BY DEF WindowsOnce
    <1>3. window[t] \in DOMAIN windows
        BY <1>1, <1>2
    <1> QED
        BY <1>1, <1>3

\* The steps of a worker.
LEMMA WorkerType ==
    ASSUME SearchTypeOK, WindowsOnce, NEW t \in Threads, Worker(t) PROVE SearchTypeOK'
    <1>1. UNCHANGED <<main, map, chunk, windows, closed, printed, cancel, interrupted, ok, ret>>
        BY LeftAlone
    <1>2. ASSUME NEW label \in {"take", "read", "find", "report", "test", "done"}, Goto(t, label)
          PROVE  pc' \in [Threads -> {"none", "take", "read", "find", "report", "test", "done"}]
        BY <1>2 DEF Goto, SearchTypeOK
    <1>3. Failure(t) => /\ pc' \in [Threads -> {"none", "take", "read", "find", "report", "test", "done"}]
                        /\ loop' \in BOOLEAN /\ failed' \in BOOLEAN /\ stopped' \in BOOLEAN
        BY <1>2 DEF Failure
    <1>4. CASE Take(t)
        <2>1. Len(windows) \in Nat /\ next \in 1 .. Len(windows) + 1 /\ next \in Nat
            BY SeqFacts DEF SearchTypeOK
        <2>2. next' \in 1 .. Len(windows) + 1 /\ window' \in [Threads -> Nat]
            <3>1. window \in [Threads -> Nat]
                BY DEF SearchTypeOK
            <3>2. CASE next > Len(windows)
                BY <1>4, <2>1, <3>1, <3>2 DEF Take
            <3>3. CASE ~(next > Len(windows))
                <4>1. next \in 1 .. Len(windows) /\ next + 1 \in 1 .. Len(windows) + 1
                    BY <2>1, <3>3
                <4>2. next' = next + 1 /\ window' = [window EXCEPT ![t] = next]
                    BY <1>4, <3>3 DEF Take
                <4> QED
                    BY <2>1, <3>1, <4>1, <4>2
            <3> QED
                BY <3>2, <3>3
        <2>3. pc' \in [Threads -> {"none", "take", "read", "find", "report", "test", "done"}]
            BY <1>2, <1>4 DEF Take
        <2> QED
            BY <1>1, <1>4, <2>2, <2>3 DEF Take, SearchTypeOK
    <1>5. CASE Read(t)
        <2>1. pc' \in [Threads -> {"none", "take", "read", "find", "report", "test", "done"}]
            BY <1>2, <1>3, <1>5 DEF Read
        <2> QED
            BY <1>1, <1>3, <1>5, <2>1 DEF Read, SearchTypeOK
    <1>6. CASE Find(t)
        <2>1. pc' \in [Threads -> {"none", "take", "read", "find", "report", "test", "done"}]
            BY <1>2, <1>3, <1>6 DEF Find
        <2> DEFINE all == Found(windows[window[t]])
        <2>2. all \in Hits /\ hits \in Hits /\ Hits = Seq(HitRecs)
            <3>1. Holds(t)
                BY <1>6 DEF Find, Holds
            <3>2. windows[window[t]] \in Windows
                BY <3>1, HeldWindow
            <3> QED
                BY <3>2, FoundIs DEF SearchTypeOK, Hits, HitRecs
        <2>3. hits' = hits \o all \/ \E n \in 0 .. Len(all) - 1 : hits' = hits \o SubSeq(all, 1, n)
            BY <1>6 DEF Find, Found
        <2> HIDE DEF all
        <2>4. hits' \in Hits
            <3>1. \A n \in 0 .. Len(all) - 1 : SubSeq(all, 1, n) \in Seq(HitRecs)
                BY <2>2
            <3>2. \A s \in Seq(HitRecs) : hits \o s \in Seq(HitRecs)
                BY <2>2
            <3> QED
                BY <2>2, <2>3, <3>1, <3>2
        <2> QED
            BY <1>1, <1>3, <1>6, <2>1, <2>4 DEF Find, SearchTypeOK
    <1>7. CASE Report(t)
        <2>1. pc' \in [Threads -> {"none", "take", "read", "find", "report", "test", "done"}]
            BY <1>2, <1>3, <1>7 DEF Report
        <2>2. Append(intervals, window[t]) \in Seq(Nat)
            BY DEF SearchTypeOK
        <2> QED
            BY <1>1, <1>3, <1>7, <2>1, <2>2 DEF Report, SearchTypeOK
    <1>8. CASE Test(t)
        <2>1. pc' \in [Threads -> {"none", "take", "read", "find", "report", "test", "done"}]
            BY <1>2, <1>8 DEF Test
        <2> QED
            BY <1>1, <1>8, <2>1 DEF Test, SearchTypeOK
    <1> QED
        BY <1>4, <1>5, <1>6, <1>7, <1>8 DEF Worker

\* Every step keeps the types.
LEMMA SearchTypeStep ==
    ASSUME SearchTypeOK, OptFits, WindowsOnce, [SearchNext]_<<searching, opt>>
    PROVE  SearchTypeOK' /\ OptFits' /\ opt' = opt
    <1>1. opt' = opt
        BY DEF SearchNext
    <1>2. CASE Assemble
        BY <1>1, <1>2, AssembleType DEF OptFits
    <1>3. CASE Main /\ ~Assemble
        BY <1>1, <1>3, MainType DEF OptFits
    <1>4. CASE Cancel
        BY <1>1, <1>4, CancelType DEF OptFits
    <1>5. ASSUME NEW t \in Threads, Worker(t) PROVE SearchTypeOK' /\ OptFits'
        BY <1>1, <1>5, WorkerType DEF OptFits
    <1>6. CASE UNCHANGED <<searching, opt>>
        BY <1>6 DEF searching, cut, walk, outcome, SearchTypeOK, OptFits
    <1> QED
        BY <1>1, <1>2, <1>3, <1>4, <1>5, <1>6 DEF SearchNext

-----------------------------------------------------------------------------
(* The phases of a search, the workers and their windows.                  *)

\* What each phase of rz_search_on_io has left of the others.
PhaseFits ==
    /\ main \in {"windows", "cancel", "spawn"} =>
         /\ next = 1 /\ hits = <<>> /\ ret = <<>> /\ intervals = <<>> /\ printed = <<>>
         /\ ~failed /\ ~stopped /\ ~ok /\ \A t \in Threads : pc[t] = "none"
    /\ main = "iterate" => ret = <<>> /\ ~ok
    /\ main \in {"drain", "join", "returned"} => \A t \in Threads : pc[t] \in {"none", "done"}
    /\ main \in {"join", "returned"} => intervals = <<>>
    /\ main \in {"windows", "cancel"} => cancel = "none"
    /\ main = "returned" => cancel \in {"none", "done"}
    /\ ok => main \in {"drain", "join", "returned"} /\ hits = <<>>
    /\ main # "windows" => map = Len(Maps) + 1

\* Nothing stops the search before its end.
Calm == ~failed /\ ~interrupted /\ MaxHits = 0

\* Then the flag is set until the workers are done, and they are when no window is left.
CalmFits ==
    Calm => /\ main \in {"windows", "cancel", "spawn", "iterate"} => loop /\ ~stopped
            /\ \A t \in Threads : pc[t] = "done" => next = Len(windows) + 1

\* The windows that were reported, in their order.
Shown == printed \o intervals

\* They are different ones, none is still held, and with progress each that was taken is shown or held.
ShownFits ==
    /\ \A i, j \in DOMAIN Shown : Shown[i] = Shown[j] => i = j
    /\ \A i \in DOMAIN Shown : /\ Shown[i] \in 1 .. next - 1
                               /\ \A t \in Threads : Holds(t) => window[t] # Shown[i]
    /\ Progress /\ ~failed =>
         \A k \in 1 .. next - 1 : (\E t \in Threads : Holds(t) /\ window[t] = k) \/ Has(Shown, k)

\* What has been found is there to find, and returned in order and within the limit.
ResultFits ==
    main = "returned" => /\ \A i, j \in DOMAIN ret : i < j => Before(ret[i], ret[j])
                         /\ MaxHits # 0 => Len(ret) <= MaxHits

\* The end of a map, and a window that assemble_search_window_list makes of it.
MapEnd(m) == Maps[m].addr + Maps[m].size
WindowOf(win, m) ==
    /\ win.addr >= Maps[m].addr /\ win.addr < MapEnd(m)
    /\ win.size = (IF win.addr + ChunkSize + ElementSize - 1 > MapEnd(m) THEN MapEnd(m) - win.addr
                   ELSE ChunkSize + ElementSize - 1)

\* The windows begin at most a chunk before each address of the map below n.
Covered(m, n) ==
    \A a \in Maps[m].addr .. MapEnd(m) - 1 :
        a < n => \E i \in DOMAIN windows :
                    /\ WindowOf(windows[i], m) /\ windows[i].addr <= a /\ a < windows[i].addr + ChunkSize

\* The windows are those of the maps, and cover the maps that were cut.
CutFits ==
    /\ \A i \in DOMAIN windows : \E m \in DOMAIN Maps : WindowOf(windows[i], m)
    /\ \A m \in DOMAIN Maps : m < map => Covered(m, MapEnd(m))
    /\ map \in DOMAIN Maps => chunk >= Maps[map].addr /\ Covered(map, chunk)

\* Hits are places there are, and those of the windows that were searched are all there.
HitsFit ==
    /\ \A x : Has(hits, x) \/ Has(ret, x) => x \in All
    /\ Overlap /\ ~failed /\ MaxHits = 0 =>
         \A k \in 1 .. next - 1 :
            \/ \E t \in Threads : pc[t] \in {"read", "find"} /\ window[t] = k
            \/ \A x : ToFind(windows[k], x) => Has(hits, x) \/ Has(ret, x)

\* A worker moves to another label, alone.
LEMMA Moves ==
    ASSUME SearchTypeOK, NEW t \in Threads, NEW label, Goto(t, label)
    PROVE  pc'[t] = label /\ \A u \in Threads : u # t => pc'[u] = pc[u]
    BY DEF Goto, SearchTypeOK

\* What a worker can do to the flags, and where it goes.
LEMMA WorkerMoves ==
    ASSUME SearchTypeOK, NEW t \in Threads, Worker(t)
    PROVE  /\ pc[t] \in {"take", "read", "find", "report", "test"} /\ pc'[t] # "none"
           /\ \A u \in Threads : u # t => pc'[u] = pc[u] /\ window'[u] = window[u]
           /\ failed' \/ (loop' = loop /\ failed' = failed /\ (stopped' = stopped \/ (stopped' /\ ~loop)))
           /\ failed => failed'
           /\ pc'[t] = "done" => failed' \/ stopped' \/ ~loop \/ (next > Len(windows) /\ next' = next)
           /\ next' = next \/ (next' = next + 1 /\ pc'[t] = "read" /\ next <= Len(windows))
    <1>1. ASSUME NEW label \in {"take", "read", "find", "report", "test", "done"}, Goto(t, label)
          PROVE  pc'[t] = label /\ pc'[t] # "none" /\ \A u \in Threads : u # t => pc'[u] = pc[u]
        BY <1>1, Moves
    <1>2. Failure(t) => /\ pc'[t] = "done" /\ failed' /\ \A u \in Threads : u # t => pc'[u] = pc[u]
        BY <1>1 DEF Failure
    <1>3. CASE Take(t)
        <2>1. CASE next > Len(windows)
            BY <1>1, <1>3, <2>1 DEF Take
        <2>2. CASE ~(next > Len(windows))
            <3>1. \A u \in Threads : u # t => window'[u] = window[u]
                BY <1>3, <2>2 DEF Take, SearchTypeOK
            <3>2. next <= Len(windows)
                BY <2>2, SeqFacts DEF SearchTypeOK
            <3> QED
                BY <1>1, <1>3, <2>2, <3>1, <3>2 DEF Take
        <2> QED
            BY <2>1, <2>2
    <1>4. CASE Read(t)
        BY <1>1, <1>2, <1>4 DEF Read
    <1>5. CASE Find(t)
        BY <1>1, <1>2, <1>5 DEF Find
    <1>6. CASE Report(t)
        <2>1. /\ pc[t] = "report" /\ UNCHANGED <<next, window, hits>>
              /\ \/ /\ stopped' = (stopped \/ ~loop) /\ loop' = loop /\ failed' = failed
                    /\ Goto(t, IF loop THEN "test" ELSE "done")
                 \/ Failure(t)
            BY <1>6 DEF Report
        <2>2. CASE Failure(t)
            BY <1>2, <2>1, <2>2
        <2>3. CASE ~Failure(t) /\ loop
            <3>1. Goto(t, "test") /\ loop' = loop /\ failed' = failed /\ stopped' = stopped
                BY <2>1, <2>3 DEF SearchTypeOK
            <3> QED
                BY <1>1, <2>1, <3>1
        <2>4. CASE ~Failure(t) /\ ~loop
            <3>1. Goto(t, "done") /\ loop' = loop /\ failed' = failed /\ stopped'
                BY <2>1, <2>4
            <3> QED
                BY <1>1, <2>1, <2>4, <3>1
        <2> QED
            BY <2>2, <2>3, <2>4
    <1>7. CASE Test(t)
        BY <1>1, <1>7 DEF Test
    <1> QED
        BY <1>3, <1>4, <1>5, <1>6, <1>7 DEF Worker

\* The search goes through its phases.
LEMMA PhaseStep ==
    ASSUME SearchTypeOK, PhaseFits, [SearchNext]_<<searching, opt>> PROVE PhaseFits'
    <1>1. CASE Assemble
        <2>1. UNCHANGED <<next, stopped, pc, window, hits, loop, intervals, closed, printed, cancel, failed, interrupted, ok, ret>>
            BY <1>1 DEF Assemble, walk, outcome
        <2>2. main = "windows" /\ (main' = "windows" \/ (main' = "cancel" /\ map > Len(Maps) /\ map' = map))
            BY <1>1 DEF Assemble, cut
        <2>3. main' = "cancel" => map' = Len(Maps) + 1
            <3>1. Len(Maps) \in Nat
                BY InputFacts
            <3>2. map \in 1 .. Len(Maps) + 1
                BY DEF SearchTypeOK
            <3>3. map > Len(Maps) => map = Len(Maps) + 1
                BY <3>1, <3>2
            <3> QED
                BY <2>2, <3>3
        <2> QED
            BY <2>1, <2>2, <2>3 DEF PhaseFits
    <1>2. CASE Main /\ ~Assemble
        <2>1. UNCHANGED <<map, chunk, windows, next, stopped, window, intervals, printed, failed, interrupted>>
            BY <1>2, LeftAlone
        <2>2. CASE CreateCancel
            BY <2>1, <2>2 DEF CreateCancel, PhaseFits, walk, outcome
        <2>3. CASE Spawn
            <3>1. main' \in {"iterate", "drain"} /\ (main' = "drain" => \A t \in Threads : pc'[t] = pc[t])
                BY <2>3 DEF Spawn
            <3> QED
                BY <2>1, <2>3, <3>1 DEF Spawn, PhaseFits, outcome
        <2>4. CASE PopAll
            BY <2>1, <2>4 DEF PopAll, PhaseFits, walk
        <2>5. CASE CloseWhenEmpty
            BY <2>1, <2>5 DEF CloseWhenEmpty, PhaseFits, walk, outcome
        <2>6. CASE Finish
            BY <2>1, <2>6 DEF Finish, PhaseFits, walk
        <2> QED
            BY <1>2, <2>2, <2>3, <2>4, <2>5, <2>6 DEF Main
    <1>3. CASE Cancel
        <2>1. UNCHANGED <<main, map, chunk, windows, next, stopped, pc, window, hits, closed, failed, ok, ret>>
            BY <1>3, LeftAlone
        <2>2. cancel \in {"check", "print", "flush"} /\ main \notin {"windows", "cancel", "returned"}
            BY <1>3 DEF Cancel, Check, PrintOne, CheckInterrupt, Flushed, PhaseFits
        <2>3. (intervals = <<>> => intervals' = <<>> /\ printed' = printed)
            BY <1>3 DEF Cancel, Check, PrintOne, CheckInterrupt, Flushed
        <2> QED
            BY <2>1, <2>2, <2>3 DEF PhaseFits
    <1>4. ASSUME NEW t \in Threads, Worker(t) PROVE PhaseFits'
        <2>1. UNCHANGED <<main, map, chunk, windows, closed, printed, cancel, interrupted, ok, ret>>
            BY <1>4, LeftAlone
        <2>2. pc[t] \in {"take", "read", "find", "report", "test"} /\ pc'[t] # "none" /\ \A u \in Threads : u # t => pc'[u] = pc[u]
            BY <1>4, WorkerMoves
        <2>3. main = "iterate"
            BY <2>2 DEF PhaseFits, SearchTypeOK
        <2> QED
            BY <2>1, <2>2, <2>3 DEF PhaseFits
    <1>5. CASE UNCHANGED <<searching, opt>>
        BY <1>5 DEF searching, cut, walk, outcome, PhaseFits
    <1> QED
        BY <1>1, <1>2, <1>3, <1>4, <1>5 DEF SearchNext

\* What stops a search is seen.
LEMMA CalmStep ==
    ASSUME SearchTypeOK, PhaseFits, CalmFits, [SearchNext]_<<searching, opt>> PROVE CalmFits'
    <1>1. opt' = opt
        BY DEF SearchNext
    <1>2. MaxHits' = MaxHits
        BY <1>1 DEF MaxHits
    <1>3. CASE Assemble
        <2>1. UNCHANGED <<next, stopped, pc, window, hits, loop, intervals, closed, printed, cancel, failed, interrupted, ok, ret>>
            BY <1>3 DEF Assemble, walk, outcome
        <2>2. main = "windows"
            BY <1>3 DEF Assemble
        <2> QED
            BY <1>2, <2>1, <2>2 DEF CalmFits, Calm, PhaseFits
    <1>4. CASE Main /\ ~Assemble
        <2>1. UNCHANGED <<map, chunk, windows, next, stopped, window, intervals, printed, failed, interrupted>>
            BY <1>4, LeftAlone
        <2>2. CASE CreateCancel
            BY <1>2, <2>1, <2>2 DEF CreateCancel, CalmFits, Calm, walk
        <2>3. CASE Spawn
            <3>1. \A t \in Threads : pc'[t] = "done" => pc[t] = "done"
                BY <2>3 DEF Spawn
            <3>2. main = "spawn" /\ (main' = "drain" \/ (main' = "iterate" /\ loop' = loop))
                BY <2>3 DEF Spawn
            <3>3. Calm' => Calm
                BY <1>2, <2>1 DEF Calm
            <3>4. ASSUME Calm' PROVE main' \in {"windows", "cancel", "spawn", "iterate"} => loop' /\ ~stopped'
                BY <2>1, <3>2, <3>3, <3>4 DEF CalmFits
            <3>5. ASSUME Calm', NEW t \in Threads, pc'[t] = "done" PROVE next' = Len(windows') + 1
                BY <2>1, <3>1, <3>3, <3>5 DEF CalmFits
            <3> QED
                BY <3>4, <3>5 DEF CalmFits
        <2>4. CASE PopAll
            BY <1>2, <2>1, <2>4 DEF PopAll, CalmFits, Calm, walk
        <2>5. CASE CloseWhenEmpty
            BY <1>2, <2>1, <2>5 DEF CloseWhenEmpty, CalmFits, Calm, walk
        <2>6. CASE Finish
            BY <1>2, <2>1, <2>6 DEF Finish, CalmFits, Calm, walk
        <2> QED
            BY <1>4, <2>2, <2>3, <2>4, <2>5, <2>6 DEF Main
    <1>5. CASE Cancel
        <2>1. UNCHANGED <<main, map, chunk, windows, next, stopped, pc, window, hits, closed, failed, ok, ret>>
            BY <1>5, LeftAlone
        <2>2. Calm' => Calm /\ (loop => loop')
            BY <1>2, <1>5, <2>1 DEF Calm, Cancel, Check, PrintOne, CheckInterrupt, Flushed
        <2> QED
            BY <2>1, <2>2 DEF CalmFits
    <1>6. ASSUME NEW t \in Threads, Worker(t) PROVE CalmFits'
        <2>1. UNCHANGED <<main, map, chunk, windows, closed, printed, cancel, interrupted, ok, ret>>
            BY <1>6, LeftAlone
        <2>2. /\ pc[t] \in {"take", "read", "find", "report", "test"}
              /\ \A u \in Threads : u # t => pc'[u] = pc[u]
              /\ failed' \/ (loop' = loop /\ failed' = failed /\ (stopped' = stopped \/ (stopped' /\ ~loop)))
              /\ failed => failed'
              /\ pc'[t] = "done" => failed' \/ stopped' \/ ~loop \/ (next > Len(windows) /\ next' = next)
              /\ next' = next \/ (next' = next + 1 /\ pc'[t] = "read" /\ next <= Len(windows))
            BY <1>6, WorkerMoves
        <2>3. main = "iterate"
            BY <2>2 DEF PhaseFits, SearchTypeOK
        <2>4. Calm' => Calm /\ loop /\ ~stopped /\ loop' /\ ~stopped'
            BY <1>2, <2>1, <2>2, <2>3 DEF Calm, CalmFits
        <2>5. Len(windows) \in Nat /\ next \in 1 .. Len(windows) + 1
            BY SeqFacts DEF SearchTypeOK
        <2>6. ASSUME Calm', NEW u \in Threads, pc'[u] = "done" PROVE next' = Len(windows) + 1
            <3>1. CASE u = t
                <4>1. next > Len(windows) /\ next' = next
                    BY <2>2, <2>4, <2>6, <3>1 DEF Calm
                <4> QED
                    BY <2>5, <4>1
            <3>2. CASE u # t
                <4>1. next = Len(windows) + 1
                    BY <2>2, <2>4, <2>6, <3>2 DEF CalmFits
                <4>2. ~(next <= Len(windows))
                    BY <2>5, <4>1
                <4> QED
                    BY <2>2, <4>1, <4>2
            <3> QED
                BY <3>1, <3>2
        <2> QED
            BY <2>1, <2>4, <2>6 DEF CalmFits
    <1>7. CASE UNCHANGED <<searching, opt>>
        BY <1>2, <1>7 DEF searching, cut, walk, outcome, CalmFits, Calm
    <1> QED
        BY <1>3, <1>4, <1>5, <1>6, <1>7 DEF SearchNext

\* The four things a worker does: it takes a window, searches it, reports it or moves on.
Taken(t) ==
    /\ pc[t] = "take" /\ pc'[t] = "read" /\ next <= Len(windows) /\ next' = next + 1
    /\ window'[t] = next /\ UNCHANGED <<hits, intervals, failed>>
Searched(t) ==
    /\ pc[t] = "find" /\ UNCHANGED <<next, window, intervals>>
    /\ \/ hits' = hits \o Found(windows[window[t]]) /\ pc'[t] = "report" /\ failed' = failed
       \/ /\ \E n \in 0 .. Len(Found(windows[window[t]])) - 1 :
                hits' = hits \o SubSeq(Found(windows[window[t]]), 1, n)
          /\ failed' /\ pc'[t] = "done"
Reported(t) ==
    /\ pc[t] = "report" /\ pc'[t] \in {"test", "done"} /\ UNCHANGED <<next, window, hits>>
    /\ \/ intervals' = (IF Progress THEN Append(intervals, window[t]) ELSE intervals) /\ failed' = failed
       \/ intervals' = intervals /\ failed'
WentOn(t) ==
    /\ UNCHANGED <<next, window, hits, intervals>>
    /\ \/ pc[t] = "read" /\ pc'[t] = "find" /\ failed' = failed
       \/ pc[t] = "read" /\ pc'[t] = "done" /\ failed'
       \/ pc[t] \in {"take", "test"} /\ pc'[t] \in {"take", "done"} /\ failed' = failed

\* A step of a worker is one of these, and leaves the other workers alone.
LEMMA WorkerDoes ==
    ASSUME SearchTypeOK, NEW t \in Threads, Worker(t)
    PROVE  /\ Taken(t) \/ Searched(t) \/ Reported(t) \/ WentOn(t)
           /\ \A u \in Threads : u # t => pc'[u] = pc[u] /\ window'[u] = window[u]
           /\ failed => failed'
    <1>1. /\ \A u \in Threads : u # t => pc'[u] = pc[u] /\ window'[u] = window[u]
          /\ failed => failed'
        BY WorkerMoves
    <1>2. \A label : Goto(t, label) => pc'[t] = label
        BY Moves
    <1>3. Failure(t) => pc'[t] = "done" /\ failed'
        BY <1>2 DEF Failure
    <1>4. CASE Take(t)
        <2>1. CASE next > Len(windows)
            BY <1>1, <1>2, <1>4, <2>1 DEF Take, WentOn
        <2>2. CASE ~(next > Len(windows))
            <3>1. window'[t] = next
                BY <1>4, <2>2 DEF Take, SearchTypeOK
            <3>2. next <= Len(windows)
                BY <2>2, SeqFacts DEF SearchTypeOK
            <3> QED
                BY <1>1, <1>2, <1>4, <2>2, <3>1, <3>2 DEF Take, Taken
        <2> QED
            BY <1>1, <2>1, <2>2
    <1>5. CASE Read(t)
        <2>1. WentOn(t)
            BY <1>2, <1>3, <1>5 DEF Read, WentOn
        <2> QED
            BY <1>1, <2>1
    <1>6. CASE Find(t)
        <2>1. Searched(t)
            BY <1>2, <1>3, <1>6 DEF Find, Searched, Found
        <2> QED
            BY <1>1, <2>1
    <1>7. CASE Report(t)
        <2>1. Reported(t)
            BY <1>2, <1>3, <1>7 DEF Report, Reported
        <2> QED
            BY <1>1, <2>1
    <1>8. CASE Test(t)
        <2>1. WentOn(t)
            BY <1>2, <1>8 DEF Test, WentOn
        <2> QED
            BY <1>1, <2>1
    <1> QED
        BY <1>4, <1>5, <1>6, <1>7, <1>8 DEF Worker

\* The caller leaves the windows that are held alone.
LEMMA CallerHolds ==
    ASSUME SearchTypeOK, PhaseFits, Main, ~Assemble
    PROVE  \A t \in Threads : Holds(t)' <=> Holds(t)
    <1>1. CASE CreateCancel \/ PopAll \/ CloseWhenEmpty \/ Finish
        BY <1>1 DEF CreateCancel, PopAll, CloseWhenEmpty, Finish, walk, Holds
    <1>2. CASE Spawn
        <2>1. \A t \in Threads : pc[t] = "none"
            BY <1>2 DEF Spawn, PhaseFits
        <2>2. \A t \in Threads : pc'[t] \in {"none", "take"}
            BY <1>2, <2>1 DEF Spawn
        <2> QED
            BY <2>1, <2>2 DEF Holds
    <1> QED
        BY <1>1, <1>2 DEF Main

\* A window is appended once.
LEMMA AppendOnce ==
    ASSUME NEW V, NEW s \in Seq(V), NEW y \in V, ~Has(s, y), \A i, j \in DOMAIN s : s[i] = s[j] => i = j
    PROVE  \A i, j \in DOMAIN Append(s, y) : Append(s, y)[i] = Append(s, y)[j] => i = j
    <1>1. /\ Len(s) \in Nat /\ DOMAIN s = 1 .. Len(s) /\ DOMAIN Append(s, y) = 1 .. Len(s) + 1
          /\ \A i \in 1 .. Len(s) : Append(s, y)[i] = s[i]
          /\ Append(s, y)[Len(s) + 1] = y
        OBVIOUS
    <1>2. \A i \in 1 .. Len(s) : s[i] # y
        BY <1>1 DEF Has
    <1>3. \A i \in 1 .. Len(s) + 1 : i = Len(s) + 1 \/ i \in 1 .. Len(s)
        BY <1>1
    <1> QED
        BY <1>1, <1>2, <1>3

\* No two workers hold the same window.
LEMMA OnceStep ==
    ASSUME SearchTypeOK, PhaseFits, WindowsOnce, [SearchNext]_<<searching, opt>> PROVE WindowsOnce'
    <1>1. CASE Assemble
        <2>1. UNCHANGED <<next, pc, window>> /\ main = "windows"
            BY <1>1 DEF Assemble, walk
        <2>2. \A t \in Threads : ~Holds(t)'
            BY <2>1 DEF PhaseFits, Holds
        <2> QED
            BY <2>2 DEF WindowsOnce
    <1>2. ASSUME UNCHANGED <<next, window>>, \A t \in Threads : Holds(t)' => Holds(t) PROVE WindowsOnce'
        BY <1>2 DEF WindowsOnce
    <1>3. CASE Main /\ ~Assemble
        BY <1>2, <1>3, CallerHolds, LeftAlone
    <1>4. CASE Cancel
        <2>1. UNCHANGED <<next, window, pc>>
            BY <1>4, LeftAlone
        <2> QED
            BY <1>2, <2>1 DEF Holds
    <1>5. ASSUME NEW t \in Threads, Worker(t) PROVE WindowsOnce'
        <2>1. /\ Taken(t) \/ Searched(t) \/ Reported(t) \/ WentOn(t)
              /\ \A u \in Threads : u # t => pc'[u] = pc[u] /\ window'[u] = window[u]
            BY <1>5, WorkerDoes
        <2>2. next \in Nat \ {0}
            BY SeqFacts DEF SearchTypeOK
        <2>3. CASE Taken(t)
            <3>1. next' = next + 1
                BY <2>3 DEF Taken
            <3>2. ASSUME NEW u \in Threads, Holds(u)'
                  PROVE  \/ u = t /\ window'[u] = next
                         \/ u # t /\ window'[u] = window[u] /\ Holds(u) /\ window[u] \in 1 .. next - 1
                BY <2>1, <2>3, <3>2 DEF Taken, Holds, WindowsOnce
            <3>3. \A i \in 1 .. next - 1 : i # next /\ i \in 1 .. next' - 1
                BY <2>2, <3>1
            <3>4. next \in 1 .. next' - 1
                BY <2>2, <3>1
            <3>5. \A u \in Threads : Holds(u)' => window'[u] \in 1 .. next' - 1
                BY <3>2, <3>3, <3>4
            <3>6. ASSUME NEW u \in Threads, NEW v \in Threads, Holds(u)', Holds(v)', window'[u] = window'[v] PROVE u = v
                BY <3>2, <3>3, <3>6 DEF WindowsOnce
            <3> QED
                BY <3>5, <3>6 DEF WindowsOnce
        <2>4. CASE ~Taken(t)
            <3>1. UNCHANGED <<next, window>> /\ (Holds(t)' => Holds(t))
                BY <2>1, <2>4 DEF Searched, Reported, WentOn, Holds
            <3>2. \A u \in Threads : Holds(u)' => Holds(u)
                BY <2>1, <3>1 DEF Holds
            <3> QED
                BY <1>2, <3>1, <3>2
        <2> QED
            BY <2>3, <2>4
    <1>6. CASE UNCHANGED <<searching, opt>>
        <2>1. UNCHANGED <<next, window, pc>>
            BY <1>6 DEF searching, walk
        <2> QED
            BY <1>2, <2>1 DEF Holds
    <1> QED
        BY <1>1, <1>3, <1>4, <1>5, <1>6 DEF SearchNext

\* print_intervals moves the first interval from one list to the other.
LEMMA MoveFirst ==
    ASSUME NEW V, NEW s \in Seq(V), NEW t \in Seq(V), t # <<>>
    PROVE  Append(s, Head(t)) \o Tail(t) = s \o t
    OBVIOUS

\* An interval is put behind both.
LEMMA AppendBehind ==
    ASSUME NEW V, NEW s \in Seq(V), NEW t \in Seq(V), NEW y \in V
    PROVE  s \o Append(t, y) = Append(s \o t, y)
    OBVIOUS

\* What has been shown is a list of places.
LEMMA ShownType ==
    ASSUME SearchTypeOK
    PROVE  Shown \in Seq(Nat)
    BY HasConcat DEF SearchTypeOK, Shown

\* The windows that were reported are shown.
LEMMA ShownStep ==
    ASSUME SearchTypeOK, OptFits, PhaseFits, WindowsOnce, ShownFits, [SearchNext]_<<searching, opt>> PROVE ShownFits'
    <1>1. opt' = opt
        BY DEF SearchNext
    <1>2. Progress' = Progress
        BY <1>1 DEF Progress
    <1>3. /\ \A i, j \in DOMAIN Shown : Shown[i] = Shown[j] => i = j
          /\ \A i \in DOMAIN Shown : Shown[i] \in 1 .. next - 1
          /\ \A i \in DOMAIN Shown : \A t \in Threads : Holds(t) => window[t] # Shown[i]
          /\ Progress /\ ~failed =>
               \A k \in 1 .. next - 1 : (\E t \in Threads : Holds(t) /\ window[t] = k) \/ Has(Shown, k)
        BY DEF ShownFits
    <1>4. Shown \in Seq(Nat)
        BY ShownType
    <1>5. CASE Assemble
        <2>1. UNCHANGED <<next, pc, window, printed, intervals>> /\ main = "windows"
            BY <1>5 DEF Assemble, walk
        <2>2. next = 1 /\ printed = <<>> /\ intervals = <<>>
            BY <2>1 DEF PhaseFits
        <2>3. Shown' = <<>> /\ next' = 1
            BY <2>1, <2>2 DEF Shown
        <2> QED
            BY <2>3 DEF ShownFits
    <1>6. ASSUME UNCHANGED <<next, window>>, Shown' = Shown, failed \/ ~Progress => failed' \/ ~Progress,
                 \A t \in Threads : Holds(t)' => Holds(t),
                 failed' \/ \A t \in Threads : Holds(t) => Holds(t)'
          PROVE  ShownFits'
        <2>1. ASSUME Progress', ~failed', NEW k \in 1 .. next - 1
              PROVE  \/ \E t \in Threads : Holds(t)' /\ window'[t] = k
                     \/ Has(Shown', k)
            BY <1>2, <1>3, <1>6, <2>1
        <2> QED
            BY <1>3, <1>6, <2>1 DEF ShownFits
    <1>7. CASE Main /\ ~Assemble
        <2>1. UNCHANGED <<next, window, printed, intervals, failed>>
            BY <1>7, LeftAlone
        <2>2. Shown' = Shown
            BY <2>1 DEF Shown
        <2> QED
            BY <1>6, <1>7, <2>1, <2>2, CallerHolds
    <1>8. CASE Cancel
        <2>1. UNCHANGED <<next, window, pc, failed>>
            BY <1>8, LeftAlone
        <2>2. Shown' = Shown
            <3>1. CASE PrintOne
                <4>1. intervals \in Seq(Nat) /\ printed \in Seq(Nat)
                    BY DEF SearchTypeOK
                <4> QED
                    BY <3>1, <4>1, MoveFirst DEF PrintOne, Shown
            <3>2. CASE ~PrintOne
                BY <1>8, <3>2 DEF Cancel, Check, CheckInterrupt, Flushed, Shown
            <3> QED
                BY <3>1, <3>2
        <2> QED
            BY <1>6, <2>1, <2>2 DEF Holds
    <1>9. ASSUME NEW t \in Threads, Worker(t) PROVE ShownFits'
        <2>1. /\ Taken(t) \/ Searched(t) \/ Reported(t) \/ WentOn(t)
              /\ \A u \in Threads : u # t => pc'[u] = pc[u] /\ window'[u] = window[u]
              /\ failed => failed'
            BY <1>9, WorkerDoes
        <2>2. printed' = printed
            BY <1>9, LeftAlone
        <2>3. next \in Nat \ {0}
            BY SeqFacts DEF SearchTypeOK
        <2>4. CASE Taken(t)
            <3>1. next' = next + 1
                BY <2>4 DEF Taken
            <3>2. Shown' = Shown /\ failed' = failed /\ Holds(t)' /\ ~Holds(t) /\ window'[t] = next
                BY <2>2, <2>4 DEF Taken, Shown, Holds
            <3>3. \A u \in Threads : u # t => (Holds(u)' <=> Holds(u)) /\ window'[u] = window[u]
                BY <2>1 DEF Holds
            <3>4. \A k \in 1 .. next - 1 : k # next /\ k \in 1 .. next' - 1
                BY <2>3, <3>1
            <3>5. ASSUME NEW i \in DOMAIN Shown
                  PROVE  /\ Shown[i] \in 1 .. next' - 1
                         /\ \A u \in Threads : Holds(u)' => window'[u] # Shown[i]
                <4>1. Shown[i] \in 1 .. next - 1
                    BY <1>3
                <4>2. ASSUME NEW u \in Threads, Holds(u)' PROVE window'[u] # Shown[i]
                    BY <1>3, <3>2, <3>3, <3>4, <4>1, <4>2
                <4> QED
                    BY <3>4, <4>1, <4>2
            <3>6. ASSUME Progress', ~failed', NEW k \in 1 .. next' - 1
                  PROVE  \/ \E u \in Threads : Holds(u)' /\ window'[u] = k
                         \/ Has(Shown, k)
                <4>1. CASE k = next
                    BY <3>2, <4>1
                <4>2. CASE k # next
                    <5>1. k \in 1 .. next - 1
                        BY <2>3, <3>1, <4>2
                    <5>2. CASE Has(Shown, k)
                        BY <5>2
                    <5>3. CASE ~Has(Shown, k)
                        <6>1. PICK u \in Threads : Holds(u) /\ window[u] = k
                            BY <1>2, <1>3, <3>2, <3>6, <5>1, <5>3
                        <6> QED
                            BY <3>2, <3>3, <6>1
                    <5> QED
                        BY <5>2, <5>3
                <4> QED
                    BY <4>1, <4>2
            <3> QED
                BY <1>3, <2>2, <3>2, <3>5, <3>6 DEF ShownFits
        <2>5. CASE Searched(t) \/ WentOn(t)
            <3>1. UNCHANGED <<next, window, intervals>> /\ (Holds(t)' => Holds(t)) /\ (failed' \/ (Holds(t) => Holds(t)'))
                BY <2>2, <2>5 DEF Searched, WentOn, Holds
            <3>2. \A u \in Threads : u # t => (Holds(u)' <=> Holds(u))
                BY <2>1 DEF Holds
            <3>3. Shown' = Shown
                BY <2>2, <3>1 DEF Shown
            <3> QED
                BY <1>6, <2>1, <3>1, <3>2, <3>3
        <2>6. CASE Reported(t) /\ intervals' = intervals /\ (failed' \/ ~Progress)
            <3>1. UNCHANGED <<next, window>> /\ ~Holds(t)' /\ Shown' = Shown
                BY <2>2, <2>6 DEF Reported, Shown, Holds
            <3>2. \A u \in Threads : Holds(u)' => Holds(u)
                BY <2>1, <3>1 DEF Holds
            <3>3. \A i, j \in DOMAIN Shown' : Shown'[i] = Shown'[j] => i = j
                BY <1>3, <3>1
            <3>4. \A i \in DOMAIN Shown' : /\ Shown'[i] \in 1 .. next' - 1
                                           /\ \A u \in Threads : Holds(u)' => window'[u] # Shown'[i]
                BY <1>3, <3>1, <3>2
            <3>5. ~(Progress' /\ ~failed')
                BY <1>2, <2>6
            <3> QED
                BY <3>3, <3>4, <3>5 DEF ShownFits
        <2>7. CASE Reported(t) /\ intervals' = Append(intervals, window[t])
            <3>1. UNCHANGED <<next, window>> /\ ~Holds(t)' /\ Holds(t) /\ (failed \/ ~Progress => failed' \/ ~Progress)
                BY <2>1, <2>2, <2>7 DEF Reported, Holds
            <3>2. \A u \in Threads : u # t => (Holds(u)' <=> Holds(u))
                BY <2>1 DEF Holds
            <3>3. Shown' = Append(Shown, window[t]) /\ window[t] \in Nat
                <4>1. intervals \in Seq(Nat) /\ printed \in Seq(Nat) /\ window[t] \in Nat
                    BY DEF SearchTypeOK
                <4> QED
                    BY <2>2, <2>7, <4>1, AppendBehind DEF Shown
            <3>4. ~Has(Shown, window[t])
                BY <1>3, <3>1 DEF Has
            <3>5. \A i, j \in DOMAIN Shown' : Shown'[i] = Shown'[j] => i = j
                BY <1>3, <1>4, <3>3, <3>4, AppendOnce
            <3>6. \A x : Has(Shown', x) <=> Has(Shown, x) \/ x = window[t]
                BY <1>4, <3>3, HasAppend
            <3>7. ASSUME NEW i \in DOMAIN Shown'
                  PROVE  /\ Shown'[i] \in 1 .. next - 1
                         /\ \A u \in Threads : Holds(u)' => window[u] # Shown'[i]
                <4>1. Has(Shown', Shown'[i])
                    BY DEF Has
                <4>2. CASE Has(Shown, Shown'[i])
                    <5>1. PICK j \in DOMAIN Shown : Shown[j] = Shown'[i]
                        BY <4>2 DEF Has
                    <5>2. Shown[j] \in 1 .. next - 1
                        BY <1>3
                    <5>3. \A u \in Threads : Holds(u)' => window[u] # Shown[j]
                        BY <1>3, <3>1, <3>2
                    <5> QED
                        BY <5>1, <5>2, <5>3
                <4>3. CASE Shown'[i] = window[t]
                    <5>1. window[t] \in 1 .. next - 1
                        BY <3>1 DEF WindowsOnce
                    <5>2. \A u \in Threads : Holds(u)' => window[u] # window[t]
                        BY <3>1, <3>2 DEF WindowsOnce
                    <5> QED
                        BY <4>3, <5>1, <5>2
                <4> QED
                    BY <3>6, <4>1, <4>2, <4>3
            <3>8. ASSUME Progress', ~failed', NEW k \in 1 .. next - 1
                  PROVE  \/ \E u \in Threads : Holds(u)' /\ window[u] = k
                         \/ Has(Shown', k)
                <4>1. CASE Has(Shown, k)
                    BY <3>6, <4>1
                <4>2. CASE ~Has(Shown, k)
                    <5>1. PICK u \in Threads : Holds(u) /\ window[u] = k
                        BY <1>2, <1>3, <3>1, <3>8, <4>2
                    <5> QED
                        BY <3>2, <3>6, <5>1
                <4> QED
                    BY <4>1, <4>2
            <3> QED
                BY <3>1, <3>5, <3>7, <3>8 DEF ShownFits
        <2>8. Reported(t) => \/ intervals' = intervals /\ (failed' \/ ~Progress)
                             \/ intervals' = Append(intervals, window[t])
            BY DEF Reported
        <2> QED
            BY <2>1, <2>4, <2>5, <2>6, <2>7, <2>8
    <1>10. CASE UNCHANGED <<searching, opt>>
        <2>1. UNCHANGED <<next, window, pc, printed, intervals, failed>>
            BY <1>10 DEF searching, cut, walk
        <2> QED
            BY <1>6, <2>1 DEF Holds, Shown
    <1> QED
        BY <1>5, <1>7, <1>8, <1>9, <1>10 DEF SearchNext

\* The list that is returned is sorted and cut.
LEMMA ResultStep ==
    ASSUME SearchTypeOK, OptFits, PhaseFits, ResultFits, [SearchNext]_<<searching, opt>> PROVE ResultFits'
    <1>1. opt' = opt /\ MaxHits' = MaxHits
        BY DEF SearchNext, MaxHits
    <1>2. SUFFICES ASSUME main' = "returned"
                   PROVE  /\ \A i, j \in DOMAIN ret' : i < j => Before(ret'[i], ret'[j])
                          /\ MaxHits # 0 => Len(ret') <= MaxHits
        BY <1>1 DEF ResultFits
    <1>3. MaxHits \in Nat
        BY DEF OptFits, MaxHits
    <1>4. CASE Finish
        <2> DEFINE s == Sorted(ret)
        <2>1. ret \in Hits /\ ret' = Trim(s)
            BY <1>4 DEF Finish, SearchTypeOK
        <2>2. s \in Hits /\ \A i, j \in DOMAIN s : i < j => Before(s[i], s[j])
            BY <2>1, SortedIs
        <2> HIDE DEF s
        <2>3. /\ DOMAIN Trim(s) \subseteq DOMAIN s /\ \A i \in DOMAIN Trim(s) : Trim(s)[i] = s[i]
              /\ MaxHits # 0 => Len(Trim(s)) <= MaxHits
            BY <1>3, <2>2, TrimIs
        <2>4. ASSUME NEW i \in DOMAIN ret', NEW j \in DOMAIN ret', i < j PROVE Before(ret'[i], ret'[j])
            <3>1. i \in DOMAIN s /\ j \in DOMAIN s /\ ret'[i] = s[i] /\ ret'[j] = s[j]
                BY <2>1, <2>3
            <3> QED
                BY <2>2, <2>4, <3>1
        <2> QED
            BY <2>1, <2>3, <2>4
    <1>5. CASE CreateCancel
        <2>1. ret' = <<>>
            BY <1>5 DEF CreateCancel, PhaseFits, outcome
        <2> QED
            BY <1>3, <2>1
    <1>6. CASE main = "returned" /\ ret' = ret
        BY <1>6 DEF ResultFits
    <1>7. CASE Main
        BY <1>2, <1>4, <1>5, <1>7 DEF Main, Assemble, Spawn, PopAll, CloseWhenEmpty
    <1>8. CASE Cancel
        BY <1>2, <1>6, <1>8, LeftAlone
    <1>9. ASSUME NEW t \in Threads, Worker(t) PROVE main = "returned" /\ ret' = ret
        BY <1>2, <1>9, LeftAlone
    <1>10. CASE UNCHANGED <<searching, opt>>
        BY <1>2, <1>6, <1>10 DEF searching, outcome
    <1> QED
        BY <1>6, <1>7, <1>8, <1>9, <1>10 DEF SearchNext

-----------------------------------------------------------------------------
(* The windows cover the maps, and the hits are those of the windows.      *)

\* The end of a map is an address.
LEMMA EndFacts ==
    ASSUME MapsFit, NEW m \in DOMAIN Maps
    PROVE  MapEnd(m) \in Nat /\ MapEnd(m) + ChunkSize + ElementSize <= W /\ MapEnd(m) % W = MapEnd(m)
    <1>1. Maps[m].addr \in Nat /\ Maps[m].size \in Nat /\ W \in Nat \ {0} /\ ChunkSize \in Nat \ {0} /\ ElementSize \in Nat \ {0}
        BY InputFacts
    <1>2. Maps[m].addr + Maps[m].size + ChunkSize + ElementSize <= W
        BY DEF MapsFit
    <1>3. MapEnd(m) \in Nat /\ MapEnd(m) + ChunkSize + ElementSize <= W
        BY <1>1, <1>2 DEF MapEnd
    <1>4. \A x \in 0 .. W - 1 : x % W = x
        BY <1>1
    <1>5. MapEnd(m) \in 0 .. W - 1
        BY <1>1, <1>3
    <1> QED
        BY <1>3, <1>4, <1>5

\* What a step of assemble_search_window_list does to a map that does not wrap around.
LEMMA AssembleDoes ==
    ASSUME SearchTypeOK, MapsFit, Assemble
    PROVE  \/ UNCHANGED <<map, chunk, windows>>
           \/ /\ map \in DOMAIN Maps /\ chunk < MapEnd(map) /\ map' = map /\ chunk' = chunk + ChunkSize
              /\ \E win \in Windows : /\ win.addr = chunk
                                      /\ win.size = (IF chunk + ChunkSize + ElementSize - 1 > MapEnd(map) THEN MapEnd(map) - chunk
                                                     ELSE ChunkSize + ElementSize - 1)
                                      /\ \A x : Has(windows', x) <=> Has(windows, x) \/ x = win
           \/ /\ map \in DOMAIN Maps /\ chunk >= MapEnd(map) /\ map' = map + 1 /\ windows' = windows
              /\ map + 1 \in DOMAIN Maps => chunk' = Maps[map + 1].addr
    <1>1. /\ Len(Maps) \in Nat /\ DOMAIN Maps = 1 .. Len(Maps) /\ map \in 1 .. Len(Maps) + 1 /\ chunk \in Nat
          /\ W \in Nat \ {0} /\ ChunkSize \in Nat \ {0} /\ ElementSize \in Nat \ {0}
        BY InputFacts DEF SearchTypeOK
    <1>2. CASE map > Len(Maps)
        BY <1>2 DEF Assemble, cut
    <1>3. CASE ~(map > Len(Maps))
        <2> DEFINE end == (Maps[map].addr + Maps[map].size) % W
                   win == [addr |-> chunk, size |-> WindowSize(chunk, end)]
        <2>1. map \in DOMAIN Maps
            BY <1>1, <1>3
        <2>2. MapEnd(map) \in Nat /\ MapEnd(map) + ChunkSize + ElementSize <= W /\ end = MapEnd(map)
            BY <2>1, EndFacts DEF MapEnd
        <2>3. CASE chunk < end
            <3>1. /\ windows' = Append(windows, win)
                  /\ chunk' = (chunk + ChunkSize) % W /\ map' = map
                BY <1>3, <2>3 DEF Assemble
            <3>2. /\ (ChunkSize + ElementSize - 1) % W = ChunkSize + ElementSize - 1
                  /\ (chunk + (ChunkSize + ElementSize - 1)) % W = chunk + (ChunkSize + ElementSize - 1)
                  /\ (chunk + ChunkSize) % W = chunk + ChunkSize
                <4>1. chunk < MapEnd(map)
                    BY <2>2, <2>3
                <4> HIDE DEF end
                <4>2. \A x \in 0 .. W - 1 : x % W = x
                    BY <1>1
                <4>3. /\ ChunkSize + ElementSize - 1 \in 0 .. W - 1 /\ chunk + ChunkSize \in 0 .. W - 1
                      /\ chunk + (ChunkSize + ElementSize - 1) \in 0 .. W - 1
                    BY <1>1, <2>2, <4>1
                <4> QED
                    BY <4>2, <4>3
            <3>3. WindowSize(chunk, end) = IF chunk + ChunkSize + ElementSize - 1 > MapEnd(map) THEN MapEnd(map) - chunk
                                           ELSE ChunkSize + ElementSize - 1
                <4>1. WindowSize(chunk, MapEnd(map)) = IF chunk + (ChunkSize + ElementSize - 1) > MapEnd(map) THEN MapEnd(map) - chunk
                                           ELSE ChunkSize + ElementSize - 1
                    BY <3>2 DEF WindowSize
                <4>2. chunk + (ChunkSize + ElementSize - 1) = chunk + ChunkSize + ElementSize - 1
                    BY <1>1
                <4> HIDE DEF end
                <4> QED
                    BY <2>2, <4>1, <4>2
            <3>4. WindowSize(chunk, end) \in 0 .. W - 1
                <4>1. MapEnd(map) - chunk \in 0 .. W - 1 /\ ChunkSize + ElementSize - 1 \in 0 .. W - 1
                    <5>1. chunk < MapEnd(map)
                        BY <2>2, <2>3
                    <5> HIDE DEF end
                    <5> QED
                        BY <1>1, <2>2, <5>1
                <4> QED
                    BY <3>3, <4>1
            <3>5. win \in Windows /\ win.addr = chunk /\ win.size = WindowSize(chunk, end)
                <4>1. chunk \in 0 .. W - 1
                    BY DEF SearchTypeOK
                <4> HIDE DEF end
                <4> QED
                    BY <3>4, <4>1 DEF Windows
            <3>6. windows \in Seq(Windows)
                BY DEF SearchTypeOK
            <3> HIDE DEF win, end
            <3>7. \A x : Has(windows', x) <=> Has(windows, x) \/ x = win
                BY <3>1, <3>5, <3>6, HasAppend
            <3>8. chunk < MapEnd(map) /\ chunk' = chunk + ChunkSize
                BY <2>2, <2>3, <3>1, <3>2
            <3> QED
                BY <2>1, <3>1, <3>3, <3>5, <3>7, <3>8
        <2>4. CASE ~(chunk < end)
            <3>1. /\ map' = map + 1 /\ chunk' = (IF map < Len(Maps) THEN Maps[map + 1].addr ELSE 0)
                  /\ windows' = windows
                BY <1>3, <2>4 DEF Assemble
            <3>2. map + 1 \in DOMAIN Maps => map < Len(Maps)
                BY <1>1
            <3>3. chunk >= MapEnd(map)
                <4>1. ~(chunk < MapEnd(map))
                    BY <2>2, <2>4
                <4> HIDE DEF end
                <4> QED
                    BY <1>1, <2>2, <4>1
            <3> QED
                BY <2>1, <3>1, <3>2, <3>3
        <2> QED
            BY <2>3, <2>4
    <1> QED
        BY <1>2, <1>3

\* A window of a map begins a chunk before the address, or less.
Begins(win, m, a) == WindowOf(win, m) /\ win.addr <= a /\ a < win.addr + ChunkSize

\* The list of windows covers the maps.
LEMMA CutStep ==
    ASSUME SearchTypeOK, MapsFit, CutFits, [SearchNext]_<<searching, opt>> PROVE CutFits'
    <1>1. CASE UNCHANGED <<map, chunk, windows>>
        BY <1>1 DEF CutFits, Covered
    <1>2. CASE Main /\ ~Assemble
        BY <1>1, <1>2, LeftAlone
    <1>3. CASE Cancel
        BY <1>1, <1>3, LeftAlone
    <1>4. ASSUME NEW t \in Threads, Worker(t) PROVE CutFits'
        BY <1>1, <1>4, LeftAlone
    <1>5. CASE UNCHANGED <<searching, opt>>
        BY <1>1, <1>5 DEF searching, cut
    <1>6. CASE Assemble
        <2> DEFINE Cov(m, n) == \A a \in Maps[m].addr .. MapEnd(m) - 1 : a < n => \E win : Has(windows, win) /\ Begins(win, m, a)
                   CovP(m, n) == \A a \in Maps[m].addr .. MapEnd(m) - 1 : a < n => \E win : Has(windows', win) /\ Begins(win, m, a)
        <2>1. /\ \A win : Has(windows, win) => \E m \in DOMAIN Maps : WindowOf(win, m)
              /\ \A m \in DOMAIN Maps : m < map => Cov(m, MapEnd(m))
              /\ map \in DOMAIN Maps => chunk >= Maps[map].addr /\ Cov(map, chunk)
            BY DEF CutFits, Covered, Has, Begins
        <2>2. ASSUME /\ \A win : Has(windows', win) => \E m \in DOMAIN Maps : WindowOf(win, m)
                     /\ \A m \in DOMAIN Maps : m < map' => CovP(m, MapEnd(m))
                     /\ map' \in DOMAIN Maps => chunk' >= Maps[map'].addr /\ CovP(map', chunk')
              PROVE  CutFits'
            <3>1. \A m, n : CovP(m, n) <=> Covered(m, n)'
                BY DEF Covered, Has, Begins
            <3>2. \A i \in DOMAIN windows' : \E m \in DOMAIN Maps : WindowOf(windows'[i], m)
                BY <2>2 DEF Has
            <3>3. \A m \in DOMAIN Maps : m < map' => Covered(m, MapEnd(m))'
                BY <2>2, <3>1
            <3>4. map' \in DOMAIN Maps => chunk' >= Maps[map'].addr /\ Covered(map, chunk)'
                <4>1. CovP(map', chunk') <=> Covered(map, chunk)'
                    BY DEF Covered, Has, Begins
                <4> QED
                    BY <2>2, <4>1
            <3> QED
                BY <3>2, <3>3, <3>4 DEF CutFits
        <2>3. map \in Nat /\ chunk \in Nat /\ DOMAIN Maps \subseteq Nat /\ ChunkSize \in Nat \ {0} /\ ElementSize \in Nat \ {0}
            BY InputFacts DEF SearchTypeOK
        <2>4. CASE /\ map \in DOMAIN Maps /\ chunk < MapEnd(map) /\ map' = map /\ chunk' = chunk + ChunkSize
                   /\ \E win \in Windows : /\ win.addr = chunk
                                           /\ win.size = (IF chunk + ChunkSize + ElementSize - 1 > MapEnd(map) THEN MapEnd(map) - chunk
                                                          ELSE ChunkSize + ElementSize - 1)
                                           /\ \A x : Has(windows', x) <=> Has(windows, x) \/ x = win
            <3>1. PICK win \in Windows : /\ win.addr = chunk
                                         /\ win.size = (IF chunk + ChunkSize + ElementSize - 1 > MapEnd(map) THEN MapEnd(map) - chunk
                                                        ELSE ChunkSize + ElementSize - 1)
                                         /\ \A x : Has(windows', x) <=> Has(windows, x) \/ x = win
                BY <2>4
            <3>2. WindowOf(win, map)
                BY <2>1, <2>4, <3>1 DEF WindowOf
            <3>3. \A x : Has(windows', x) => \E m \in DOMAIN Maps : WindowOf(x, m)
                BY <2>1, <2>4, <3>1, <3>2
            <3>4. \A m, n : Cov(m, n) => CovP(m, n)
                BY <3>1
            <3>5. CovP(map, chunk + ChunkSize)
                <4>1. SUFFICES ASSUME NEW a \in Maps[map].addr .. MapEnd(map) - 1, a < chunk + ChunkSize
                               PROVE  \E x : Has(windows', x) /\ Begins(x, map, a)
                    OBVIOUS
                <4>2. CASE a < chunk
                    BY <2>1, <2>4, <3>1, <4>2
                <4>3. CASE ~(a < chunk)
                    <5>1. a \in Int
                        BY <4>1
                    <5>2. chunk <= a
                        BY <2>3, <4>3, <5>1
                    <5>3. Begins(win, map, a)
                        BY <3>1, <3>2, <4>1, <5>2 DEF Begins
                    <5> QED
                        BY <3>1, <5>3
                <4> QED
                    BY <4>2, <4>3
            <3>6. chunk' >= Maps[map].addr
                <4>1. Maps[map].addr \in Nat
                    BY <2>4, InputFacts
                <4>2. chunk >= Maps[map].addr /\ chunk' = chunk + ChunkSize
                    BY <2>1, <2>4
                <4> QED
                    BY <2>3, <4>1, <4>2
            <3>7. \A m \in DOMAIN Maps : m < map' => CovP(m, MapEnd(m))
                BY <2>1, <2>4, <3>4
            <3>8. CovP(map', chunk') /\ chunk' >= Maps[map'].addr
                BY <2>4, <3>5, <3>6
            <3> HIDE DEF Cov, CovP
            <3> QED
                BY <2>2, <3>3, <3>7, <3>8
        <2>5. CASE /\ map \in DOMAIN Maps /\ chunk >= MapEnd(map) /\ map' = map + 1 /\ windows' = windows
                   /\ map + 1 \in DOMAIN Maps => chunk' = Maps[map + 1].addr
            <3>1. \A m, n : Cov(m, n) <=> CovP(m, n)
                BY <2>5
            <3>2. Cov(map, MapEnd(map))
                <4>1. MapEnd(map) \in Nat /\ Maps[map].addr \in Nat
                    BY <2>5, EndFacts, InputFacts
                <4>2. \A a \in Maps[map].addr .. MapEnd(map) - 1 : a < chunk
                    BY <2>3, <2>5, <4>1
                <4> QED
                    BY <2>1, <2>5, <4>2
            <3>3. \A m \in DOMAIN Maps : m < map' => m < map \/ m = map
                BY <2>3, <2>5
            <3>4. \A m \in DOMAIN Maps : m < map' => CovP(m, MapEnd(m))
                <4> HIDE DEF Cov, CovP
                <4> QED
                    BY <2>1, <3>1, <3>2, <3>3
            <3>5. ASSUME map' \in DOMAIN Maps PROVE chunk' >= Maps[map'].addr /\ CovP(map', chunk')
                <4>1. chunk' = Maps[map'].addr /\ Maps[map'].addr \in Nat /\ MapEnd(map') \in Nat
                    BY <2>5, <3>5, InputFacts DEF MapEnd
                <4>2. \A a \in Maps[map'].addr .. MapEnd(map') - 1 : ~(a < chunk')
                    BY <4>1
                <4> QED
                    BY <4>1, <4>2
            <3>6. \A win : Has(windows', win) => \E m \in DOMAIN Maps : WindowOf(win, m)
                BY <2>1, <2>5
            <3> HIDE DEF Cov, CovP
            <3> QED
                BY <2>2, <3>4, <3>5, <3>6
        <2> HIDE DEF Cov, CovP
        <2> QED
            BY <1>1, <1>6, <2>4, <2>5, AssembleDoes
    <1> QED
        BY <1>2, <1>3, <1>4, <1>5, <1>6 DEF SearchNext

\* A place of a pattern in a map.
InMap(k, m, x) ==
    \E a \in Patterns[k].at : /\ a >= Maps[m].addr /\ a + Patterns[k].len <= MapEnd(m)
                              /\ x = [address |-> a, size |-> Patterns[k].len]

\* What there is to find is in the maps.
LEMMA AllIs ==
    ASSUME NEW x
    PROVE  x \in All <=> \E k \in DOMAIN Patterns : \E m \in DOMAIN Maps : InMap(k, m, x)
    BY DEF All, InMap, MapEnd

\* The arithmetic of a window: it does not reach over the end of its map.
LEMMA WindowInside ==
    ASSUME NEW addr \in Nat, NEW size \in Nat, NEW end \in Nat, NEW c \in Nat \ {0}, NEW e \in Nat \ {0}, addr < end,
           size = (IF addr + c + e - 1 > end THEN end - addr ELSE c + e - 1)
    PROVE  /\ addr + size <= end
           /\ \A a, l \in Nat : addr <= a /\ a < addr + c /\ l <= e /\ a + l <= end => a + l <= addr + size
    <1>1. CASE addr + c + e - 1 > end
        BY <1>1
    <1>2. CASE ~(addr + c + e - 1 > end)
        BY <1>2
    <1> QED
        BY <1>1, <1>2

\* A window holds what begins in its first chunk and is no longer than an element, and nothing of another map.
LEMMA WindowHolds ==
    ASSUME NEW m \in DOMAIN Maps, NEW win \in Windows, WindowOf(win, m), NEW k \in DOMAIN Patterns, NEW x
    PROVE  /\ InWindow(Patterns[k], win, x) => InMap(k, m, x)
           /\ ElementsFit => \A a \in Patterns[k].at :
                 /\ Begins(win, m, a) /\ a + Patterns[k].len <= MapEnd(m) /\ x = [address |-> a, size |-> Patterns[k].len]
                 => InWindow(Patterns[k], win, x)
    <1> DEFINE p == Patterns[k]
    <1>1. /\ p.len \in Nat /\ \A a \in p.at : a \in Nat
          /\ win.addr \in Nat /\ win.size \in Nat
          /\ ChunkSize \in Nat \ {0} /\ ElementSize \in Nat \ {0} /\ Maps[m].addr \in Nat /\ MapEnd(m) \in Nat
        <2>1. p \in PatternRecs /\ ChunkSize \in Nat \ {0} /\ ElementSize \in Nat \ {0} /\ Maps[m].addr \in Nat /\ MapEnd(m) \in Nat
            BY InputFacts DEF MapEnd
        <2>2. W \in Nat \ {0}
            BY InputFacts
        <2> HIDE DEF p
        <2>3. p.len \in Nat /\ p.at \in SUBSET (0 .. W - 1)
            BY <2>1 DEF PatternRecs
        <2>4. win.addr \in Nat /\ win.size \in Nat
            BY <2>2 DEF Windows
        <2> QED
            BY <2>1, <2>2, <2>3, <2>4
    <1>2. /\ win.addr >= Maps[m].addr /\ win.addr < MapEnd(m)
          /\ win.size = (IF win.addr + ChunkSize + ElementSize - 1 > MapEnd(m) THEN MapEnd(m) - win.addr
                         ELSE ChunkSize + ElementSize - 1)
        BY DEF WindowOf
    <1>3. win.addr + win.size <= MapEnd(m)
        BY <1>1, <1>2, WindowInside
    <1>4. \A a, l \in Nat : /\ win.addr <= a /\ a < win.addr + ChunkSize /\ l <= ElementSize /\ a + l <= MapEnd(m)
                            => a + l <= win.addr + win.size
        BY <1>1, <1>2, WindowInside
    <1>5. ASSUME InWindow(p, win, x) PROVE InMap(k, m, x)
        <2>1. PICK a \in p.at : a >= win.addr /\ a + p.len <= win.addr + win.size /\ x = [address |-> a, size |-> p.len]
            BY <1>5 DEF InWindow
        <2> DEFINE l == p.len
        <2>2. a \in Nat /\ l \in Nat /\ a + l <= win.addr + win.size /\ a >= win.addr
            BY <1>1, <2>1
        <2> HIDE DEF p, l
        <2>3. a >= Maps[m].addr /\ a + l <= MapEnd(m)
            BY <1>1, <1>2, <1>3, <2>2
        <2> QED
            BY <2>1, <2>3 DEF InMap, p, l
    <1>6. ASSUME ElementsFit, NEW a \in p.at, Begins(win, m, a), a + p.len <= MapEnd(m), x = [address |-> a, size |-> p.len]
          PROVE  InWindow(p, win, x)
        <2>1. p.len <= ElementSize
            BY <1>6 DEF ElementsFit
        <2>2. win.addr <= a /\ a < win.addr + ChunkSize
            BY <1>6 DEF Begins
        <2>3. a + p.len <= win.addr + win.size
            BY <1>1, <1>4, <1>6, <2>1, <2>2
        <2>4. a >= win.addr
            BY <1>1, <2>2
        <2> QED
            BY <1>6, <2>3, <2>4 DEF InWindow
    <1> QED
        BY <1>5, <1>6

\* What a window gives is there to find.
LEMMA WindowGives ==
    ASSUME SearchTypeOK, CutFits, NEW i \in DOMAIN windows, NEW x, ToFind(windows[i], x)
    PROVE  x \in All
    <1>1. windows[i] \in Windows
        BY SeqFacts DEF SearchTypeOK
    <1>2. PICK m \in DOMAIN Maps : WindowOf(windows[i], m)
        BY DEF CutFits
    <1>3. PICK k \in DOMAIN Patterns : InWindow(Patterns[k], windows[i], x)
        BY DEF ToFind
    <1>4. InMap(k, m, x)
        BY <1>1, <1>2, <1>3, WindowHolds
    <1> QED
        BY <1>4, AllIs

\* The windows give all there is to find when all maps are cut.
LEMMA WindowsGiveAll ==
    ASSUME SearchTypeOK, CutFits, ElementsFit, map = Len(Maps) + 1, NEW x \in All
    PROVE  \E i \in DOMAIN windows : ToFind(windows[i], x)
    <1>1. PICK k \in DOMAIN Patterns : \E m \in DOMAIN Maps : InMap(k, m, x)
        BY AllIs
    <1>2. PICK m \in DOMAIN Maps : InMap(k, m, x)
        BY <1>1
    <1>3. PICK a \in Patterns[k].at : /\ a >= Maps[m].addr /\ a + Patterns[k].len <= MapEnd(m)
                                      /\ x = [address |-> a, size |-> Patterns[k].len]
        BY <1>2 DEF InMap
    <1>4. Patterns[k].len \in Nat \ {0} /\ a \in Nat /\ Maps[m].addr \in Nat /\ MapEnd(m) \in Nat
        <2>1. Patterns[k] \in PatternRecs /\ W \in Nat /\ Maps[m].addr \in Nat /\ MapEnd(m) \in Nat
            BY InputFacts DEF MapEnd
        <2>2. Patterns[k].len \in Nat \ {0} /\ Patterns[k].at \in SUBSET (0 .. W - 1)
            BY <2>1 DEF PatternRecs
        <2> QED
            BY <1>3, <2>1, <2>2
    <1>5. a \in Maps[m].addr .. MapEnd(m) - 1 /\ a < MapEnd(m)
        BY <1>3, <1>4
    <1>6. m < map
        BY InputFacts
    <1>7. Covered(m, MapEnd(m))
        BY <1>6 DEF CutFits
    <1>8. PICK i \in DOMAIN windows : WindowOf(windows[i], m) /\ windows[i].addr <= a /\ a < windows[i].addr + ChunkSize
        BY <1>5, <1>7 DEF Covered
    <1>9. windows[i] \in Windows /\ Begins(windows[i], m, a)
        BY <1>8, SeqFacts DEF SearchTypeOK, Begins
    <1>10. InWindow(Patterns[k], windows[i], x)
        BY <1>3, <1>8, <1>9, WindowHolds
    <1> QED
        BY <1>10 DEF ToFind

\* The hits are those of the windows that were searched.
LEMMA HitsStep ==
    ASSUME SearchTypeOK, OptFits, PhaseFits, WindowsOnce, CutFits, HitsFit, [SearchNext]_<<searching, opt>> PROVE HitsFit'
    <1>1. opt' = opt
        BY DEF SearchNext
    <1>2. MaxHits' = MaxHits /\ Overlap' = Overlap /\ All' = All /\ MaxHits \in Nat
        BY <1>1 DEF MaxHits, Overlap, All, OptFits
    <1> DEFINE Searching(t, k) == pc[t] \in {"read", "find"} /\ window[t] = k
               Got(x) == Has(hits, x) \/ Has(ret, x)
    <1>3. /\ \A x : Got(x) => x \in All
          /\ Overlap /\ ~failed /\ MaxHits = 0 =>
               \A k \in 1 .. next - 1 : (\E t \in Threads : Searching(t, k)) \/ \A x : ToFind(windows[k], x) => Got(x)
        BY DEF HitsFit
    <1>4. ASSUME UNCHANGED <<windows, next, window>>, failed => failed', \A x : Got(x)' => Got(x),
                 MaxHits = 0 => \A x : Got(x) => Got(x)',
                 failed' \/ \A t \in Threads : pc[t] \in {"read", "find"} => pc'[t] \in {"read", "find"}
          PROVE  HitsFit'
        <2>1. \A x : Got(x)' => x \in All'
            BY <1>2, <1>3, <1>4
        <2>2. ASSUME Overlap', ~failed', MaxHits' = 0, NEW k \in 1 .. next' - 1
              PROVE  (\E t \in Threads : Searching(t, k)') \/ \A x : ToFind(windows'[k], x) => Got(x)'
            <3>1. k \in 1 .. next - 1 /\ Overlap /\ ~failed /\ MaxHits = 0
                BY <1>2, <1>4, <2>2
            <3>2. CASE \E t \in Threads : Searching(t, k)
                BY <1>4, <2>2, <3>2
            <3>3. CASE \A x : ToFind(windows[k], x) => Got(x)
                <4>1. \A x : Got(x) => Got(x)'
                    BY <1>4, <3>1
                <4> HIDE DEF Got
                <4> QED
                    BY <1>4, <3>3, <4>1
            <3> HIDE DEF Searching, Got
            <3> QED
                BY <1>3, <3>1, <3>2, <3>3
        <2> QED
            BY <2>1, <2>2 DEF HitsFit, ToFind
    <1>5. CASE Assemble
        <2>1. UNCHANGED <<next, hits, ret>> /\ next = 1
            BY <1>5 DEF Assemble, walk, outcome, PhaseFits
        <2> QED
            BY <1>2, <1>3, <2>1 DEF HitsFit
    <1>6. CASE Main /\ ~Assemble
        <2>1. UNCHANGED <<windows, next, window, failed>>
            BY <1>6, LeftAlone
        <2>2. \A t \in Threads : pc[t] \in {"read", "find"} => pc'[t] \in {"read", "find"}
            <3>1. CASE Spawn
                BY <3>1 DEF Spawn, PhaseFits
            <3>2. CASE ~Spawn
                BY <1>6, <3>2 DEF Main, CreateCancel, PopAll, CloseWhenEmpty, Finish, walk
            <3> QED
                BY <3>1, <3>2
        <2>3. (\A x : Got(x)' => Got(x)) /\ (MaxHits = 0 => \A x : Got(x) => Got(x)')
            <3>1. CASE CreateCancel \/ Spawn \/ CloseWhenEmpty
                BY <3>1 DEF CreateCancel, Spawn, CloseWhenEmpty, outcome
            <3>2. CASE PopAll
                <4>1. ret' = hits /\ hits' = <<>> /\ ret = <<>>
                    BY <3>2 DEF PopAll, PhaseFits
                <4> QED
                    BY <4>1 DEF Has
            <3>3. CASE Finish
                <4> DEFINE s == Sorted(ret)
                <4>1. ret \in Hits /\ ret' = Trim(s) /\ hits' = hits
                    BY <3>3 DEF Finish, SearchTypeOK
                <4>2. s \in Hits /\ \A x : Has(s, x) <=> Has(ret, x)
                    BY <4>1, SortedIs
                <4> HIDE DEF s
                <4>3. /\ DOMAIN Trim(s) \subseteq DOMAIN s /\ \A i \in DOMAIN Trim(s) : Trim(s)[i] = s[i]
                      /\ MaxHits = 0 => Trim(s) = s
                    BY <1>2, <4>2, TrimIs
                <4>4. \A x : Has(Trim(s), x) => Has(s, x)
                    BY <4>3 DEF Has
                <4> QED
                    BY <4>1, <4>2, <4>3, <4>4
            <3> QED
                BY <1>6, <3>1, <3>2, <3>3 DEF Main
        <2> HIDE DEF Got
        <2> QED
            BY <1>4, <2>1, <2>2, <2>3
    <1>7. CASE Cancel
        <2>1. UNCHANGED <<windows, next, window, pc, failed, hits, ret>>
            BY <1>7, LeftAlone
        <2> QED
            BY <1>4, <2>1
    <1>8. ASSUME NEW t \in Threads, Worker(t) PROVE HitsFit'
        <2>1. /\ Taken(t) \/ Searched(t) \/ Reported(t) \/ WentOn(t)
              /\ \A u \in Threads : u # t => pc'[u] = pc[u] /\ window'[u] = window[u]
              /\ failed => failed'
            BY <1>8, WorkerDoes
        <2>2. windows' = windows /\ ret' = ret
            BY <1>8, LeftAlone
        <2>3. CASE Taken(t)
            <3>1. UNCHANGED <<windows, hits, ret, failed>>
                BY <2>2, <2>3 DEF Taken
            <3>2. ASSUME Overlap', ~failed', MaxHits' = 0, NEW k \in 1 .. next' - 1
                  PROVE  (\E u \in Threads : Searching(u, k)') \/ \A x : ToFind(windows'[k], x) => Got(x)'
                <4>1. CASE k = next
                    <5>1. Searching(t, k)'
                        BY <2>2, <2>3, <4>1 DEF Taken
                    <5> QED
                        BY <5>1
                <4>2. CASE k # next
                    <5>1. k \in 1 .. next - 1
                        <6>1. next' = next + 1 /\ next \in Nat
                            BY <2>3, SeqFacts DEF Taken, SearchTypeOK
                        <6> QED
                            BY <4>2, <6>1
                    <5>2. CASE \E u \in Threads : Searching(u, k)
                        <6>1. PICK u \in Threads : Searching(u, k)
                            BY <5>2
                        <6>2. u # t
                            BY <2>3, <6>1 DEF Taken
                        <6> QED
                            BY <2>1, <2>2, <6>1, <6>2
                    <5>3. CASE \A x : ToFind(windows[k], x) => Got(x)
                        BY <3>1, <5>3
                    <5> HIDE DEF Searching, Got
                    <5> QED
                        BY <1>2, <1>3, <3>1, <3>2, <5>1, <5>2, <5>3
                <4> QED
                    BY <4>1, <4>2
            <3>3. \A x : Got(x)' => x \in All'
                BY <1>2, <1>3, <3>1
            <3> QED
                BY <3>2, <3>3 DEF HitsFit, ToFind
        <2>4. CASE Searched(t)
            <3> DEFINE win == windows[window[t]]
                       all == Found(win)
            <3>0. Holds(t)
                BY <2>4 DEF Searched, Holds
            <3>1. win \in Windows /\ hits \in Hits /\ Hits = Seq(HitRecs) /\ UNCHANGED <<next, window, windows, ret>>
                BY <2>2, <2>4, <3>0, HeldWindow DEF Searched, SearchTypeOK, Hits, HitRecs
            <3>2. /\ all \in Hits /\ \A x : Has(all, x) => ToFind(win, x)
                  /\ Overlap => \A x : ToFind(win, x) => Has(all, x)
                BY <3>1, FoundIs
            <3>3. \A x : ToFind(win, x) => x \in All
                <4>1. window[t] \in DOMAIN windows
                    BY <3>0, HeldWindow
                <4> QED
                    BY <4>1, WindowGives
            <3>4. \/ hits' = hits \o all /\ pc'[t] = "report" /\ failed' = failed
                  \/ (\E n \in 0 .. Len(all) - 1 : hits' = hits \o SubSeq(all, 1, n)) /\ failed'
                BY <2>4 DEF Searched
            <3> HIDE DEF all
            <3>5. \A x : Has(hits \o all, x) <=> Has(hits, x) \/ Has(all, x)
                BY <3>1, <3>2, HasConcat
            <3>6. ASSUME NEW n \in 0 .. Len(all) - 1, NEW x, Has(hits \o SubSeq(all, 1, n), x) PROVE Has(hits, x) \/ Has(all, x)
                <4>1. /\ SubSeq(all, 1, n) \in Seq(HitRecs) /\ DOMAIN SubSeq(all, 1, n) \subseteq DOMAIN all
                      /\ \A i \in DOMAIN SubSeq(all, 1, n) : SubSeq(all, 1, n)[i] = all[i]
                    BY <3>1, <3>2
                <4> DEFINE s == SubSeq(all, 1, n)
                <4>2. Has(s, x) => Has(all, x)
                    BY <4>1 DEF Has
                <4>3. s \in Seq(HitRecs) /\ hits \in Seq(HitRecs) /\ Has(hits \o s, x)
                    BY <3>1, <3>6, <4>1
                <4> HIDE DEF s
                <4> QED
                    BY <4>2, <4>3, HasConcat
            <3>7. \A x : Has(hits', x) => Has(hits, x) \/ Has(all, x)
                BY <3>4, <3>5, <3>6
            <3>8. \A x : Got(x)' => x \in All'
                BY <1>2, <1>3, <3>1, <3>2, <3>3, <3>7
            <3>9. ASSUME Overlap', ~failed', MaxHits' = 0, NEW k \in 1 .. next' - 1
                  PROVE  (\E u \in Threads : Searching(u, k)') \/ \A x : ToFind(windows'[k], x) => Got(x)'
                <4>1. hits' = hits \o all /\ ~failed /\ Overlap /\ MaxHits = 0 /\ k \in 1 .. next - 1
                    BY <1>2, <2>1, <3>1, <3>4, <3>9
                <4>2. \A x : Got(x) => Got(x)'
                    BY <3>1, <3>5, <4>1
                <4>3. CASE k = window[t]
                    BY <3>1, <3>2, <3>5, <4>1, <4>3
                <4>4. CASE k # window[t] /\ \E u \in Threads : Searching(u, k)
                    <5>1. PICK u \in Threads : Searching(u, k)
                        BY <4>4
                    <5> QED
                        BY <2>1, <2>2, <4>4, <5>1
                <4>5. CASE \A x : ToFind(windows[k], x) => Got(x)
                    <5> HIDE DEF Got
                    <5> QED
                        BY <3>1, <4>2, <4>5
                <4> HIDE DEF Got, Searching
                <4> QED
                    BY <1>3, <4>1, <4>3, <4>4, <4>5
            <3> QED
                BY <3>8, <3>9 DEF HitsFit, ToFind
        <2>5. CASE Reported(t) \/ WentOn(t)
            <3>1. /\ UNCHANGED <<windows, next, window, hits, ret>>
                  /\ failed' \/ (pc[t] \in {"read", "find"} => pc'[t] \in {"read", "find"})
                BY <2>2, <2>5 DEF Reported, WentOn
            <3>2. failed' \/ \A u \in Threads : pc[u] \in {"read", "find"} => pc'[u] \in {"read", "find"}
                BY <2>1, <3>1
            <3> QED
                BY <1>4, <2>1, <3>1, <3>2
        <2> QED
            BY <2>1, <2>3, <2>4, <2>5
    <1>9. CASE UNCHANGED <<searching, opt>>
        <2>1. UNCHANGED <<windows, next, window, pc, failed, hits, ret>>
            BY <1>9 DEF searching, cut, walk, outcome
        <2> QED
            BY <1>4, <2>1
    <1> QED
        BY <1>5, <1>6, <1>7, <1>8, <1>9 DEF SearchNext

-----------------------------------------------------------------------------
(* What a search returns.                                                  *)

\* As many elements as places, if no element is there twice.
LEMMA OnceLength ==
    ASSUME NEW V, NEW s \in Seq(V), \A i, j \in DOMAIN s : s[i] = s[j] => i = j
    PROVE  Cardinality(ToSet(s)) = Len(s)
    <1>1. Len(s) \in Nat /\ DOMAIN s = 1 .. Len(s)
        BY SeqFacts
    <1> DEFINE f == [i \in 1 .. Len(s) |-> s[i]]
    <1>2. f \in Bijection(1 .. Len(s), ToSet(s))
        BY <1>1 DEF Bijection, Injection, Surjection, IsInjective, ToSet
    <1>3. ExistsBijection(1 .. Len(s), ToSet(s))
        BY <1>2 DEF ExistsBijection
    <1> QED
        BY <1>1, <1>3, FS_CountingElements

\* The inductive invariant of a search, whatever the maps.
SearchInv == SearchTypeOK /\ OptFits /\ PhaseFits /\ CalmFits /\ WindowsOnce /\ ShownFits /\ ResultFits

\* It holds at the start.
LEMMA SearchInvInit ==
    ASSUME SearchInit PROVE SearchInv
    <1>1. /\ main = "windows" /\ map = 1 /\ windows = <<>> /\ next = 1 /\ stopped = FALSE /\ pc = [t \in Threads |-> "none"]
          /\ hits = <<>> /\ loop = TRUE /\ intervals = <<>> /\ printed = <<>>
          /\ cancel = "none" /\ failed = FALSE /\ interrupted = FALSE /\ ok = FALSE /\ ret = <<>>
        BY DEF SearchInit
    <1>2. SearchTypeOK /\ OptFits
        BY SearchTypeInit
    <1>3. PhaseFits
        BY <1>1 DEF PhaseFits
    <1>4. CalmFits /\ ResultFits
        BY <1>1 DEF CalmFits, Calm, ResultFits
    <1>5. WindowsOnce
        BY <1>1 DEF WindowsOnce, Holds
    <1>6. ShownFits
        <2>1. Shown = <<>>
            BY <1>1 DEF Shown
        <2> QED
            BY <1>1, <2>1 DEF ShownFits
    <1> QED
        BY <1>2, <1>3, <1>4, <1>5, <1>6 DEF SearchInv

\* Every step keeps it.
LEMMA SearchInvStep ==
    ASSUME SearchInv, [SearchNext]_<<searching, opt>> PROVE SearchInv'
    <1>1. SearchTypeOK /\ OptFits /\ PhaseFits /\ CalmFits /\ WindowsOnce /\ ShownFits /\ ResultFits
        BY DEF SearchInv
    <1>2. SearchTypeOK' /\ OptFits'
        BY <1>1, SearchTypeStep
    <1>3. PhaseFits'
        BY <1>1, PhaseStep
    <1>4. CalmFits'
        BY <1>1, CalmStep
    <1>5. WindowsOnce'
        BY <1>1, OnceStep
    <1>6. ShownFits'
        BY <1>1, ShownStep
    <1>7. ResultFits'
        BY <1>1, ResultStep
    <1> QED
        BY <1>2, <1>3, <1>4, <1>5, <1>6, <1>7 DEF SearchInv

\* A search that nothing stopped has taken all windows.
LEMMA AllTaken ==
    ASSUME SearchInv, Returned, SomeWorker, Calm
    PROVE  next = Len(windows) + 1 /\ (\A t \in Threads : ~Holds(t)) /\ hits = <<>> /\ map = Len(Maps) + 1
    <1>1. main = "returned" /\ ok
        BY DEF Returned
    <1>3. /\ \A t \in Threads : pc[t] \in {"none", "done"}
          /\ hits = <<>> /\ map = Len(Maps) + 1
        BY <1>1 DEF SearchInv, PhaseFits
    <1>4. next = Len(windows) + 1
        <2>1. CASE windows = <<>>
            BY <2>1 DEF SearchInv, SearchTypeOK
        <2>2. CASE windows # <<>>
            <3>1. PICK t \in Threads : pc[t] # "none"
                BY <2>2 DEF SomeWorker
            <3> QED
                BY <1>3, <3>1 DEF SearchInv, CalmFits
        <2> QED
            BY <2>1, <2>2
    <1> QED
        BY <1>3, <1>4 DEF Holds

\* Its windows are printed.
LEMMA PrintedAll ==
    ASSUME SearchInv PROVE AllPrinted
    <1>1. main = "returned" => intervals = <<>>
        BY DEF SearchInv, PhaseFits
    <1>2. ASSUME Returned, SomeWorker, Progress, ~failed, ~interrupted, MaxHits = 0
          PROVE  ToSet(printed) = DOMAIN windows /\ Len(printed) = Len(windows)
        <2>1. next = Len(windows) + 1 /\ \A t \in Threads : ~Holds(t)
            BY <1>2, AllTaken DEF Calm
        <2>2. printed \in Seq(Nat) /\ windows \in Seq(Windows)
            BY DEF SearchInv, SearchTypeOK
        <2>3. intervals = <<>>
            BY <1>1, <1>2 DEF Returned
        <2>4. Shown = printed
            BY <2>2, <2>3 DEF Shown
        <2>5. Len(windows) \in Nat /\ DOMAIN windows = 1 .. Len(windows)
            BY <2>2, SeqFacts
        <2>6. 1 .. next - 1 = DOMAIN windows
            BY <2>1, <2>5
        <2>7. /\ \A i, j \in DOMAIN printed : printed[i] = printed[j] => i = j
              /\ \A i \in DOMAIN printed : printed[i] \in DOMAIN windows
              /\ \A k \in DOMAIN windows : Has(printed, k)
            BY <1>2, <2>1, <2>4, <2>6 DEF SearchInv, ShownFits
        <2>8. \A x : Has(printed, x) <=> x \in DOMAIN windows
            BY <2>7 DEF Has
        <2>9. ToSet(printed) = DOMAIN windows
            BY <2>2, <2>8, ElementsFinite
        <2>10. Cardinality(ToSet(printed)) = Len(printed)
            BY <2>2, <2>7, OnceLength
        <2>11. Cardinality(1 .. Len(windows)) = Len(windows)
            <3>1. \A n \in Nat : Cardinality(1 .. n) = n
                BY FS_Interval
            <3> QED
                BY <2>5, <3>1
        <2> QED
            BY <2>5, <2>9, <2>10, <2>11
    <1> QED
        BY <1>1, <1>2 DEF AllPrinted

\* What the invariant says of the result.
LEMMA SearchInvMeans ==
    ASSUME SearchInv PROVE SearchTypeOK /\ NoDuplicates /\ AtMostMax /\ AllPrinted /\ NoUseAfterFree
    <1>1. SearchTypeOK
        BY DEF SearchInv
    <1>2. NoDuplicates /\ AtMostMax
        BY DEF SearchInv, ResultFits, NoDuplicates, AtMostMax, Returned
    <1>3. NoUseAfterFree
        BY DEF SearchInv, PhaseFits, NoUseAfterFree
    <1> QED
        BY <1>1, <1>2, <1>3, PrintedAll

\* rz_search_on_io over any maps, those that wrap around too: the list that is returned is sorted, without
\* duplicates and within the limit, all windows are printed once, and no thread outlives the search.
THEOREM SearchAlwaysSafe == SearchSpec => [](SearchTypeOK /\ NoDuplicates /\ AtMostMax /\ AllPrinted /\ NoUseAfterFree)
    <1>1. SearchInit => SearchInv
        BY SearchInvInit
    <1>2. SearchInv /\ [SearchNext]_<<searching, opt>> => SearchInv'
        BY SearchInvStep
    <1>3. SearchInv => SearchTypeOK /\ NoDuplicates /\ AtMostMax /\ AllPrinted /\ NoUseAfterFree
        BY SearchInvMeans
    <1> QED
        BY <1>1, <1>2, <1>3, PTL DEF SearchSpec

\* The windows and the hits at the start.
LEMMA HitsInit ==
    ASSUME SearchInit PROVE CutFits /\ HitsFit
    <1>1. map = 1 /\ windows = <<>> /\ chunk = (IF Maps = <<>> THEN 0 ELSE Maps[1].addr) /\ next = 1 /\ hits = <<>> /\ ret = <<>>
        BY DEF SearchInit
    <1>2. HitsFit
        BY <1>1 DEF HitsFit, Has
    <1>3. Len(Maps) \in Nat /\ DOMAIN Maps = 1 .. Len(Maps)
        BY InputFacts
    <1>4. ~\E m \in DOMAIN Maps : m < map
        BY <1>1, <1>3
    <1>5. ASSUME map \in DOMAIN Maps PROVE chunk >= Maps[map].addr /\ Covered(map, chunk)
        <2>1. Maps # <<>>
            BY <1>5
        <2>2. chunk = Maps[map].addr /\ Maps[map].addr \in Nat /\ MapEnd(map) \in Nat
            BY <1>1, <1>5, <2>1, InputFacts DEF MapEnd
        <2>3. \A a \in Maps[map].addr .. MapEnd(map) - 1 : ~(a < chunk)
            BY <2>2
        <2> QED
            BY <2>2, <2>3 DEF Covered
    <1>6. CutFits
        BY <1>1, <1>4, <1>5 DEF CutFits
    <1> QED
        BY <1>2, <1>6

\* What is returned is true, and complete if nothing stopped the search.
LEMMA ResultMeans ==
    ASSUME SearchInv, CutFits, HitsFit, ElementsFit PROVE Sound /\ Complete
    <1>1. ret \in Hits /\ \A x : x \in ToSet(ret) <=> Has(ret, x)
        <2>1. ret \in Hits
            BY DEF SearchInv, SearchTypeOK
        <2> QED
            BY <2>1, ElementsFinite DEF Hits
    <1>2. \A x : x \in ToSet(ret) => x \in All
        BY <1>1 DEF HitsFit
    <1>3. ASSUME Returned, SomeWorker, MaxHits = 0, ~failed, ~interrupted, Overlap, NEW x \in All
          PROVE  x \in ToSet(ret)
        <2>1. next = Len(windows) + 1 /\ (\A t \in Threads : ~Holds(t)) /\ hits = <<>> /\ map = Len(Maps) + 1
            BY <1>3, AllTaken DEF Calm
        <2>2. PICK i \in DOMAIN windows : ToFind(windows[i], x)
            BY <1>3, <2>1, WindowsGiveAll DEF SearchInv
        <2>3. i \in 1 .. next - 1
            <3>1. Len(windows) \in Nat /\ DOMAIN windows = 1 .. Len(windows)
                BY SeqFacts DEF SearchInv, SearchTypeOK
            <3> QED
                BY <2>1, <3>1
        <2>4. ~\E t \in Threads : pc[t] \in {"read", "find"} /\ window[t] = i
            BY <2>1 DEF Holds
        <2>5. Has(hits, x) \/ Has(ret, x)
            BY <1>3, <2>2, <2>3, <2>4 DEF HitsFit
        <2>6. ~Has(hits, x)
            BY <2>1 DEF Has
        <2> QED
            BY <1>1, <2>5, <2>6
    <1> QED
        BY <1>2, <1>3 DEF Sound, Complete

\* rz_search_on_io over maps that do not wrap around, with elements as long as the longest pattern: what is
\* returned is in the maps, and everything that is there if hits may overlap and nothing stopped the search.
THEOREM SearchAlwaysCorrect ==
    ASSUME MapsFit, ElementsFit PROVE SearchSpec => []SearchCorrect
    <1> DEFINE WholeInv == SearchInv /\ CutFits /\ HitsFit
    <1>1. SearchInit => WholeInv
        BY SearchInvInit, HitsInit
    <1>2. WholeInv /\ [SearchNext]_<<searching, opt>> => WholeInv'
        <2>1. SUFFICES ASSUME SearchInv, CutFits, HitsFit, [SearchNext]_<<searching, opt>>
                       PROVE  SearchInv' /\ CutFits' /\ HitsFit'
            OBVIOUS
        <2>2. SearchInv'
            BY <2>1, SearchInvStep
        <2>3. SearchTypeOK /\ OptFits /\ PhaseFits /\ WindowsOnce
            BY <2>1 DEF SearchInv
        <2>4. CutFits'
            BY <2>1, <2>3, CutStep
        <2>5. HitsFit'
            BY <2>1, <2>3, HitsStep
        <2> QED
            BY <2>2, <2>4, <2>5
    <1>3. WholeInv => SearchCorrect
        BY ResultMeans, SearchInvMeans DEF SearchCorrect
    <1> HIDE DEF WholeInv
    <1> QED
        BY <1>1, <1>2, <1>3, PTL DEF SearchSpec
=============================================================================
