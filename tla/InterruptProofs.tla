--------------------------- MODULE InterruptProofs --------------------------
(***************************************************************************)
(* Sections that can be interrupted, and the driver of the abstract        *)
(* interpreter: the invariants of Interrupt and AbsintDriver for any       *)
(* number of threads, instances, nested sections and entry points.         *)
(***************************************************************************)
EXTENDS MCInterrupts, FiniteSetTheorems, SequencesExt, SequenceTheorems, TLAPS

-----------------------------------------------------------------------------
(* Append, Tail and Front of the lists of frames and of messages.           *)

\* One more item, at the end.
LEMMA AppendFacts ==
    ASSUME NEW S, NEW s \in Seq(S), NEW x \in S
    PROVE  /\ Append(s, x) \in Seq(S)
           /\ Append(s, x) # <<>>
           /\ Len(Append(s, x)) = Len(s) + 1
           /\ \A k \in 1..Len(s) : Append(s, x)[k] = s[k]
           /\ Append(s, x)[Len(s) + 1] = x
    OBVIOUS

\* The first item is taken, the others move by one.
LEMMA TailFacts ==
    ASSUME NEW S, NEW s \in Seq(S), s # <<>>
    PROVE  /\ Tail(s) \in Seq(S)
           /\ Len(Tail(s)) = Len(s) - 1
           /\ \A k \in 1..(Len(s) - 1) : Tail(s)[k] = s[k + 1]
           /\ Head(s) = s[1]
           /\ Head(s) \in S
           /\ Len(s) \in Nat \ {0}
    OBVIOUS

\* The last item is taken, the others stay.
LEMMA FrontFacts ==
    ASSUME NEW S, NEW s \in Seq(S), s # <<>>
    PROVE  /\ Front(s) \in Seq(S)
           /\ Len(Front(s)) = Len(s) - 1
           /\ \A k \in 1..(Len(s) - 1) : Front(s)[k] = s[k]
           /\ Last(s) = s[Len(s)]
           /\ Last(s) \in S
           /\ Len(s) \in Nat \ {0}
    <1>1. Len(s) \in Nat \ {0}
        OBVIOUS
    <1> DEFINE n == Len(s) - 1
    <1>2. 1 \in Int /\ n \in Int /\ \A k \in 1..n : s[k] \in S
        BY <1>1
    <1>3. /\ SubSeq(s, 1, n) \in Seq(S)
          /\ Len(SubSeq(s, 1, n)) = IF 1 <= n THEN n - 1 + 1 ELSE 0
          /\ \A k \in 1..(n - 1 + 1) : SubSeq(s, 1, n)[k] = s[1 + k - 1]
        <2> HIDE DEF n
        <2> QED
            BY <1>2, SubSeqProperties
    <1>4. s[Len(s)] \in S
        BY <1>1
    <1>5. Len(SubSeq(s, 1, n)) = n
        <2>1. n \in Nat
            BY <1>1
        <2> HIDE DEF n
        <2> QED
            BY <2>1, <1>3
    <1>6. \A k \in 1..n : SubSeq(s, 1, n)[k] = s[k]
        <2>1. n \in Nat
            BY <1>1
        <2> HIDE DEF n
        <2> QED
            BY <2>1, <1>3
    <1> QED
        BY <1>1, <1>3, <1>4, <1>5, <1>6 DEF Front, Last
-----------------------------------------------------------------------------

-----------------------------------------------------------------------------
(* Sections.                                                               *)

Labels == {"idle", "hook_clear", "hook_install", "push", "pop_ignore", "pop_clear",
           "popped", "end_ignore", "end_clear", "ended"}

\* The types of everything a section uses.
SectionTypes ==
    /\ usage \in Usages
    /\ g_sigint_flag \in BOOLEAN /\ g_hook_count \in Nat
    /\ disposition \in {"default", "handler", "ignore"}
    /\ is_breaked \in [Instances -> BOOLEAN]
    /\ timeout \in [Instances -> {"none", "armed", "past"}]
    /\ break_stack \in [Instances -> Seq(Callbacks \cup {NoCallback})]
    /\ current_cb \in [Instances -> Callbacks \cup {NoCallback}]
    /\ pushed \in [Instances -> Seq(Callbacks \cup {NoCallback})]
    /\ pc \in [Users -> [at : Labels, intr : Instances,
                         cb : Callbacks \cup {NoCallback}]]
    /\ \A t \in Users : Owner[pc[t].intr] = t
    /\ due \subseteq Instances

\* Where the thread of n is, in a call for n.
Where(n) == IF pc[Owner[n]].intr = n THEN pc[Owner[n]].at ELSE "idle"

Hooking == {"hook_clear", "hook_install"}
Ignoring == {"pop_ignore", "pop_clear", "end_ignore", "end_clear"}
Popping == {"pop_ignore", "pop_clear", "popped"}
Ending == {"end_ignore", "end_clear", "ended"}

\* n is one of those that g_hook_count counts.
Counts(n) ==
    \/ Where(n) \in Hooking \cup {"push"}
    \/ InSection(n) /\ Where(n) \notin Ending

Counted == {n \in Hooks : Counts(n)}

\* What a call knows of its own instance.
CallsFit ==
    \A n \in Instances :
        /\ Where(n) \in Hooking => n \in Hooks /\ ~InSection(n)
        /\ Where(n) \in Popping => ~InSection(n)
        /\ Where(n) \in Ignoring => n \in Hooks

\* Who switches the signal on or off is alone.
SwitchesAlone ==
    OneHooker => \A m, n \in Hooks :
        m # n /\ Where(m) \in Hooking \cup Ignoring => ~InSection(n)

\* Whoever counts itself has the handler, once it is installed.
HandlerFits ==
    OneHooker => \A n \in Hooks :
        Counts(n) /\ Where(n) \notin Hooking => disposition = "handler"

\* An interrupt is remembered in one of the two flags.
FlagsFit ==
    /\ \A n \in due : InSection(n) /\ Where(n) \notin Ending
    /\ OneHooker => \A n \in due : is_breaked[n] \/ (n \in Hooks /\ g_sigint_flag)

\* The frames hold the callbacks of the sections around.
FrameFits(n) ==
    /\ Len(break_stack[n]) = Len(pushed[n])
    /\ \A k \in 1..Len(pushed[n]) :
          break_stack[n][k] = IF k = 1 THEN NoCallback ELSE pushed[n][k - 1]
    /\ current_cb[n] = IF pushed[n] = <<>> THEN NoCallback ELSE Last(pushed[n])

FramesFit == \A n \in Instances : FrameFits(n)

SectionInv ==
    /\ SectionTypes
    /\ CallsFit
    /\ g_hook_count = Cardinality(Counted)
    /\ SwitchesAlone
    /\ HandlerFits
    /\ FlagsFit
    /\ FramesFit

\* A usage, as the assumption describes it.
LEMMA UsageFacts ==
    ASSUME SectionTypes
    PROVE  /\ Owner \in [Instances -> Threads] /\ Hooks \subseteq Instances
           /\ \A n \in Instances : Owner[n] \in Users
           /\ \A t \in Users : \E n \in Instances : Owner[n] = t
           /\ IsFiniteSet(Hooks)
    <1>1. Owner \in [Instances -> Threads] /\ Hooks \subseteq Instances
        BY InterruptAssumption DEF SectionTypes, Owner, Hooks
    <1>2. IsFiniteSet(Hooks)
        BY <1>1, InterruptAssumption, FS_Subset
    <1>3. Users = {Owner[n] : n \in Instances}
        BY <1>1 DEF Users, Range
    <1> QED
        BY <1>1, <1>2, <1>3

\* A thread is inside a call for one of its instances, or for none.
LEMMA WhereFacts ==
    ASSUME SectionTypes
    PROVE  /\ \A n \in Instances : Where(n) \in Labels
           /\ \A n \in Instances : Ready(n) => Where(n) = "idle"
           /\ \A n \in Instances, l \in Labels : Thread(n, l) => Where(n) = l
           /\ \A m, n \in Instances :
                Owner[m] = Owner[n] /\ Ready(n) => Where(m) = "idle"
           /\ \A m, n \in Instances :
                Owner[m] = Owner[n] /\ m # n /\ Where(m) # "idle" => Where(n) = "idle"
    <1>1. \A n \in Instances : pc[Owner[n]] \in [at : Labels, intr : Instances,
                                                 cb : Callbacks \cup {NoCallback}]
        BY UsageFacts DEF SectionTypes
    <1>2. \A n \in Instances : Where(n) \in Labels
        BY <1>1 DEF Where, Labels
    <1> QED
        BY <1>1, <1>2 DEF Where, Ready, Thread

\* A thread goes on in a call for n, or begins one.
LEMMA GotoFacts ==
    ASSUME SectionTypes, NEW n \in Instances, NEW label \in Labels,
           NEW cb \in Callbacks \cup {NoCallback},
           Goto(n, label, cb), UNCHANGED usage,
           Ready(n) \/ pc[Owner[n]].intr = n
    PROVE  /\ pc' \in [Users' -> [at : Labels, intr : Instances,
                                  cb : Callbacks \cup {NoCallback}]]
           /\ \A t \in Users' : Owner'[pc'[t].intr] = t
           /\ Where(n)' = label
           /\ \A m \in Instances : m # n => Where(m)' = Where(m)
    <1>1. Owner' = Owner /\ Users' = Users
        BY DEF Owner, Users
    <1>2. Owner[n] \in Users
        BY UsageFacts
    <1>3. pc' = [pc EXCEPT ![Owner[n]] = [at |-> label, intr |-> n, cb |-> cb]]
        BY DEF Goto
    <1>4. /\ pc \in [Users -> [at : Labels, intr : Instances,
                               cb : Callbacks \cup {NoCallback}]]
          /\ \A t \in Users : Owner[pc[t].intr] = t
        BY DEF SectionTypes
    <1>5. pc' \in [Users -> [at : Labels, intr : Instances,
                             cb : Callbacks \cup {NoCallback}]]
        BY <1>2, <1>3, <1>4
    <1>6. /\ pc'[Owner[n]] = [at |-> label, intr |-> n, cb |-> cb]
          /\ \A t \in Users : t # Owner[n] => pc'[t] = pc[t]
        BY <1>2, <1>3, <1>4
    <1>7. \A t \in Users : Owner[pc'[t].intr] = t
        BY <1>4, <1>6
    <1>8. Where(n)' = label
        BY <1>1, <1>6 DEF Where
    <1>9. \A m \in Instances : m # n => Where(m)' = Where(m)
        <2> SUFFICES ASSUME NEW m \in Instances, m # n
                     PROVE  Where(m)' = Where(m)
            OBVIOUS
        <2>1. CASE Owner[m] = Owner[n]
            <3>1. Where(m)' = "idle"
                BY <1>1, <1>6, <2>1 DEF Where
            <3>2. Where(m) = "idle"
                BY <2>1 DEF Where, Ready
            <3> QED
                BY <3>1, <3>2
        <2>2. CASE Owner[m] # Owner[n]
            <3>1. Owner[m] \in Users
                BY UsageFacts
            <3> QED
                BY <1>1, <1>6, <2>2, <3>1 DEF Where
        <2> QED
            BY <2>1, <2>2
    <1> QED
        BY <1>1, <1>5, <1>7, <1>8, <1>9

\* What g_hook_count tells of the instances, where it decides.
LEMMA HookCountTells ==
    ASSUME SectionInv
    PROVE  /\ g_hook_count = 0 => \A m \in Hooks : ~Counts(m)
           /\ g_hook_count # 0 => \E m \in Hooks : Counts(m)
           /\ \A n \in Hooks : g_hook_count = 1 /\ Counts(n) =>
                \A m \in Hooks : m # n => ~Counts(m)
           /\ \A n \in Hooks : Counts(n) => g_hook_count >= 1
    <1>1. IsFiniteSet(Counted) /\ g_hook_count = Cardinality(Counted)
          /\ g_hook_count \in Nat
        BY UsageFacts, FS_Subset DEF SectionInv, SectionTypes, Counted
    <1>2. g_hook_count = 0 <=> Counted = {}
        BY <1>1, FS_EmptySet
    <1>3. g_hook_count = 1 => \E x : Counted = {x}
        BY <1>1, FS_Singleton
    <1> QED
        BY <1>1, <1>2, <1>3 DEF Counted

\* How a step of n moves the instances that are counted.
LEMMA CountedMoves ==
    ASSUME SectionInv, NEW n \in Instances, UNCHANGED usage,
           \A m \in Instances : m # n => /\ Where(m)' = Where(m)
                                         /\ InSection(m)' = InSection(m)
    PROVE  /\ (n \in Hooks => (Counts(n)' <=> Counts(n)))
                => Cardinality(Counted') = g_hook_count
           /\ n \in Hooks /\ Counts(n)' /\ ~Counts(n)
                => Cardinality(Counted') = g_hook_count + 1
           /\ n \in Hooks /\ ~Counts(n)' /\ Counts(n)
                => Cardinality(Counted') = g_hook_count - 1
    <1>1. IsFiniteSet(Counted) /\ g_hook_count = Cardinality(Counted)
        BY UsageFacts, FS_Subset DEF SectionInv, Counted
    <1>2. Hooks' = Hooks /\ Hooks \subseteq Instances
        BY UsageFacts DEF Hooks, SectionInv
    <1>3. \A m \in Hooks : m # n => (Counts(m)' <=> Counts(m))
        BY <1>2 DEF Counts
    <1>4. (n \in Hooks => (Counts(n)' <=> Counts(n))) => Counted' = Counted
        BY <1>2, <1>3 DEF Counted
    <1>5. n \in Hooks /\ Counts(n)' /\ ~Counts(n) =>
            n \notin Counted /\ Counted' = Counted \cup {n}
        BY <1>2, <1>3 DEF Counted
    <1>6. n \in Hooks /\ ~Counts(n)' /\ Counts(n) =>
            n \in Counted /\ Counted' = Counted \ {n}
        BY <1>2, <1>3 DEF Counted
    <1> QED
        BY <1>1, <1>4, <1>5, <1>6, FS_AddElement, FS_RemoveElement

\* The part of the invariant that is about the hook.
HookInv ==
    /\ CallsFit
    /\ g_hook_count = Cardinality(Counted)
    /\ SwitchesAlone
    /\ HandlerFits

\* Steps between sections leave the hook alone.
LEMMA HookUndisturbed ==
    ASSUME SectionInv,
           UNCHANGED <<usage, g_hook_count, disposition, pc, break_stack>>
    PROVE  /\ HookInv'
           /\ \A n \in Instances : /\ Where(n)' = Where(n)
                                   /\ InSection(n)' = InSection(n)
           /\ Hooks' = Hooks /\ OneHooker' = OneHooker
    <1>1. Owner' = Owner /\ Hooks' = Hooks /\ OneHooker' = OneHooker
        BY DEF Owner, Hooks, OneHooker
    <1>2. /\ \A n : Where(n)' = Where(n) /\ InSection(n)' = InSection(n)
          /\ \A n : Counts(n)' = Counts(n)
        BY <1>1 DEF Where, InSection, Counts
    <1>3. Counted' = Counted
        BY <1>1, <1>2 DEF Counted
    <1> QED
        BY <1>1, <1>2, <1>3
        DEF HookInv, SectionInv, CallsFit, SwitchesAlone, HandlerFits

\* Steps that leave the stacks alone leave the frames alone.
LEMMA FramesUndisturbed ==
    ASSUME SectionInv, UNCHANGED <<break_stack, pushed, current_cb>>
    PROVE  FramesFit'
    BY DEF SectionInv, FramesFit, FrameFits

\* What a step between sections must show.
LEMMA QuietStep ==
    ASSUME SectionInv,
           UNCHANGED <<usage, g_hook_count, disposition, pc, break_stack, pushed,
                       current_cb>>,
           g_sigint_flag' \in BOOLEAN, due' \subseteq Instances,
           is_breaked' \in [Instances -> BOOLEAN],
           timeout' \in [Instances -> {"none", "armed", "past"}],
           \A n \in due' : InSection(n) /\ Where(n) \notin Ending,
           OneHooker => \A n \in due' : is_breaked'[n] \/ (n \in Hooks /\ g_sigint_flag')
    PROVE  SectionInv'
    <1>1. SectionTypes'
        BY DEF SectionInv, SectionTypes, Users, Owner
    <1>2. HookInv' /\ FramesFit'
        BY HookUndisturbed, FramesUndisturbed
    <1>3. FlagsFit'
        BY HookUndisturbed DEF FlagsFit
    <1> QED
        BY <1>1, <1>2, <1>3 DEF SectionInv, HookInv

LEMMA SigintSafe ==
    ASSUME SectionInv, Sigint, UNCHANGED usage
    PROVE  SectionInv'
    <1>1. Hooks \subseteq Instances
        BY UsageFacts DEF SectionInv
    <1>2. /\ g_sigint_flag \in BOOLEAN /\ due \subseteq Instances
          /\ is_breaked \in [Instances -> BOOLEAN]
          /\ timeout \in [Instances -> {"none", "armed", "past"}]
          /\ disposition \in {"default", "handler", "ignore"}
        BY DEF SectionInv, SectionTypes
    <1>3. \A n \in Hooks : InSection(n) /\ Ready(n) => Where(n) = "idle"
        BY <1>1, WhereFacts DEF SectionInv
    <1>4. \A n \in due' : InSection(n) /\ Where(n) \notin Ending
        BY <1>3 DEF Sigint, SectionInv, FlagsFit, Ending
    <1>5. OneHooker => \A n \in due' : is_breaked'[n] \/ (n \in Hooks /\ g_sigint_flag')
        <2> SUFFICES ASSUME OneHooker, NEW n \in due'
                     PROVE  is_breaked'[n] \/ (n \in Hooks /\ g_sigint_flag')
            OBVIOUS
        <2>1. CASE n \in due
            BY <2>1 DEF Sigint, fields, SectionInv, FlagsFit
        <2>2. CASE n \in Hooks /\ InSection(n) /\ Ready(n)
            <3>1. disposition = "handler"
                BY <2>2, <1>3 DEF SectionInv, HandlerFits, Counts, Hooking, Ending
            <3> QED
                BY <2>2, <3>1 DEF Sigint
        <2> QED
            BY <2>1, <2>2 DEF Sigint
    <1>6. /\ UNCHANGED <<usage, g_hook_count, disposition, pc, break_stack, pushed,
                         current_cb>>
          /\ g_sigint_flag' \in BOOLEAN /\ due' \subseteq Instances
          /\ is_breaked' \in [Instances -> BOOLEAN]
          /\ timeout' \in [Instances -> {"none", "armed", "past"}]
        BY <1>1, <1>2 DEF Sigint, fields
    <1> QED
        BY <1>4, <1>5, <1>6, QuietStep

LEMMA RaiseSafe ==
    ASSUME SectionInv, NEW n \in Instances, rz_interrupt_raise(n), UNCHANGED usage
    PROVE  SectionInv'
    <1>1. /\ g_sigint_flag \in BOOLEAN /\ due \subseteq Instances
          /\ is_breaked \in [Instances -> BOOLEAN]
          /\ timeout \in [Instances -> {"none", "armed", "past"}]
        BY DEF SectionInv, SectionTypes
    <1>2. /\ UNCHANGED <<usage, g_hook_count, disposition, pc, break_stack, pushed,
                         current_cb, g_sigint_flag, timeout>>
          /\ due' = IF InSection(n) /\ Ready(n) THEN due \cup {n} ELSE due
          /\ is_breaked' \in [Instances -> BOOLEAN]
          /\ is_breaked'[n] = TRUE
          /\ \A m \in Instances : is_breaked[m] => is_breaked'[m]
        BY <1>1 DEF rz_interrupt_raise, signal
    <1>3. Ready(n) => Where(n) = "idle"
        BY WhereFacts DEF SectionInv
    <1>4. \A m \in due' : InSection(m) /\ Where(m) \notin Ending
        BY <1>2, <1>3 DEF SectionInv, FlagsFit, Ending
    <1>5. OneHooker => \A m \in due' : is_breaked'[m] \/ (m \in Hooks /\ g_sigint_flag')
        BY <1>1, <1>2 DEF SectionInv, FlagsFit
    <1>6. due' \subseteq Instances
        BY <1>1, <1>2
    <1> QED
        BY <1>1, <1>2, <1>4, <1>5, <1>6, QuietStep

\* The calls that look at the flags or set them, and the deadline.
LEMMA FlagCallsSafe ==
    ASSUME SectionInv, NEW n \in Instances, UNCHANGED usage,
           \/ Expire(n)
           \/ rz_interrupt_is_breaked(n)
           \/ rz_interrupt_break_clear(n)
           \/ \E zero \in BOOLEAN : SetTimeout(n, zero)
    PROVE  SectionInv'
    <1>1. /\ g_sigint_flag \in BOOLEAN /\ due \subseteq Instances
          /\ is_breaked \in [Instances -> BOOLEAN]
          /\ timeout \in [Instances -> {"none", "armed", "past"}]
        BY DEF SectionInv, SectionTypes
    <1>2. UNCHANGED <<usage, g_hook_count, disposition, pc, break_stack, pushed,
                      current_cb, g_sigint_flag>>
        BY DEF Expire, rz_interrupt_is_breaked, rz_interrupt_break_clear, SetTimeout,
               signal
    <1>3. timeout' \in [Instances -> {"none", "armed", "past"}]
        BY <1>1 DEF Expire, rz_interrupt_is_breaked, rz_interrupt_break_clear, SetTimeout
    <1>4. is_breaked' \in [Instances -> BOOLEAN]
        <2>1. IsBreaked(n) \in BOOLEAN
            BY <1>1 DEF IsBreaked
        <2> QED
            BY <1>1, <2>1
            DEF Expire, rz_interrupt_is_breaked, rz_interrupt_break_clear, SetTimeout
    <1>5. due' \subseteq due
        BY DEF Expire, rz_interrupt_is_breaked, rz_interrupt_break_clear, SetTimeout
    <1>6. \A m \in due' : is_breaked[m] => is_breaked'[m]
        <2>1. CASE rz_interrupt_is_breaked(n)
            BY <1>1, <1>5, <2>1 DEF rz_interrupt_is_breaked, IsBreaked
        <2>2. CASE rz_interrupt_break_clear(n)
            BY <1>1, <1>5, <2>2 DEF rz_interrupt_break_clear
        <2>3. CASE Expire(n) \/ \E zero \in BOOLEAN : SetTimeout(n, zero)
            BY <2>3 DEF Expire, SetTimeout
        <2> QED
            BY <2>1, <2>2, <2>3
    <1>7. /\ \A m \in due' : InSection(m) /\ Where(m) \notin Ending
          /\ OneHooker => \A m \in due' : is_breaked'[m] \/ (m \in Hooks /\ g_sigint_flag')
        BY <1>2, <1>5, <1>6 DEF SectionInv, FlagsFit
    <1> QED
        BY <1>1, <1>2, <1>3, <1>4, <1>5, <1>7, QuietStep

\* A step of a call for n leaves the other instances where they are.
LEMMA CallStep ==
    ASSUME SectionInv, NEW n \in Instances, NEW label \in Labels,
           NEW cb \in Callbacks \cup {NoCallback},
           Goto(n, label, cb), UNCHANGED usage,
           Ready(n) \/ \E l \in Labels : Thread(n, l),
           g_sigint_flag' \in BOOLEAN, g_hook_count' \in Nat,
           disposition' \in {"default", "handler", "ignore"},
           is_breaked' \in [Instances -> BOOLEAN],
           timeout' \in [Instances -> {"none", "armed", "past"}],
           break_stack' \in [Instances -> Seq(Callbacks \cup {NoCallback})],
           current_cb' \in [Instances -> Callbacks \cup {NoCallback}],
           pushed' \in [Instances -> Seq(Callbacks \cup {NoCallback})],
           due' \subseteq Instances
    PROVE  /\ SectionTypes'
           /\ Where(n)' = label
           /\ \A m \in Instances : m # n => Where(m)' = Where(m)
           /\ Hooks' = Hooks /\ OneHooker' = OneHooker
    <1>1. Ready(n) \/ pc[Owner[n]].intr = n
        BY DEF Thread
    <1>2. SectionTypes
        BY DEF SectionInv
    <1>3. Hooks' = Hooks /\ OneHooker' = OneHooker
        BY DEF Hooks, OneHooker, Owner
    <1>4. usage' \in Usages
        BY <1>2 DEF SectionTypes
    <1> QED
        BY <1>1, <1>2, <1>3, <1>4, GotoFacts DEF SectionTypes

\* The switch of a call for n concerns n alone, when all hooking instances are
\* used from one thread.
LEMMA OthersIdle ==
    ASSUME SectionInv, OneHooker, NEW n \in Hooks
    PROVE  /\ Ready(n) => \A m \in Hooks : Where(m) = "idle"
           /\ Where(n) # "idle" => \A m \in Hooks : m # n => Where(m) = "idle"
    BY UsageFacts, WhereFacts DEF SectionInv, OneHooker

\* An interrupt that was remembered still is.
LEMMA FlagsKept ==
    ASSUME SectionInv, NEW n \in Instances,
           \A m \in Instances : m # n => /\ Where(m)' = Where(m)
                                         /\ InSection(m)' = InSection(m),
           Hooks' = Hooks, OneHooker' = OneHooker, due' \subseteq due,
           n \in due' => InSection(n)' /\ Where(n)' \notin Ending,
           OneHooker => \A m \in due' :
                is_breaked[m] \/ (m \in Hooks /\ g_sigint_flag)
                    => is_breaked'[m] \/ (m \in Hooks /\ g_sigint_flag')
    PROVE  FlagsFit'
    <1>1. due \subseteq Instances
        BY DEF SectionInv, SectionTypes
    <1>2. \A m \in due' : InSection(m)' /\ Where(m)' \notin Ending
        BY <1>1 DEF SectionInv, FlagsFit
    <1>3. OneHooker => \A m \in due' : is_breaked'[m] \/ (m \in Hooks /\ g_sigint_flag')
        BY DEF SectionInv, FlagsFit
    <1> QED
        BY <1>2, <1>3 DEF FlagsFit

LEMMA BreakPushSafe ==
    ASSUME SectionInv, NEW n \in Instances, NEW cb \in Callbacks,
           rz_interrupt_break_push(n, cb), UNCHANGED usage
    PROVE  SectionInv'
    <1> DEFINE hook == ~InSection(n) /\ n \in Hooks
               label == IF hook THEN HookLabel ELSE "push"
    <1>1. /\ Ready(n) /\ Goto(n, label, cb)
          /\ g_hook_count' = g_hook_count + (IF hook THEN 1 ELSE 0)
          /\ UNCHANGED <<g_sigint_flag, disposition, is_breaked, timeout, break_stack,
                         current_cb, pushed, due>>
        BY DEF rz_interrupt_break_push, fields
    <1>2. label \in {"hook_clear", "push"} /\ label \in Labels
        BY DEF HookLabel, Labels
    <1>3. SectionTypes
        BY DEF SectionInv
    <1>4. g_hook_count' \in Nat
        BY <1>1, <1>3 DEF SectionTypes
    <1>5. /\ SectionTypes' /\ Hooks' = Hooks /\ OneHooker' = OneHooker
          /\ Where(n)' = label
          /\ \A m \in Instances : m # n => Where(m)' = Where(m)
        <2> HIDE DEF label
        <2> QED
            BY <1>1, <1>2, <1>3, <1>4, CallStep DEF SectionTypes
    <1>6. Where(n) = "idle"
        BY <1>1, <1>3, WhereFacts
    <1>7. \A m \in Instances : InSection(m)' = InSection(m)
        BY <1>1 DEF InSection
    <1>8. Counts(n)' /\ (Counts(n) <=> InSection(n))
        BY <1>2, <1>5, <1>6 DEF Counts, Hooking, Ending
    <1>9. g_hook_count' = Cardinality(Counted)'
        <2>1. /\ (n \in Hooks => (Counts(n)' <=> Counts(n)))
                    => Cardinality(Counted') = g_hook_count
              /\ n \in Hooks /\ Counts(n)' /\ ~Counts(n)
                    => Cardinality(Counted') = g_hook_count + 1
            BY <1>5, <1>7, CountedMoves
        <2>2. CASE hook
            BY <2>1, <2>2, <1>1, <1>8
        <2>3. CASE ~hook
            BY <2>1, <2>3, <1>1, <1>3, <1>8 DEF SectionTypes
        <2> QED
            BY <2>2, <2>3
    <1>10. \A m \in Hooks : m # n => (Counts(m)' <=> Counts(m))
        BY <1>3, <1>5, <1>7, UsageFacts DEF Counts
    <1>11. label = "hook_clear" => hook /\ g_hook_count = 0
        BY DEF HookLabel
    <1>12. label = "push" /\ hook => g_hook_count # 0
        BY DEF HookLabel
    <1> HIDE DEF label, hook
    <1>13. CallsFit'
        <2>1. Where(n)' \in Hooking => n \in Hooks /\ ~InSection(n)
            BY <1>2, <1>5, <1>11 DEF Hooking, hook
        <2>2. Where(n)' \notin Popping /\ Where(n)' \notin Ignoring
            BY <1>2, <1>5 DEF Popping, Ignoring
        <2> QED
            BY <2>1, <2>2, <1>5, <1>7 DEF SectionInv, CallsFit
    <1>14. SwitchesAlone'
        <2> SUFFICES ASSUME OneHooker, NEW m \in Hooks, NEW k \in Hooks, m # k,
                            Where(m)' \in Hooking \cup Ignoring
                     PROVE  ~InSection(k)'
            BY <1>5 DEF SwitchesAlone
        <2>1. CASE m = n
            <3>1. g_hook_count = 0
                BY <1>2, <1>5, <1>11, <2>1 DEF Hooking, Ignoring
            <3>2. ~Counts(k) /\ Where(k) = "idle"
                BY <1>1, <2>1, <3>1, HookCountTells, OthersIdle
            <3> QED
                BY <1>3, <1>7, <3>2, UsageFacts DEF Counts, Ending
        <2>2. CASE m # n
            BY <1>3, <1>5, <1>7, <2>2, UsageFacts DEF SectionInv, SwitchesAlone
        <2> QED
            BY <2>1, <2>2
    <1>15. HandlerFits'
        <2> SUFFICES ASSUME OneHooker, NEW m \in Hooks, Counts(m)', Where(m)' \notin Hooking
                     PROVE  disposition = "handler"
            BY <1>1, <1>5 DEF HandlerFits
        <2>1. CASE m # n
            BY <1>3, <1>5, <1>10, <2>1, UsageFacts DEF SectionInv, HandlerFits
        <2>2. CASE m = n /\ InSection(n)
            BY <1>6, <1>8, <2>2 DEF SectionInv, HandlerFits, Hooking
        <2>3. CASE m = n /\ ~InSection(n)
            <3>1. g_hook_count # 0
                BY <1>2, <1>5, <1>12, <2>3 DEF hook, Hooking
            <3>2. PICK k \in Hooks : Counts(k)
                BY <3>1, HookCountTells
            <3>3. Where(k) = "idle"
                BY <1>1, <2>3, OthersIdle
            <3> QED
                BY <3>2, <3>3 DEF SectionInv, HandlerFits, Hooking
        <2> QED
            BY <2>1, <2>2, <2>3
    <1>16. FlagsFit'
        <2>1. Where(n)' \notin Ending
            BY <1>2, <1>5 DEF Ending
        <2> QED
            BY <1>1, <1>5, <1>7, <2>1, FlagsKept DEF SectionInv, FlagsFit
    <1>17. FramesFit'
        BY <1>1, FramesUndisturbed
    <1> QED
        BY <1>5, <1>9, <1>13, <1>14, <1>15, <1>16, <1>17 DEF SectionInv

\* The steps of a call between its beginning and its end.
Follows(from, label) ==
    <<from, label>> \in {<<"hook_clear", "hook_install">>, <<"hook_install", "push">>,
                         <<"pop_ignore", "pop_clear">>, <<"end_ignore", "end_clear">>,
                         <<"pop_clear", "popped">>, <<"end_clear", "ended">>,
                         <<"popped", "idle">>}

\* They keep everything but what is said of the handler and of the flags.
LEMMA MiddleStep ==
    ASSUME SectionInv, NEW n \in Instances, NEW from \in Labels, NEW label \in Labels,
           NEW cb \in Callbacks \cup {NoCallback},
           Thread(n, from), Follows(from, label), Goto(n, label, cb),
           UNCHANGED <<usage, g_hook_count, timeout, break_stack, current_cb, pushed,
                       due>>,
           g_sigint_flag' \in BOOLEAN, is_breaked' \in [Instances -> BOOLEAN],
           disposition' \in {"default", "handler", "ignore"},
           HandlerFits', FlagsFit'
    PROVE  SectionInv'
    <1>1. SectionTypes
        BY DEF SectionInv
    <1>2. /\ SectionTypes' /\ Hooks' = Hooks /\ OneHooker' = OneHooker
          /\ Where(n)' = label
          /\ \A m \in Instances : m # n => Where(m)' = Where(m)
        BY <1>1, CallStep DEF SectionTypes
    <1>3. Where(n) = from
        BY <1>1, WhereFacts
    <1>4. \A m \in Instances : InSection(m)' = InSection(m)
        BY DEF InSection
    <1>5. /\ label \in Hooking => from \in Hooking
          /\ label \in Popping => from \in Popping
          /\ label \in Ignoring => from \in Ignoring
          /\ label \in Ending <=> from \in Ending
          /\ label \in Hooking \cup {"push"} <=> from \in Hooking \cup {"push"}
        BY DEF Follows, Hooking, Popping, Ignoring, Ending
    <1>6. CallsFit'
        BY <1>2, <1>3, <1>4, <1>5 DEF SectionInv, CallsFit
    <1>7. Counts(n)' <=> Counts(n)
        BY <1>2, <1>3, <1>4, <1>5 DEF Counts
    <1>8. g_hook_count' = Cardinality(Counted)'
        BY <1>2, <1>4, <1>7, CountedMoves
    <1>9. SwitchesAlone'
        <2> SUFFICES ASSUME OneHooker, NEW m \in Hooks, NEW k \in Hooks, m # k,
                            Where(m)' \in Hooking \cup Ignoring
                     PROVE  ~InSection(k)'
            BY <1>2 DEF SwitchesAlone
        <2>1. m \in Instances /\ k \in Instances
            BY <1>1, UsageFacts
        <2>2. Where(m) \in Hooking \cup Ignoring
            BY <1>2, <1>3, <1>5, <2>1
        <2> QED
            BY <1>4, <2>1, <2>2 DEF SectionInv, SwitchesAlone
    <1>10. FramesFit'
        BY FramesUndisturbed
    <1> QED
        BY <1>2, <1>6, <1>8, <1>9, <1>10 DEF SectionInv

\* Where a thread goes on in a call for n, and what that changes.
LEMMA CallMoves ==
    ASSUME SectionInv, NEW n \in Instances, NEW from \in Labels, NEW label \in Labels,
           NEW cb \in Callbacks \cup {NoCallback},
           Thread(n, from), Goto(n, label, cb), UNCHANGED <<usage, break_stack>>
    PROVE  /\ Where(n) = from /\ Where(n)' = label
           /\ \A m \in Instances : m # n => Where(m)' = Where(m)
           /\ \A m \in Instances : InSection(m)' = InSection(m)
           /\ Hooks' = Hooks /\ OneHooker' = OneHooker /\ Hooks \subseteq Instances
           /\ pc[Owner[n]].cb \in Callbacks \cup {NoCallback}
    <1>1. SectionTypes
        BY DEF SectionInv
    <1>2. pc[Owner[n]].intr = n
        BY DEF Thread
    <1>3. Hooks' = Hooks /\ OneHooker' = OneHooker
        BY DEF Hooks, OneHooker, Owner
    <1>4. \A m \in Instances : InSection(m)' = InSection(m)
        BY DEF InSection
    <1>5. pc[Owner[n]].cb \in Callbacks \cup {NoCallback}
        BY <1>1, UsageFacts DEF SectionTypes
    <1> QED
        BY <1>1, <1>2, <1>3, <1>4, <1>5, GotoFacts, WhereFacts, UsageFacts

\* The first to hook clears the flag, and nobody else relies on it.
LEMMA HookClearSafe ==
    ASSUME SectionInv, NEW n \in Instances, HookClear(n), UNCHANGED usage
    PROVE  SectionInv'
    <1> DEFINE cb == pc[Owner[n]].cb
    <1>1. /\ Thread(n, "hook_clear") /\ Goto(n, "hook_install", cb)
          /\ UNCHANGED <<usage, g_hook_count, disposition, is_breaked, timeout,
                         break_stack, current_cb, pushed, due>>
          /\ g_sigint_flag' = FALSE
        BY DEF HookClear, fields
    <1>2. /\ "hook_clear" \in Labels /\ "hook_install" \in Labels
          /\ Follows("hook_clear", "hook_install")
        BY DEF Labels, Follows
    <1>3. cb \in Callbacks \cup {NoCallback}
        BY UsageFacts DEF SectionInv, SectionTypes
    <1> HIDE DEF cb
    <1>4. /\ Where(n) = "hook_clear" /\ Where(n)' = "hook_install"
          /\ \A m \in Instances : m # n => Where(m)' = Where(m)
          /\ \A m \in Instances : InSection(m)' = InSection(m)
          /\ Hooks' = Hooks /\ OneHooker' = OneHooker /\ Hooks \subseteq Instances
        BY <1>1, <1>2, <1>3, CallMoves
    <1>5. n \in Hooks /\ ~InSection(n)
        BY <1>4 DEF SectionInv, CallsFit, Hooking
    <1>6. HandlerFits'
        BY <1>1, <1>4 DEF SectionInv, HandlerFits, Counts, Hooking
    <1>7. FlagsFit'
        <2>1. OneHooker => \A m \in due : m \in Hooks => m # n /\ InSection(m)
            BY <1>5 DEF SectionInv, FlagsFit
        <2>2. OneHooker => \A m \in Hooks : m # n => ~InSection(m)
            BY <1>4, <1>5 DEF SectionInv, SwitchesAlone, Hooking
        <2>3. n \notin due
            BY <1>5 DEF SectionInv, FlagsFit
        <2> QED
            BY <1>1, <1>4, <2>1, <2>2, <2>3, FlagsKept
    <1> QED
        BY <1>1, <1>2, <1>3, <1>6, <1>7, MiddleStep DEF SectionInv, SectionTypes

LEMMA HookInstallSafe ==
    ASSUME SectionInv, NEW n \in Instances, HookInstall(n), UNCHANGED usage
    PROVE  SectionInv'
    <1> DEFINE cb == pc[Owner[n]].cb
    <1>1. /\ Thread(n, "hook_install") /\ Goto(n, "push", cb)
          /\ UNCHANGED <<usage, g_hook_count, g_sigint_flag, is_breaked, timeout,
                         break_stack, current_cb, pushed, due>>
          /\ disposition' = "handler"
        BY DEF HookInstall, fields
    <1>2. /\ "hook_install" \in Labels /\ "push" \in Labels
          /\ Follows("hook_install", "push")
        BY DEF Labels, Follows
    <1>3. cb \in Callbacks \cup {NoCallback}
        BY UsageFacts DEF SectionInv, SectionTypes
    <1> HIDE DEF cb
    <1>4. /\ Where(n) = "hook_install" /\ Where(n)' = "push"
          /\ \A m \in Instances : m # n => Where(m)' = Where(m)
          /\ \A m \in Instances : InSection(m)' = InSection(m)
          /\ Hooks' = Hooks /\ OneHooker' = OneHooker /\ Hooks \subseteq Instances
        BY <1>1, <1>2, <1>3, CallMoves
    <1>5. HandlerFits'
        BY <1>1 DEF HandlerFits
    <1>6. FlagsFit'
        <2>1. n \notin due
            BY <1>4 DEF SectionInv, FlagsFit, CallsFit, Hooking
        <2> QED
            BY <1>1, <1>4, <2>1, FlagsKept
    <1> QED
        BY <1>1, <1>2, <1>3, <1>5, <1>6, MiddleStep DEF SectionInv, SectionTypes

\* The last to unhook is alone with the signal.
LEMMA UnhookIgnoreSafe ==
    ASSUME SectionInv, NEW n \in Instances, UnhookIgnore(n), UNCHANGED usage
    PROVE  SectionInv'
    <1>1. PICK from \in {"pop_ignore", "end_ignore"},
               label \in {"pop_clear", "end_clear"} :
            /\ Thread(n, from) /\ Goto(n, label, NoCallback) /\ Follows(from, label)
        BY DEF UnhookIgnore, Follows
    <1>2. /\ UNCHANGED <<usage, g_hook_count, g_sigint_flag, is_breaked, timeout,
                         break_stack, current_cb, pushed, due>>
          /\ disposition' = "ignore"
        BY DEF UnhookIgnore, fields
    <1>3. from \in Labels /\ label \in Labels /\ NoCallback \in Callbacks \cup {NoCallback}
        BY DEF Labels
    <1>4. /\ Where(n) = from /\ Where(n)' = label
          /\ \A m \in Instances : m # n => Where(m)' = Where(m)
          /\ \A m \in Instances : InSection(m)' = InSection(m)
          /\ Hooks' = Hooks /\ OneHooker' = OneHooker /\ Hooks \subseteq Instances
        BY <1>1, <1>2, <1>3, CallMoves
    <1>5. n \in Hooks /\ n \notin due /\ (InSection(n) => from \in Ending)
        BY <1>4 DEF SectionInv, CallsFit, FlagsFit, Ignoring, Popping, Ending
    <1>6. HandlerFits'
        <2> SUFFICES ASSUME OneHooker, NEW m \in Hooks
                     PROVE  ~Counts(m)'
            BY <1>4 DEF HandlerFits
        <2>1. CASE m = n
            BY <1>1, <1>4, <1>5, <2>1 DEF Counts, Follows, Hooking, Ending
        <2>2. CASE m # n
            <3>1. Where(m) = "idle"
                BY <1>4, <1>5, <2>2, OthersIdle
            <3>2. ~InSection(m)
                BY <1>4, <1>5, <2>2 DEF SectionInv, SwitchesAlone, Ignoring
            <3> QED
                BY <1>4, <2>2, <3>1, <3>2 DEF Counts, Hooking
        <2> QED
            BY <2>1, <2>2
    <1>7. FlagsFit'
        BY <1>2, <1>4, <1>5, FlagsKept
    <1> QED
        BY <1>1, <1>2, <1>3, <1>6, <1>7, MiddleStep DEF SectionInv, SectionTypes

LEMMA UnhookClearSafe ==
    ASSUME SectionInv, NEW n \in Instances, UnhookClear(n), UNCHANGED usage
    PROVE  SectionInv'
    <1>1. PICK from \in {"pop_clear", "end_clear"},
               label \in {"popped", "ended"} :
            /\ Thread(n, from) /\ Goto(n, label, NoCallback) /\ Follows(from, label)
        BY DEF UnhookClear, Follows
    <1>2. /\ UNCHANGED <<usage, g_hook_count, disposition, is_breaked, timeout,
                         break_stack, current_cb, pushed, due>>
          /\ g_sigint_flag' = FALSE
        BY DEF UnhookClear, fields
    <1>3. from \in Labels /\ label \in Labels /\ NoCallback \in Callbacks \cup {NoCallback}
        BY DEF Labels
    <1>4. /\ Where(n) = from /\ Where(n)' = label
          /\ \A m \in Instances : m # n => Where(m)' = Where(m)
          /\ \A m \in Instances : InSection(m)' = InSection(m)
          /\ Hooks' = Hooks /\ OneHooker' = OneHooker /\ Hooks \subseteq Instances
        BY <1>1, <1>2, <1>3, CallMoves
    <1>5. n \in Hooks /\ n \notin due /\ (InSection(n) => from \in Ending)
        BY <1>4 DEF SectionInv, CallsFit, FlagsFit, Ignoring, Popping, Ending
    <1>6. HandlerFits'
        BY <1>1, <1>2, <1>4, <1>5
        DEF SectionInv, HandlerFits, Counts, Follows, Hooking, Ending
    <1>7. FlagsFit'
        <2>1. OneHooker => \A m \in Hooks : m # n => ~InSection(m)
            BY <1>4, <1>5 DEF SectionInv, SwitchesAlone, Ignoring
        <2>2. OneHooker => \A m \in due : m \notin Hooks
            BY <1>5, <2>1 DEF SectionInv, FlagsFit
        <2> QED
            BY <1>2, <1>4, <1>5, <2>2, FlagsKept
    <1> QED
        BY <1>1, <1>2, <1>3, <1>6, <1>7, MiddleStep DEF SectionInv, SectionTypes

LEMMA PoppedSafe ==
    ASSUME SectionInv, NEW n \in Instances, Popped(n), UNCHANGED usage
    PROVE  SectionInv'
    <1>1. /\ Thread(n, "popped") /\ Goto(n, "idle", NoCallback)
          /\ UNCHANGED <<usage, g_hook_count, disposition, g_sigint_flag, timeout,
                         break_stack, current_cb, pushed, due>>
          /\ is_breaked' = [is_breaked EXCEPT ![n] = FALSE]
        BY DEF Popped, signal
    <1>2. /\ "popped" \in Labels /\ "idle" \in Labels /\ Follows("popped", "idle")
          /\ NoCallback \in Callbacks \cup {NoCallback}
        BY DEF Labels, Follows
    <1>3. /\ Where(n) = "popped" /\ Where(n)' = "idle"
          /\ \A m \in Instances : m # n => Where(m)' = Where(m)
          /\ \A m \in Instances : InSection(m)' = InSection(m)
          /\ Hooks' = Hooks /\ OneHooker' = OneHooker /\ Hooks \subseteq Instances
        BY <1>1, <1>2, CallMoves
    <1>4. ~InSection(n) /\ n \notin due
        BY <1>3 DEF SectionInv, CallsFit, FlagsFit, Popping
    <1>5. is_breaked' \in [Instances -> BOOLEAN] /\ due \subseteq Instances
          /\ \A m \in Instances : m # n => is_breaked'[m] = is_breaked[m]
        BY <1>1 DEF SectionInv, SectionTypes
    <1>6. HandlerFits'
        BY <1>1, <1>3, <1>4 DEF SectionInv, HandlerFits, Counts, Hooking
    <1>7. FlagsFit'
        BY <1>1, <1>3, <1>4, <1>5, FlagsKept
    <1> QED
        BY <1>1, <1>2, <1>5, <1>6, <1>7, MiddleStep DEF SectionInv, SectionTypes

\* A new frame keeps the callback of the section around.
LEMMA FramePushed ==
    ASSUME SectionInv, NEW n \in Instances, NEW cb \in Callbacks \cup {NoCallback},
           break_stack' = [break_stack EXCEPT ![n] = Append(@, current_cb[n])],
           current_cb' = [current_cb EXCEPT ![n] = cb],
           pushed' = [pushed EXCEPT ![n] = Append(@, cb)]
    PROVE  /\ break_stack' \in [Instances -> Seq(Callbacks \cup {NoCallback})]
           /\ current_cb' \in [Instances -> Callbacks \cup {NoCallback}]
           /\ pushed' \in [Instances -> Seq(Callbacks \cup {NoCallback})]
           /\ FramesFit'
           /\ InSection(n)'
           /\ \A m \in Instances : m # n => InSection(m)' = InSection(m)
    <1> DEFINE C == Callbacks \cup {NoCallback}
    <1>1. /\ break_stack \in [Instances -> Seq(C)] /\ pushed \in [Instances -> Seq(C)]
          /\ current_cb \in [Instances -> C]
        BY DEF SectionInv, SectionTypes
    <1> HIDE DEF C
    <1>2. /\ break_stack[n] \in Seq(C) /\ pushed[n] \in Seq(C) /\ current_cb[n] \in C
          /\ cb \in C
        BY <1>1 DEF C
    <1> DEFINE b == Append(break_stack[n], current_cb[n])
               p == Append(pushed[n], cb)
    <1>3. /\ b \in Seq(C) /\ b # <<>> /\ Len(b) = Len(break_stack[n]) + 1
          /\ \A k \in 1..Len(break_stack[n]) : b[k] = break_stack[n][k]
          /\ b[Len(break_stack[n]) + 1] = current_cb[n]
        BY <1>2, AppendFacts
    <1>4. /\ p \in Seq(C) /\ p # <<>> /\ Len(p) = Len(pushed[n]) + 1
          /\ \A k \in 1..Len(pushed[n]) : p[k] = pushed[n][k]
          /\ p[Len(pushed[n]) + 1] = cb
        BY <1>2, AppendFacts
    <1>5. /\ break_stack' \in [Instances -> Seq(C)] /\ break_stack'[n] = b
          /\ pushed' \in [Instances -> Seq(C)] /\ pushed'[n] = p
          /\ current_cb' \in [Instances -> C] /\ current_cb'[n] = cb
          /\ \A m \in Instances : m # n => /\ break_stack'[m] = break_stack[m]
                                           /\ pushed'[m] = pushed[m]
                                           /\ current_cb'[m] = current_cb[m]
        BY <1>1, <1>2, <1>3, <1>4
    <1> HIDE DEF b, p
    <1>6. /\ Len(break_stack[n]) = Len(pushed[n])
          /\ \A k \in 1..Len(pushed[n]) :
                break_stack[n][k] = IF k = 1 THEN NoCallback ELSE pushed[n][k - 1]
          /\ current_cb[n] = IF pushed[n] = <<>> THEN NoCallback ELSE Last(pushed[n])
        BY DEF SectionInv, FramesFit, FrameFits
    <1>7. Len(pushed[n]) \in Nat /\ (Len(pushed[n]) = 0 <=> pushed[n] = <<>>)
        BY <1>2, EmptySeq, LenProperties
    <1>8. current_cb[n] = IF Len(pushed[n]) = 0 THEN NoCallback
                                                ELSE pushed[n][Len(pushed[n])]
        BY <1>6, <1>7 DEF Last
    <1>9. Last(p) = cb
        BY <1>4, <1>7 DEF Last
    <1>10. Len(b) = Len(p)
        BY <1>3, <1>4, <1>6
    <1>11. \A k \in 1..Len(p) : b[k] = IF k = 1 THEN NoCallback ELSE p[k - 1]
        <2> SUFFICES ASSUME NEW k \in 1..Len(p)
                     PROVE  b[k] = IF k = 1 THEN NoCallback ELSE p[k - 1]
            OBVIOUS
        <2>1. CASE k = Len(pushed[n]) + 1
            BY <1>3, <1>4, <1>6, <1>7, <1>8, <2>1
        <2>2. CASE k # Len(pushed[n]) + 1
            <3>1. k \in 1..Len(pushed[n])
                BY <1>4, <1>7, <2>2
            <3>2. k # 1 => k - 1 \in 1..Len(pushed[n])
                BY <1>7, <3>1
            <3> QED
                BY <1>3, <1>4, <1>6, <3>1, <3>2
        <2> QED
            BY <2>1, <2>2
    <1>12. FramesFit'
        <2>1. FrameFits(n)'
            BY <1>4, <1>5, <1>9, <1>10, <1>11 DEF FrameFits
        <2>2. \A m \in Instances : m # n => FrameFits(m)' = FrameFits(m)
            BY <1>5 DEF FrameFits
        <2> QED
            BY <2>1, <2>2 DEF SectionInv, FramesFit
    <1>13. /\ InSection(n)'
           /\ \A m \in Instances : m # n => InSection(m)' = InSection(m)
        BY <1>3, <1>5 DEF InSection
    <1> QED
        BY <1>5, <1>12, <1>13 DEF C

\* The innermost frame gives it back.
LEMMA FramePopped ==
    ASSUME SectionInv, NEW n \in Instances, InSection(n),
           break_stack' = [break_stack EXCEPT ![n] = Front(@)],
           current_cb' = [current_cb EXCEPT ![n] = RestoredCallback(n)],
           pushed' = [pushed EXCEPT ![n] = Front(@)]
    PROVE  /\ break_stack' \in [Instances -> Seq(Callbacks \cup {NoCallback})]
           /\ current_cb' \in [Instances -> Callbacks \cup {NoCallback}]
           /\ pushed' \in [Instances -> Seq(Callbacks \cup {NoCallback})]
           /\ FramesFit'
           /\ InSection(n)' <=> Len(break_stack[n]) # 1
           /\ \A m \in Instances : m # n => InSection(m)' = InSection(m)
    <1> DEFINE C == Callbacks \cup {NoCallback}
    <1>1. /\ break_stack \in [Instances -> Seq(C)] /\ pushed \in [Instances -> Seq(C)]
          /\ current_cb \in [Instances -> C]
        BY DEF SectionInv, SectionTypes
    <1> HIDE DEF C
    <1>2. /\ break_stack[n] \in Seq(C) /\ pushed[n] \in Seq(C) /\ current_cb[n] \in C
        BY <1>1 DEF C
    <1>3. /\ Len(break_stack[n]) = Len(pushed[n])
          /\ \A k \in 1..Len(pushed[n]) :
                break_stack[n][k] = IF k = 1 THEN NoCallback ELSE pushed[n][k - 1]
        BY DEF SectionInv, FramesFit, FrameFits
    <1>4. break_stack[n] # <<>> /\ pushed[n] # <<>>
        BY <1>2, <1>3, EmptySeq, LenProperties DEF InSection
    <1> DEFINE b == Front(break_stack[n])
               p == Front(pushed[n])
               N == Len(pushed[n])
    <1>5. /\ b \in Seq(C) /\ Len(b) = N - 1
          /\ \A k \in 1..(N - 1) : b[k] = break_stack[n][k]
          /\ Last(break_stack[n]) = break_stack[n][N]
          /\ Last(break_stack[n]) \in C
        BY <1>2, <1>3, <1>4, FrontFacts
    <1>6. /\ p \in Seq(C) /\ Len(p) = N - 1 /\ N \in Nat \ {0}
          /\ \A k \in 1..(N - 1) : p[k] = pushed[n][k]
        BY <1>2, <1>4, FrontFacts
    <1>7. /\ break_stack' \in [Instances -> Seq(C)] /\ break_stack'[n] = b
          /\ pushed' \in [Instances -> Seq(C)] /\ pushed'[n] = p
          /\ current_cb' \in [Instances -> C] /\ current_cb'[n] = Last(break_stack[n])
          /\ \A m \in Instances : m # n => /\ break_stack'[m] = break_stack[m]
                                           /\ pushed'[m] = pushed[m]
                                           /\ current_cb'[m] = current_cb[m]
        BY <1>1, <1>2, <1>5, <1>6 DEF RestoredCallback
    <1> HIDE DEF b, p, N
    <1>8. p = <<>> <=> N = 1
        BY <1>6, EmptySeq, LenProperties
    <1>9. b = <<>> <=> N = 1
        BY <1>5, <1>6, EmptySeq, LenProperties
    <1>10. Last(break_stack[n]) = IF N = 1 THEN NoCallback ELSE pushed[n][N - 1]
        <2>1. N \in 1..N
            BY <1>6
        <2>2. \A k \in 1..N :
                break_stack[n][k] = IF k = 1 THEN NoCallback ELSE pushed[n][k - 1]
            BY <1>3 DEF N
        <2> QED
            BY <1>5, <2>1, <2>2
    <1>11. Last(break_stack[n]) = IF p = <<>> THEN NoCallback ELSE Last(p)
        BY <1>6, <1>8, <1>10 DEF Last
    <1>12. \A k \in 1..Len(p) : b[k] = IF k = 1 THEN NoCallback ELSE p[k - 1]
        <2> SUFFICES ASSUME NEW k \in 1..(N - 1)
                     PROVE  b[k] = IF k = 1 THEN NoCallback ELSE p[k - 1]
            BY <1>6
        <2>1. k \in 1..N /\ (k # 1 => k - 1 \in 1..(N - 1))
            BY <1>6
        <2> QED
            BY <1>3, <1>5, <1>6, <2>1 DEF N
    <1>13. FramesFit'
        <2>1. FrameFits(n)'
            BY <1>5, <1>6, <1>7, <1>11, <1>12 DEF FrameFits
        <2>2. \A m \in Instances : m # n => FrameFits(m)' = FrameFits(m)
            BY <1>7 DEF FrameFits
        <2> QED
            BY <2>1, <2>2 DEF SectionInv, FramesFit
    <1>14. /\ InSection(n)' <=> Len(break_stack[n]) # 1
           /\ \A m \in Instances : m # n => InSection(m)' = InSection(m)
        BY <1>3, <1>7, <1>9 DEF InSection, N
    <1> QED
        BY <1>7, <1>13, <1>14 DEF C

LEMMA PushFrameSafe ==
    ASSUME SectionInv, NEW n \in Instances, PushFrame(n), UNCHANGED usage
    PROVE  SectionInv'
    <1> DEFINE cb == pc[Owner[n]].cb
    <1>1. /\ Thread(n, "push") /\ Goto(n, "idle", NoCallback)
          /\ UNCHANGED <<usage, g_hook_count, disposition, g_sigint_flag, timeout, due>>
          /\ is_breaked' = [is_breaked EXCEPT ![n] = @ /\ InSection(n)]
          /\ break_stack' = [break_stack EXCEPT ![n] = Append(@, current_cb[n])]
          /\ current_cb' = [current_cb EXCEPT ![n] = cb]
          /\ pushed' = [pushed EXCEPT ![n] = Append(@, cb)]
        BY DEF PushFrame, signal
    <1>2. cb \in Callbacks \cup {NoCallback}
        BY UsageFacts DEF SectionInv, SectionTypes
    <1> HIDE DEF cb
    <1>3. /\ break_stack' \in [Instances -> Seq(Callbacks \cup {NoCallback})]
          /\ current_cb' \in [Instances -> Callbacks \cup {NoCallback}]
          /\ pushed' \in [Instances -> Seq(Callbacks \cup {NoCallback})]
          /\ FramesFit'
          /\ InSection(n)'
          /\ \A m \in Instances : m # n => InSection(m)' = InSection(m)
        BY <1>1, <1>2, FramePushed
    <1>4. /\ "push" \in Labels /\ "idle" \in Labels
          /\ NoCallback \in Callbacks \cup {NoCallback}
        BY DEF Labels
    <1>5. SectionTypes
        BY DEF SectionInv
    <1>6. /\ is_breaked' \in [Instances -> BOOLEAN] /\ due \subseteq Instances
          /\ \A m \in Instances : m # n => is_breaked'[m] = is_breaked[m]
          /\ InSection(n) => is_breaked'[n] = is_breaked[n]
        <2>1. is_breaked \in [Instances -> BOOLEAN] /\ due \subseteq Instances
            BY <1>5 DEF SectionTypes
        <2>2. InSection(n) \in BOOLEAN
            BY DEF InSection
        <2> HIDE DEF InSection
        <2> QED
            BY <1>1, <2>1, <2>2
    <1>7. /\ SectionTypes' /\ Hooks' = Hooks /\ OneHooker' = OneHooker
          /\ Where(n)' = "idle"
          /\ \A m \in Instances : m # n => Where(m)' = Where(m)
        BY <1>1, <1>3, <1>4, <1>5, <1>6, CallStep DEF SectionTypes
    <1>8. Where(n) = "push" /\ Hooks \subseteq Instances
        BY <1>1, <1>4, <1>5, WhereFacts, UsageFacts
    <1>9. Counts(n) /\ Counts(n)'
        BY <1>3, <1>7, <1>8 DEF Counts, Hooking, Ending
    <1>10. g_hook_count' = Cardinality(Counted)'
        BY <1>1, <1>3, <1>7, <1>9, CountedMoves
    <1>11. CallsFit'
        BY <1>3, <1>7, <1>8 DEF SectionInv, CallsFit, Hooking, Popping, Ignoring
    <1>12. SwitchesAlone'
        <2> SUFFICES ASSUME OneHooker, NEW m \in Hooks, NEW k \in Hooks, m # k,
                            Where(m)' \in Hooking \cup Ignoring
                     PROVE  ~InSection(k)'
            BY <1>7 DEF SwitchesAlone
        <2>1. m # n
            BY <1>7 DEF Hooking, Ignoring
        <2>2. Where(m) \in Hooking \cup Ignoring
            BY <1>7, <1>8, <2>1
        <2>3. k # n
            BY <1>8, <2>1, <2>2, OthersIdle DEF Hooking, Ignoring
        <2> QED
            BY <1>3, <1>8, <2>2, <2>3 DEF SectionInv, SwitchesAlone
    <1>13. HandlerFits'
        <2> SUFFICES ASSUME OneHooker, NEW m \in Hooks, Counts(m)', Where(m)' \notin Hooking
                     PROVE  disposition = "handler"
            BY <1>1, <1>7 DEF HandlerFits
        <2>1. Counts(m) /\ Where(m) \notin Hooking
            BY <1>3, <1>7, <1>8, <1>9 DEF Counts, Hooking
        <2> QED
            BY <2>1 DEF SectionInv, HandlerFits
    <1>14. FlagsFit'
        <2>1. n \in due => InSection(n)
            BY DEF SectionInv, FlagsFit
        <2>2. Where(n)' \notin Ending
            BY <1>7 DEF Ending
        <2> QED
            BY <1>1, <1>3, <1>6, <1>7, <2>1, <2>2, FlagsKept
    <1> QED
        BY <1>3, <1>7, <1>10, <1>11, <1>12, <1>13, <1>14 DEF SectionInv

\* What rz_interrupt_unhook leaves behind, on either way out of a section: n
\* is not counted any more, and only the last one goes on to switch the signal
\* off.
LEMMA UnhookStep ==
    ASSUME SectionInv, NEW n \in Instances, NEW rest \in {"popped", "ended"},
           Ready(n), InSection(n), Unhook(n, rest), UNCHANGED <<usage, disposition>>,
           \A m \in Instances : m # n => /\ InSection(m)' = InSection(m)
                                         /\ Where(m)' = Where(m),
           rest = "popped" => ~InSection(n)',
           Where(n)' = (IF n \in Hooks /\ g_hook_count = 1
                        THEN IF rest = "popped" THEN "pop_ignore" ELSE "end_ignore"
                        ELSE rest),
           Hooks' = Hooks, OneHooker' = OneHooker
    PROVE  HookInv'
    <1>1. Where(n) = "idle" /\ Hooks \subseteq Instances
        BY WhereFacts, UsageFacts DEF SectionInv
    <1>2. Counts(n)
        BY <1>1 DEF Counts, Ending
    <1>3. ~Counts(n)'
        BY DEF Counts, Hooking, Ending
    <1>4. g_hook_count' = Cardinality(Counted)'
        <2>1. g_hook_count' = g_hook_count - (IF n \in Hooks THEN 1 ELSE 0)
            BY DEF Unhook
        <2>2. g_hook_count \in Nat
            BY DEF SectionInv, SectionTypes
        <2>3. CASE n \in Hooks
            BY <2>1, <2>2, <2>3, <1>2, <1>3, CountedMoves
        <2>4. CASE n \notin Hooks
            BY <2>1, <2>2, <2>4, CountedMoves
        <2> QED
            BY <2>3, <2>4
    <1>5. /\ Where(n)' \notin Hooking
          /\ Where(n)' \in Popping => rest = "popped"
          /\ Where(n)' \in Ignoring => n \in Hooks /\ g_hook_count = 1
        BY DEF Hooking, Popping, Ignoring
    <1>6. CallsFit'
        BY <1>5 DEF SectionInv, CallsFit
    <1>7. SwitchesAlone'
        <2> SUFFICES ASSUME OneHooker, NEW m \in Hooks, NEW k \in Hooks, m # k,
                            Where(m)' \in Hooking \cup Ignoring
                     PROVE  ~InSection(k)'
            BY DEF SwitchesAlone
        <2>1. CASE m = n
            <3>1. ~Counts(k) /\ Where(k) = "idle"
                BY <1>2, <1>5, <2>1, HookCountTells, OthersIdle
            <3> QED
                BY <1>1, <2>1, <3>1 DEF Counts, Ending
        <2>2. CASE m # n
            <3>1. Where(m) \in Hooking \cup Ignoring
                BY <1>1, <2>2
            <3>2. ~InSection(k)
                BY <3>1 DEF SectionInv, SwitchesAlone
            <3> QED
                BY <1>1, <3>2
        <2> QED
            BY <2>1, <2>2
    <1>8. HandlerFits'
        <2> SUFFICES ASSUME OneHooker, NEW m \in Hooks, Counts(m)', Where(m)' \notin Hooking
                     PROVE  disposition = "handler"
            BY DEF HandlerFits
        <2>1. Counts(m) /\ Where(m) \notin Hooking
            BY <1>1, <1>3 DEF Counts, Hooking
        <2> QED
            BY <2>1 DEF SectionInv, HandlerFits
    <1> QED
        BY <1>4, <1>6, <1>7, <1>8 DEF HookInv

LEMMA BreakPopSafe ==
    ASSUME SectionInv, NEW n \in Instances, rz_interrupt_break_pop(n), UNCHANGED usage
    PROVE  SectionInv'
    <1>1. /\ Ready(n) /\ InSection(n)
          /\ UNCHANGED <<usage, disposition, g_sigint_flag, is_breaked, timeout>>
          /\ break_stack' = [break_stack EXCEPT ![n] = Front(@)]
          /\ current_cb' = [current_cb EXCEPT ![n] = RestoredCallback(n)]
          /\ pushed' = [pushed EXCEPT ![n] = Front(@)]
        BY DEF rz_interrupt_break_pop
    <1>2. /\ break_stack' \in [Instances -> Seq(Callbacks \cup {NoCallback})]
          /\ current_cb' \in [Instances -> Callbacks \cup {NoCallback}]
          /\ pushed' \in [Instances -> Seq(Callbacks \cup {NoCallback})]
          /\ FramesFit'
          /\ InSection(n)' <=> Len(break_stack[n]) # 1
          /\ \A m \in Instances : m # n => InSection(m)' = InSection(m)
        BY <1>1, FramePopped
    <1>3. SectionTypes
        BY DEF SectionInv
    <1>4. CASE Len(break_stack[n]) = 1
        <2> DEFINE label == IF n \in Hooks /\ g_hook_count = 1 THEN "pop_ignore" ELSE "popped"
        <2>1. /\ Unhook(n, "popped") /\ due' = due \ {n}
              /\ Goto(n, label, NoCallback)
              /\ g_hook_count' = g_hook_count - (IF n \in Hooks THEN 1 ELSE 0)
            BY <1>4 DEF rz_interrupt_break_pop, Unhook
        <2>2. label \in Labels /\ NoCallback \in Callbacks \cup {NoCallback}
            BY DEF Labels
        <2>3. g_hook_count' \in Nat
            <3>1. Where(n) = "idle"
                BY <1>1, <1>3, WhereFacts
            <3>2. n \in Hooks => g_hook_count >= 1
                BY <1>1, <3>1, HookCountTells DEF Counts, Ending
            <3> QED
                BY <1>3, <2>1, <3>2 DEF SectionTypes
        <2> HIDE DEF label
        <2>4. /\ SectionTypes' /\ Hooks' = Hooks /\ OneHooker' = OneHooker
              /\ Where(n)' = label
              /\ \A m \in Instances : m # n => Where(m)' = Where(m)
            BY <1>1, <1>2, <1>3, <2>1, <2>2, <2>3, CallStep DEF SectionTypes
        <2>5. HookInv'
            BY <1>1, <1>2, <1>4, <2>1, <2>4, UnhookStep DEF label
        <2>6. FlagsFit'
            BY <1>1, <1>2, <2>1, <2>4, FlagsKept
        <2> QED
            BY <1>2, <2>4, <2>5, <2>6 DEF SectionInv, HookInv
    <1>5. CASE Len(break_stack[n]) # 1
        <2>1. UNCHANGED <<g_hook_count, pc, due>>
            BY <1>5 DEF rz_interrupt_break_pop
        <2>2. \A m \in Instances : InSection(m)' = InSection(m)
            BY <1>1, <1>2, <1>5 DEF InSection
        <2>3. /\ Hooks' = Hooks /\ OneHooker' = OneHooker /\ Owner' = Owner
              /\ Hooks \subseteq Instances
            BY <1>1, <1>3, UsageFacts DEF Hooks, OneHooker, Owner
        <2>4. \A m \in Instances : Where(m)' = Where(m)
            BY <2>1, <2>3 DEF Where
        <2>5. \A m \in Instances : Counts(m)' = Counts(m)
            BY <2>2, <2>4 DEF Counts
        <2>6. Counted' = Counted
            BY <2>3, <2>5 DEF Counted
        <2>7. HookInv'
            BY <1>1, <2>1, <2>2, <2>3, <2>4, <2>5, <2>6
            DEF SectionInv, HookInv, CallsFit, SwitchesAlone, HandlerFits
        <2>8. FlagsFit'
            <3>1. n \in due => InSection(n)' /\ Where(n)' \notin Ending
                BY <2>2, <2>4 DEF SectionInv, FlagsFit
            <3> QED
                BY <1>1, <2>1, <2>2, <2>3, <2>4, <3>1, FlagsKept
        <2>9. SectionTypes'
            BY <1>1, <1>2, <1>3, <2>1 DEF SectionTypes, Users, Owner
        <2> QED
            BY <1>2, <2>7, <2>8, <2>9 DEF SectionInv, HookInv
    <1> QED
        BY <1>4, <1>5

LEMMA BreakEndSafe ==
    ASSUME SectionInv, NEW n \in Instances, rz_interrupt_break_end(n), UNCHANGED usage
    PROVE  SectionInv'
    <1> DEFINE label == IF InSection(n) /\ n \in Hooks /\ g_hook_count = 1
                        THEN "end_ignore" ELSE "ended"
    <1>1. /\ Ready(n) /\ Goto(n, label, NoCallback)
          /\ UNCHANGED <<usage, disposition, g_sigint_flag, break_stack, current_cb,
                         pushed>>
          /\ is_breaked' = [is_breaked EXCEPT ![n] = FALSE]
          /\ timeout' = [timeout EXCEPT ![n] = "none"]
          /\ due' = due \ {n}
          /\ g_hook_count' = g_hook_count - (IF InSection(n) /\ n \in Hooks THEN 1 ELSE 0)
        <2>1. g_hook_count \in Nat
            BY DEF SectionInv, SectionTypes
        <2>2. CASE InSection(n)
            BY <2>1, <2>2 DEF rz_interrupt_break_end, EndUnhooks, Unhook
        <2>3. CASE ~InSection(n)
            BY <2>1, <2>3 DEF rz_interrupt_break_end, EndUnhooks
        <2> QED
            BY <2>2, <2>3
    <1>2. label \in Labels /\ NoCallback \in Callbacks \cup {NoCallback}
        BY DEF Labels
    <1>3. SectionTypes
        BY DEF SectionInv
    <1>4. Where(n) = "idle" /\ Hooks \subseteq Instances
        BY <1>1, <1>3, WhereFacts, UsageFacts
    <1>5. g_hook_count' \in Nat
        <2>1. n \in Hooks /\ InSection(n) => g_hook_count >= 1
            BY <1>4, HookCountTells DEF Counts, Ending
        <2> QED
            BY <1>1, <1>3, <2>1 DEF SectionTypes
    <1>6. /\ is_breaked' \in [Instances -> BOOLEAN]
          /\ timeout' \in [Instances -> {"none", "armed", "past"}]
          /\ due' \subseteq Instances
          /\ \A m \in Instances : m # n => is_breaked'[m] = is_breaked[m]
        BY <1>1, <1>3 DEF SectionTypes
    <1> HIDE DEF label
    <1>7. /\ SectionTypes' /\ Hooks' = Hooks /\ OneHooker' = OneHooker
          /\ Where(n)' = label
          /\ \A m \in Instances : m # n => Where(m)' = Where(m)
        BY <1>1, <1>2, <1>3, <1>5, <1>6, CallStep DEF SectionTypes
    <1>8. \A m \in Instances : InSection(m)' = InSection(m)
        BY <1>1 DEF InSection
    <1>9. HookInv'
        <2>1. CASE InSection(n)
            <3>1. Unhook(n, "ended")
                BY <2>1 DEF rz_interrupt_break_end, EndUnhooks
            <3> QED
                BY <1>1, <1>7, <1>8, <2>1, <3>1, UnhookStep DEF label
        <2>2. CASE ~InSection(n)
            <3>1. Where(n)' = "ended"
                BY <1>7, <2>2 DEF label
            <3>2. ~Counts(n) /\ ~Counts(n)'
                BY <1>4, <1>8, <2>2, <3>1 DEF Counts, Hooking
            <3>3. g_hook_count' = g_hook_count
                BY <1>1, <1>3, <2>2 DEF SectionTypes
            <3>4. g_hook_count' = Cardinality(Counted)'
                BY <1>1, <1>7, <1>8, <3>2, <3>3, CountedMoves
            <3>5. CallsFit'
                BY <1>7, <1>8, <3>1 DEF SectionInv, CallsFit, Hooking, Popping, Ignoring
            <3>6. SwitchesAlone'
                BY <1>4, <1>7, <1>8, <3>1 DEF SectionInv, SwitchesAlone, Hooking, Ignoring
            <3>7. HandlerFits'
                BY <1>1, <1>4, <1>7, <1>8, <3>1, <3>2
                DEF SectionInv, HandlerFits, Counts, Hooking
            <3> QED
                BY <3>4, <3>5, <3>6, <3>7 DEF HookInv
        <2> QED
            BY <2>1, <2>2
    <1>10. FlagsFit'
        <2>1. n \notin due' /\ due' \subseteq due
            BY <1>1
        <2>2. \A m \in due' : is_breaked'[m] = is_breaked[m]
            BY <1>6, <2>1
        <2> QED
            BY <1>1, <1>7, <1>8, <2>1, <2>2, FlagsKept
    <1>11. FramesFit'
        BY <1>1, FramesUndisturbed
    <1> QED
        BY <1>7, <1>9, <1>10, <1>11 DEF SectionInv, HookInv

LEMMA EndedSafe ==
    ASSUME SectionInv, NEW n \in Instances, Ended(n), UNCHANGED usage
    PROVE  SectionInv'
    <1>1. /\ Thread(n, "ended") /\ Goto(n, "idle", NoCallback)
          /\ UNCHANGED <<usage, g_hook_count, disposition, g_sigint_flag, is_breaked,
                         timeout>>
          /\ break_stack' = [break_stack EXCEPT ![n] = <<>>]
          /\ pushed' = [pushed EXCEPT ![n] = <<>>]
          /\ current_cb' = [current_cb EXCEPT ![n] = NoCallback]
          /\ due' = due \ {n}
        BY DEF Ended, signal
    <1>2. /\ "ended" \in Labels /\ "idle" \in Labels
          /\ NoCallback \in Callbacks \cup {NoCallback}
        BY DEF Labels
    <1>3. SectionTypes
        BY DEF SectionInv
    <1>4. /\ break_stack' \in [Instances -> Seq(Callbacks \cup {NoCallback})]
          /\ current_cb' \in [Instances -> Callbacks \cup {NoCallback}]
          /\ pushed' \in [Instances -> Seq(Callbacks \cup {NoCallback})]
          /\ break_stack'[n] = <<>> /\ pushed'[n] = <<>> /\ current_cb'[n] = NoCallback
          /\ \A m \in Instances : m # n => /\ break_stack'[m] = break_stack[m]
                                           /\ pushed'[m] = pushed[m]
                                           /\ current_cb'[m] = current_cb[m]
          /\ due' \subseteq Instances
        <2> DEFINE C == Callbacks \cup {NoCallback}
        <2>1. /\ break_stack \in [Instances -> Seq(C)] /\ pushed \in [Instances -> Seq(C)]
              /\ current_cb \in [Instances -> C] /\ due \subseteq Instances
            BY <1>3 DEF SectionTypes
        <2>2. NoCallback \in C /\ <<>> \in Seq(C)
            OBVIOUS
        <2> HIDE DEF C
        <2>3. /\ break_stack' \in [Instances -> Seq(C)] /\ pushed' \in [Instances -> Seq(C)]
              /\ current_cb' \in [Instances -> C] /\ due' \subseteq Instances
            BY <1>1, <2>1, <2>2
        <2> QED
            BY <1>1, <2>1, <2>3 DEF C
    <1>5. /\ SectionTypes' /\ Hooks' = Hooks /\ OneHooker' = OneHooker
          /\ Where(n)' = "idle"
          /\ \A m \in Instances : m # n => Where(m)' = Where(m)
        BY <1>1, <1>2, <1>3, <1>4, CallStep DEF SectionTypes
    <1>6. Where(n) = "ended" /\ Hooks \subseteq Instances
        BY <1>1, <1>2, <1>3, WhereFacts, UsageFacts
    <1>7. ~InSection(n)' /\ \A m \in Instances : m # n => InSection(m)' = InSection(m)
        BY <1>4 DEF InSection
    <1>8. ~Counts(n) /\ ~Counts(n)'
        BY <1>5, <1>6, <1>7 DEF Counts, Hooking, Ending
    <1>9. g_hook_count' = Cardinality(Counted)'
        BY <1>1, <1>5, <1>7, <1>8, CountedMoves
    <1>10. CallsFit'
        BY <1>5, <1>7 DEF SectionInv, CallsFit, Hooking, Popping, Ignoring
    <1>11. SwitchesAlone'
        BY <1>5, <1>6, <1>7 DEF SectionInv, SwitchesAlone, Hooking, Ignoring
    <1>12. HandlerFits'
        BY <1>1, <1>5, <1>6, <1>7, <1>8 DEF SectionInv, HandlerFits, Counts, Hooking
    <1>13. FlagsFit'
        BY <1>1, <1>3, <1>5, <1>7, FlagsKept DEF SectionTypes
    <1>14. FramesFit'
        <2>1. FrameFits(n)'
            BY <1>4 DEF FrameFits
        <2>2. \A m \in Instances : m # n => FrameFits(m)' = FrameFits(m)
            BY <1>4 DEF FrameFits
        <2> QED
            BY <2>1, <2>2 DEF SectionInv, FramesFit
    <1> QED
        BY <1>5, <1>9, <1>10, <1>11, <1>12, <1>13, <1>14 DEF SectionInv

LEMMA SectionsBegin == Init => SectionInv
    <1> SUFFICES ASSUME Init PROVE SectionInv
        OBVIOUS
    <1>1. usage \in Usages
        BY DEF Init
    <1>2. Owner \in [Instances -> Threads]
        BY <1>1, InterruptAssumption DEF Owner
    <1>3. \A t \in Users : \E n \in Instances : Owner[n] = t
        BY <1>2 DEF Users, Range
    <1> DEFINE first(t) == CHOOSE n \in Instances : Owner[n] = t
    <1>4. \A t \in Users : first(t) \in Instances /\ Owner[first(t)] = t
        BY <1>3
    <1>5. pc = [t \in Users |-> [at |-> "idle", intr |-> first(t), cb |-> NoCallback]]
        BY DEF Init, Idle
    <1> HIDE DEF first
    <1>6. /\ pc \in [Users -> [at : Labels, intr : Instances,
                               cb : Callbacks \cup {NoCallback}]]
          /\ \A t \in Users : Owner[pc[t].intr] = t
          /\ \A t \in Users : pc[t].at = "idle"
        BY <1>4, <1>5 DEF Labels
    <1>7. SectionTypes
        <2> DEFINE C == Callbacks \cup {NoCallback}
        <2>1. <<>> \in Seq(C) /\ NoCallback \in C
            OBVIOUS
        <2> HIDE DEF C
        <2>2. /\ break_stack \in [Instances -> Seq(C)] /\ pushed \in [Instances -> Seq(C)]
              /\ current_cb \in [Instances -> C]
            BY <2>1 DEF Init
        <2>3. /\ is_breaked \in [Instances -> BOOLEAN] /\ g_sigint_flag \in BOOLEAN
              /\ timeout \in [Instances -> {"none", "armed", "past"}]
            BY DEF Init
        <2> QED
            BY <1>1, <1>6, <2>2, <2>3 DEF Init, SectionTypes, C
    <1>8. \A n \in Instances : Where(n) = "idle" /\ ~InSection(n)
        BY <1>6, <1>7, UsageFacts DEF Where, InSection, Init
    <1>9. \A n \in Instances : ~Counts(n)
        BY <1>8 DEF Counts, Hooking
    <1>10. Hooks \subseteq Instances
        BY <1>7, UsageFacts
    <1>11. g_hook_count = Cardinality(Counted)
        <2>1. Counted = {}
            BY <1>9, <1>10 DEF Counted
        <2> QED
            BY <2>1, FS_EmptySet DEF Init
    <1>12. CallsFit /\ SwitchesAlone /\ HandlerFits
        BY <1>8, <1>9, <1>10 DEF CallsFit, SwitchesAlone, HandlerFits, Hooking, Popping,
                                 Ignoring
    <1>13. FlagsFit
        BY DEF FlagsFit, Init
    <1>14. FramesFit
        BY DEF FramesFit, FrameFits, Init
    <1> QED
        BY <1>7, <1>11, <1>12, <1>13, <1>14 DEF SectionInv

LEMMA SectionsGoOn == SectionInv /\ [Next]_sections => SectionInv'
    <1> SUFFICES ASSUME SectionInv, [Next]_sections PROVE SectionInv'
        OBVIOUS
    <1>1. CASE UNCHANGED sections
        <2>1. /\ UNCHANGED <<usage, g_sigint_flag, g_hook_count, disposition, is_breaked,
                             timeout, break_stack, current_cb, pc, pushed, due>>
            BY <1>1 DEF sections, vars, signal, fields
        <2> QED
            BY <2>1, QuietStep DEF SectionInv, SectionTypes, FlagsFit
    <1>2. CASE Next
        BY <1>2, SigintSafe, RaiseSafe, FlagCallsSafe, BreakPushSafe, HookClearSafe,
           HookInstallSafe, PushFrameSafe, BreakPopSafe, PoppedSafe, BreakEndSafe,
           EndedSafe, UnhookIgnoreSafe, UnhookClearSafe
        DEF Next, Step
    <1> QED
        BY <1>1, <1>2

LEMMA SectionsSafe == SectionInv => SectionsAreSafe
    <1> SUFFICES ASSUME SectionInv PROVE SectionsAreSafe
        OBVIOUS
    <1>1. SectionTypes
        BY DEF SectionInv
    <1>2. TypeOK
        <2>1. \A t \in Users :
                pc[t] \in [at : Labels, intr : {n \in Instances : Owner[n] = t},
                           cb : Callbacks \cup {NoCallback}]
            BY <1>1 DEF SectionTypes
        <2> QED
            BY <1>1, <2>1 DEF TypeOK, SectionTypes, Labels
    <1>3. \A n \in Hooks : Ready(n) => Where(n) = "idle"
        BY <1>1, UsageFacts, WhereFacts
    <1>4. NoLostInterrupt
        BY DEF NoLostInterrupt, SectionInv, FlagsFit
    <1>5. HookedInSection
        BY <1>3 DEF HookedInSection, SectionInv, HandlerFits, Counts, Hooking, Ending
    <1>6. InnermostCallback
        BY DEF InnermostCallback, SectionInv, FramesFit, FrameFits
    <1>7. HooksCounted
        <2> SUFFICES ASSUME \A t \in Users : pc[t].at = "idle"
                     PROVE  g_hook_count = Cardinality({n \in Hooks : InSection(n)})
            BY DEF HooksCounted
        <2>1. \A n \in Hooks : Where(n) = "idle"
            BY <1>1, UsageFacts DEF Where
        <2>2. Counted = {n \in Hooks : InSection(n)}
            BY <2>1 DEF Counted, Counts, Hooking, Ending
        <2> QED
            BY <2>2 DEF SectionInv
    <1> QED
        BY <1>2, <1>4, <1>5, <1>6, <1>7 DEF SectionsAreSafe

\* However many instances, threads and nested sections there are, the hook is
\* there while somebody needs it, no interrupt of rz_interrupt_raise or SIGINT
\* is lost, and the callback is the one of the innermost section.
THEOREM InterruptsAreSafe == Spec => []SectionsAreSafe
    <1>1. Init => SectionInv
        BY SectionsBegin
    <1>2. SectionInv /\ [Next]_<<vars, usage>> => SectionInv'
        BY SectionsGoOn DEF sections
    <1>3. SectionInv => SectionsAreSafe
        BY SectionsSafe
    <1> QED
        BY <1>1, <1>2, <1>3, PTL DEF Spec

-----------------------------------------------------------------------------
(* The driver of the abstract interpreter.                                 *)

Interps == Driver!InterpThreads
Requests == Driver!Requests
Messages == Driver!Messages
Looping == {"spawn", "loop", "take", "serve"}
Asked == {"await", "ended", "freed"}

\* The types of everything the driver uses.
DriverTypes ==
    /\ entry_points_ch \subseteq Entries /\ queue_closed \in BOOLEAN
    /\ main_ch \in Seq(Messages) /\ Len(main_ch) <= MainChSize
    /\ main_closed \in BOOLEAN
    /\ ch \in [Interps -> Seq(Requests)]
    /\ ch_closed \in [Interps -> BOOLEAN]
    /\ th \in [Interps -> {"none", "pop", "run", "await", "ended", "freed"}]
    /\ entry \in [Interps -> Entries \cup {NoEntry}]
    /\ request \in [Interps -> Requests]
    /\ at \in Looping \cup {"close_queue", "close_main", "close_ch", "join", "done"}
    /\ msg \in Messages \cup {Driver!NoMessage}
    /\ i \in 1..(NThreads + 1)
    /\ entries_finished \in Nat
    /\ breaked \in BOOLEAN /\ return_code \in BOOLEAN
    /\ interrupted \in BOOLEAN
    /\ finished \in [Entries -> {0, 1}]

\* The messages of the threads: the one in the hands of the main loop, then
\* those in its channel.
Ways == 0..Len(main_ch)
OnWay(k) == IF k = 0 THEN msg ELSE main_ch[k]
IsRequest(k) == OnWay(k).type \in Requests
IsResult(k) == OnWay(k).type = "INTERP_RESULT"

\* A request is the last one of its sender, who has no answer yet.
RequestFits(k) ==
    /\ th[OnWay(k).sender] \in Asked
    /\ OnWay(k).type = request[OnWay(k).sender]
    /\ ch[OnWay(k).sender] = <<>>

RequestsFit ==
    /\ \A k \in Ways : IsRequest(k) => RequestFits(k)
    /\ \A k, l \in Ways :
         IsRequest(k) /\ IsRequest(l) /\ OnWay(k).sender = OnWay(l).sender => k = l

\* An answer is that to the last request.
AnswersFit ==
    \A t \in Interps :
        ch[t] # <<>> => th[t] \in Asked /\ Len(ch[t]) = 1 /\ ch[t][1] = request[t]

\* Nobody waits for nothing.
WaitersFit ==
    \A t \in Interps :
        th[t] = "await" /\ at \in Looping
            => ch[t] # <<>> \/ \E k \in Ways : IsRequest(k) /\ OnWay(k).sender = t

\* A result is the only one for its entry point, which nobody else holds.
ResultFits(k) ==
    /\ OnWay(k).entry \in Entries
    /\ OnWay(k).entry \notin entry_points_ch
    /\ \A t \in Interps : entry[t] # OnWay(k).entry
    /\ finished[OnWay(k).entry] = 0

ResultsFit ==
    /\ \A k \in Ways : IsResult(k) => ResultFits(k)
    /\ \A k, l \in Ways :
         IsResult(k) /\ IsResult(l) /\ OnWay(k).entry = OnWay(l).entry => k = l

\* A thread holds an entry point that nobody else holds.
EntriesFit ==
    /\ \A t \in Interps :
         /\ th[t] \in {"run", "await"} => entry[t] # NoEntry
         /\ th[t] \in {"none", "pop"} => entry[t] = NoEntry
         /\ entry[t] # NoEntry =>
              /\ entry[t] \notin entry_points_ch
              /\ finished[entry[t]] = 0
    /\ \A t, u \in Interps : entry[t] = entry[u] /\ entry[t] # NoEntry => t = u
    /\ \A e \in entry_points_ch : finished[e] = 0

\* What the place of the main loop says.
LoopFits ==
    /\ at \in Looping => ~queue_closed /\ ~main_closed
    /\ at \in Looping \cup {"close_queue", "close_main"} =>
         \A t \in Interps : ~ch_closed[t]
    /\ at = "spawn" => /\ i \in Interps /\ ~return_code
                       /\ \A t \in Interps : t >= i => th[t] = "none"
    /\ at \in {"close_ch", "join"} => i \in Interps
    /\ at # "serve" => msg = Driver!NoMessage
    /\ at \notin Looping /\ return_code /\ ~breaked =>
         entries_finished >= Cardinality(Entries)

DriverInv ==
    /\ DriverTypes
    /\ RequestsFit
    /\ AnswersFit
    /\ WaitersFit
    /\ ResultsFit
    /\ EntriesFit
    /\ entries_finished = Cardinality({e \in Entries : finished[e] = 1})
    /\ LoopFits

\* The two halves of the invariant: what threads and main loop say to each
\* other, and what becomes of the entry points.
TalkInv == RequestsFit /\ AnswersFit /\ WaitersFit

WorkInv ==
    /\ ResultsFit
    /\ EntriesFit
    /\ entries_finished = Cardinality({e \in Entries : finished[e] = 1})

\* The messages of the new state are those of the old one, d places further,
\* except what was dropped.
Moved(d) ==
    \A k \in Ways' : IsRequest(k)' \/ IsResult(k)' =>
        k + d \in Ways /\ OnWay(k)' = OnWay(k + d)

\* No request was dropped.
Kept(d) ==
    \A k \in Ways : IsRequest(k) => k - d \in Ways' /\ OnWay(k - d)' = OnWay(k)

\* AbsintDriver counts as this module does.
LEMMA SameCardinality ==
    /\ \A S : Driver!IsFiniteSet(S) <=> IsFiniteSet(S)
    /\ \A S : Driver!Cardinality(S) = Cardinality(S)
    <1>1. \A S : Driver!IsFiniteSet(S) <=> IsFiniteSet(S)
        BY DEF Driver!IsFiniteSet, IsFiniteSet
    <1>2. \A S : Driver!Cardinality(S) = Cardinality(S)
        BY Zenon DEF Driver!Cardinality, Cardinality
    <1> QED
        BY <1>1, <1>2

LEMMA EntriesFinite == IsFiniteSet(Entries)
    BY DriverConstants, SameCardinality DEF Driver!DriverAssumption

\* Messages have a thread as sender.
LEMMA WayTypes ==
    ASSUME DriverTypes
    PROVE  /\ Ways \subseteq Nat /\ 0 \in Ways
           /\ \A k \in Ways : OnWay(k) \in Messages \cup {Driver!NoMessage}
           /\ \A k \in Ways : IsRequest(k) \/ IsResult(k) => OnWay(k).sender \in Interps
           /\ \A k \in Ways : IsResult(k) => OnWay(k).entry \in Entries \cup {NoEntry}
           /\ \A k \in Ways : ~(IsRequest(k) /\ IsResult(k))
    <1>1. /\ main_ch \in Seq(Messages) /\ msg \in Messages \cup {Driver!NoMessage}
        BY DEF DriverTypes
    <1>2. Len(main_ch) \in Nat
        BY <1>1
    <1>3. \A k \in Ways : k = 0 \/ k \in 1..Len(main_ch)
        BY <1>2 DEF Ways
    <1>4. \A k \in Ways : OnWay(k) \in Messages \cup {Driver!NoMessage}
        BY <1>1, <1>3 DEF OnWay
    <1>5. \A m \in Messages \cup {Driver!NoMessage} :
            m.type \in Requests \/ m.type = "INTERP_RESULT" =>
                m.sender \in Interps /\ m.entry \in Entries \cup {NoEntry}
        BY DEF Messages, Driver!Messages, Driver!NoMessage, Requests, Driver!Requests,
               Interps
    <1>6. "INTERP_RESULT" \notin Requests
        BY DEF Requests, Driver!Requests
    <1>7. Ways \subseteq Nat /\ 0 \in Ways
        BY <1>2 DEF Ways
    <1> QED
        BY <1>4, <1>5, <1>6, <1>7 DEF IsRequest, IsResult

LEMMA WaysUnchanged ==
    ASSUME DriverTypes, UNCHANGED <<main_ch, msg>>
    PROVE  /\ Ways' = Ways /\ \A k \in Ways : OnWay(k)' = OnWay(k)
           /\ Moved(0) /\ Kept(0)
    <1>1. /\ Ways' = Ways /\ \A k : OnWay(k)' = OnWay(k)
        BY DEF Ways, OnWay
    <1>2. \A k \in Ways : k + 0 = k /\ k - 0 = k
        BY WayTypes
    <1> QED
        BY <1>1, <1>2 DEF Moved, Kept

\* A thread puts a message into main_ch.
LEMMA WaysPut ==
    ASSUME DriverTypes, NEW m \in Messages, main_ch' = Append(main_ch, m),
           UNCHANGED msg, NEW n, n = Len(main_ch) + 1
    PROVE  /\ n \notin Ways /\ Ways' = Ways \cup {n}
           /\ \A k \in Ways : OnWay(k)' = OnWay(k)
           /\ OnWay(n)' = m
    <1>1. main_ch \in Seq(Messages)
        BY DEF DriverTypes
    <1>2. Len(main_ch) \in Nat
        BY <1>1
    <1>3. /\ Len(Append(main_ch, m)) = Len(main_ch) + 1
          /\ \A k \in 1..Len(main_ch) : Append(main_ch, m)[k] = main_ch[k]
          /\ Append(main_ch, m)[Len(main_ch) + 1] = m
        BY <1>1, AppendFacts
    <1>4. n \notin Ways /\ Ways' = Ways \cup {n}
        BY <1>2, <1>3 DEF Ways
    <1>5. \A k \in Ways : k = 0 \/ k \in 1..Len(main_ch)
        BY <1>2 DEF Ways
    <1>6. \A k \in Ways : OnWay(k)' = OnWay(k)
        BY <1>3, <1>5 DEF OnWay
    <1>7. OnWay(n)' = m
        BY <1>2, <1>3 DEF OnWay
    <1> QED
        BY <1>4, <1>6, <1>7

\* The main loop takes one.
LEMMA WaysTake ==
    ASSUME DriverTypes, msg = Driver!NoMessage, main_ch # <<>>,
           msg' = Head(main_ch), main_ch' = Tail(main_ch)
    PROVE  Moved(1) /\ Kept(1)
    <1>1. main_ch \in Seq(Messages)
        BY DEF DriverTypes
    <1>2. /\ Len(main_ch) \in Nat \ {0} /\ Len(main_ch') = Len(main_ch) - 1
          /\ \A k \in 1..(Len(main_ch) - 1) : main_ch'[k] = main_ch[k + 1]
          /\ msg' = main_ch[1]
        BY <1>1, TailFacts
    <1>3. \A k \in Ways' : k + 1 \in Ways /\ OnWay(k)' = OnWay(k + 1)
        <2> SUFFICES ASSUME NEW k \in 0..(Len(main_ch) - 1)
                     PROVE  k + 1 \in Ways /\ OnWay(k)' = OnWay(k + 1)
            BY <1>2 DEF Ways
        <2>1. k + 1 \in Ways /\ k + 1 # 0
            BY <1>2 DEF Ways
        <2>2. k # 0 => k \in 1..(Len(main_ch) - 1)
            OBVIOUS
        <2> QED
            BY <1>2, <2>1, <2>2 DEF OnWay
    <1>4. \A k \in Ways : IsRequest(k) => k # 0
        BY DEF IsRequest, OnWay, Driver!NoMessage, Requests, Driver!Requests
    <1>5. \A k \in Ways : k # 0 => k - 1 \in Ways' /\ (k - 1) + 1 = k
        BY <1>2 DEF Ways
    <1> QED
        BY <1>3, <1>4, <1>5 DEF Moved, Kept

\* It has served one, or drops it.
LEMMA WaysServed ==
    ASSUME DriverTypes, msg' = Driver!NoMessage, UNCHANGED main_ch
    PROVE  /\ Ways' = Ways /\ ~IsRequest(0)' /\ ~IsResult(0)'
           /\ \A k \in Ways : k # 0 => OnWay(k)' = OnWay(k)
           /\ Moved(0)
    <1>1. Ways' = Ways /\ \A k \in Ways : k # 0 => OnWay(k)' = OnWay(k)
        BY DEF Ways, OnWay
    <1>2. ~IsRequest(0)' /\ ~IsResult(0)'
        BY DEF IsRequest, IsResult, OnWay, Driver!NoMessage, Requests, Driver!Requests
    <1>3. \A k \in Ways : k + 0 = k
        BY WayTypes
    <1> QED
        BY <1>1, <1>2, <1>3 DEF Moved

\* Steps that say nothing new keep what was said.
LEMMA TalkKept ==
    ASSUME DriverInv, NEW d \in {0, 1}, Moved(d), at' \in Looping => Kept(d),
           UNCHANGED <<ch, request>>,
           \A t \in Interps : th[t] \in Asked => th'[t] \in Asked,
           \A t \in Interps : th'[t] = "await" /\ at' \in Looping
                                => th[t] = "await" /\ at \in Looping
    PROVE  TalkInv'
    <1>1. DriverTypes /\ Ways \subseteq Nat
        BY WayTypes DEF DriverInv
    <1>2. \A k \in Ways' : IsRequest(k)' =>
            k + d \in Ways /\ OnWay(k)' = OnWay(k + d) /\ IsRequest(k + d)
        BY DEF Moved, IsRequest
    <1>3. \A k \in Ways' : IsRequest(k)' => RequestFits(k)'
        BY <1>1, <1>2, WayTypes DEF DriverInv, RequestsFit, RequestFits
    <1>4. \A k \in Ways' : k \in Int
        BY DEF Ways
    <1>5. \A k, l \in Ways' :
            IsRequest(k)' /\ IsRequest(l)' /\ OnWay(k)'.sender = OnWay(l)'.sender => k = l
        <2> SUFFICES ASSUME NEW k \in Ways', NEW l \in Ways', IsRequest(k)', IsRequest(l)',
                            OnWay(k)'.sender = OnWay(l)'.sender
                     PROVE  k = l
            OBVIOUS
        <2>1. k + d = l + d
            BY <1>2 DEF DriverInv, RequestsFit
        <2>2. k \in Int /\ l \in Int /\ d \in Int
            BY <1>4
        <2> QED
            BY <2>1, <2>2
    <1>6. AnswersFit'
        BY DEF DriverInv, AnswersFit
    <1>7. WaitersFit'
        <2> SUFFICES ASSUME NEW t \in Interps, th'[t] = "await", at' \in Looping, ch[t] = <<>>
                     PROVE  \E k \in Ways' : IsRequest(k)' /\ OnWay(k)'.sender = t
            BY DEF WaitersFit
        <2>1. PICK k \in Ways : IsRequest(k) /\ OnWay(k).sender = t
            BY DEF DriverInv, WaitersFit
        <2>2. k - d \in Ways' /\ OnWay(k - d)' = OnWay(k)
            BY <2>1 DEF Kept
        <2> QED
            BY <2>1, <2>2 DEF IsRequest
    <1> QED
        BY <1>3, <1>5, <1>6, <1>7 DEF TalkInv, RequestsFit

\* Steps that move no entry point keep the work.
LEMMA WorkKept ==
    ASSUME DriverInv, NEW d \in {0, 1}, Moved(d),
           UNCHANGED <<entry_points_ch, entry, finished, entries_finished>>,
           \A t \in Interps : th'[t] \in {"run", "await"} => th[t] \in {"run", "await"},
           \A t \in Interps : th'[t] \in {"none", "pop"} => th[t] \in {"none", "pop"}
    PROVE  WorkInv'
    <1>1. \A k \in Ways' : IsResult(k)' =>
            k + d \in Ways /\ OnWay(k)' = OnWay(k + d) /\ IsResult(k + d)
        BY DEF Moved, IsResult
    <1>2. \A k \in Ways' : IsResult(k)' => ResultFits(k)'
        BY <1>1 DEF DriverInv, ResultsFit, ResultFits
    <1>3. \A k \in Ways' : k \in Int
        BY DEF Ways
    <1>4. \A k, l \in Ways' :
            IsResult(k)' /\ IsResult(l)' /\ OnWay(k)'.entry = OnWay(l)'.entry => k = l
        <2> SUFFICES ASSUME NEW k \in Ways', NEW l \in Ways', IsResult(k)', IsResult(l)',
                            OnWay(k)'.entry = OnWay(l)'.entry
                     PROVE  k = l
            OBVIOUS
        <2>1. k + d = l + d
            BY <1>1 DEF DriverInv, ResultsFit
        <2>2. k \in Int /\ l \in Int /\ d \in Int
            BY <1>3
        <2> QED
            BY <2>1, <2>2
    <1>5. EntriesFit'
        BY DEF DriverInv, EntriesFit
    <1> QED
        BY <1>2, <1>4, <1>5 DEF WorkInv, ResultsFit, DriverInv

\* What a step that does neither must show.
LEMMA RestKept ==
    ASSUME DriverInv, NEW d \in {0, 1}, Moved(d), at' \in Looping => Kept(d),
           UNCHANGED <<ch, request, entry_points_ch, entry, finished, entries_finished>>,
           \A t \in Interps : th'[t] = "await" => th[t] = "await",
           \A t \in Interps : th[t] \in Asked => th'[t] \in Asked,
           \A t \in Interps : th'[t] \in {"run", "await"} => th[t] \in {"run", "await"},
           \A t \in Interps : th'[t] \in {"none", "pop"} => th[t] \in {"none", "pop"},
           at' \in Looping => at \in Looping,
           DriverTypes', LoopFits'
    PROVE  DriverInv'
    <1>1. TalkInv'
        BY TalkKept
    <1>2. WorkInv'
        BY WorkKept
    <1> QED
        BY <1>1, <1>2 DEF DriverInv, TalkInv, WorkInv

LEMMA InterruptKeeps ==
    ASSUME DriverInv, Driver!Interrupt
    PROVE  DriverInv'
    <1>1. /\ UNCHANGED <<entry_points_ch, queue_closed, main_ch, main_closed, ch, ch_closed,
                         th, entry, request, at, msg, i, entries_finished, breaked,
                         return_code, finished>>
          /\ interrupted' = TRUE
        BY DEF Driver!Interrupt, Driver!channels, Driver!interpreters, Driver!loop
    <1>2. DriverTypes /\ DriverTypes'
        BY <1>1 DEF DriverInv, DriverTypes
    <1>3. LoopFits'
        BY <1>1 DEF DriverInv, LoopFits
    <1>4. Moved(0) /\ Kept(0)
        BY <1>1, <1>2, WaysUnchanged
    <1> QED
        BY <1>1, <1>2, <1>3, <1>4, RestKept

\* A thread that breaks off ends, and holds its entry point for ever.
LEMMA BreakKeeps ==
    ASSUME DriverInv, NEW t \in Interps, Driver!Break(t)
    PROVE  DriverInv'
    <1>1. /\ UNCHANGED <<entry_points_ch, queue_closed, main_ch, main_closed, ch, ch_closed,
                         entry, request, at, msg, i, entries_finished, breaked,
                         return_code, finished, interrupted>>
          /\ th' = [th EXCEPT ![t] = "ended"]
          /\ th[t] \in {"run", "await"}
        BY DEF Driver!Break, Driver!channels, Driver!loop
    <1>2. DriverTypes
        BY DEF DriverInv
    <1>3. /\ th' \in [Interps -> {"none", "pop", "run", "await", "ended", "freed"}]
          /\ th'[t] = "ended"
          /\ \A u \in Interps : u # t => th'[u] = th[u]
        BY <1>1, <1>2 DEF DriverTypes
    <1>4. DriverTypes'
        BY <1>1, <1>2, <1>3 DEF DriverTypes
    <1>5. LoopFits'
        BY <1>1, <1>3 DEF DriverInv, LoopFits
    <1>6. Moved(0) /\ Kept(0)
        BY <1>1, <1>2, WaysUnchanged
    <1>7. \A u \in Interps : /\ th'[u] = "await" => th[u] = "await"
                             /\ th[u] \in Asked => th'[u] \in Asked
                             /\ th'[u] \in {"run", "await"} => th[u] \in {"run", "await"}
                             /\ th'[u] \in {"none", "pop"} => th[u] \in {"none", "pop"}
        BY <1>3 DEF Asked
    <1> QED
        BY <1>1, <1>4, <1>5, <1>6, <1>7, RestKept

LEMMA SpawnKeeps ==
    ASSUME DriverInv, Driver!Spawn
    PROVE  DriverInv'
    <1>1. /\ UNCHANGED <<entry_points_ch, queue_closed, main_ch, main_closed, ch, ch_closed,
                         entry, request, msg, entries_finished, breaked,
                         return_code, finished, interrupted>>
          /\ at = "spawn"
          /\ \/ /\ th' = [th EXCEPT ![i] = "pop"]
                /\ at' = IF i = NThreads THEN "loop" ELSE "spawn"
                /\ i' = i + 1
             \/ at' = "close_queue" /\ UNCHANGED <<th, i>>
        BY DEF Driver!Spawn, Driver!Goto, Driver!channels
    <1>2. DriverTypes
        BY DEF DriverInv
    <1>3. /\ i \in Interps /\ th[i] = "none" /\ ~return_code
          /\ \A t \in Interps : t >= i => th[t] = "none"
        BY <1>1, DriverConstants
        DEF DriverInv, LoopFits, Interps, Driver!InterpThreads, Driver!DriverAssumption
    <1>4. /\ th' \in [Interps -> {"none", "pop", "run", "await", "ended", "freed"}]
          /\ th'[i] \in {"none", "pop"}
          /\ \A u \in Interps : u # i => th'[u] = th[u]
        BY <1>1, <1>2, <1>3 DEF DriverTypes
    <1>5. i \in 1..NThreads /\ NThreads \in Nat
        BY <1>3, DriverConstants
        DEF Interps, Driver!InterpThreads, Driver!DriverAssumption
    <1>6. i' \in 1..(NThreads + 1) /\ at' \in {"spawn", "loop", "close_queue"}
        BY <1>1, <1>5
    <1>7. DriverTypes'
        BY <1>1, <1>2, <1>4, <1>6 DEF DriverTypes, Looping
    <1>8. LoopFits'
        <2>1. ASSUME at' = "spawn"
              PROVE  /\ i' \in Interps
                     /\ \A t \in Interps : t >= i' => th'[t] = "none"
            <3>1. i' = i + 1 /\ i # NThreads
                BY <1>1, <2>1
            <3>2. i' \in Interps
                BY <1>5, <3>1 DEF Interps, Driver!InterpThreads
            <3>3. \A t \in Interps : t >= i' => t >= i /\ t # i
                BY <1>5, <3>1 DEF Interps, Driver!InterpThreads
            <3> QED
                BY <1>3, <1>4, <3>2, <3>3
        <2>2. at \in Looping /\ at # "serve"
            BY <1>1 DEF Looping
        <2>3. /\ ~queue_closed /\ ~main_closed /\ \A t \in Interps : ~ch_closed[t]
              /\ msg = Driver!NoMessage
            BY <2>2 DEF DriverInv, LoopFits
        <2>4. /\ ~queue_closed' /\ ~main_closed' /\ \A t \in Interps : ~ch_closed'[t]
              /\ msg' = Driver!NoMessage /\ ~return_code'
            BY <1>1, <1>3, <2>3
        <2>5. at' \notin {"close_ch", "join"}
            BY <1>6
        <2> QED
            BY <2>1, <2>4, <2>5 DEF LoopFits
    <1>9. Moved(0) /\ Kept(0)
        BY <1>1, <1>2, WaysUnchanged
    <1>10. \A u \in Interps : /\ th'[u] = "await" => th[u] = "await"
                              /\ th[u] \in Asked => th'[u] \in Asked
                              /\ th'[u] \in {"run", "await"} => th[u] \in {"run", "await"}
                              /\ th'[u] \in {"none", "pop"} => th[u] \in {"none", "pop"}
        BY <1>3, <1>4 DEF Asked
    <1>11. at' \in Looping => at \in Looping
        BY <1>1 DEF Looping
    <1> QED
        BY <1>1, <1>7, <1>8, <1>9, <1>10, <1>11, RestKept

\* The loop is left when every entry point is finished, or by an interrupt.
LEMMA LoopTestKeeps ==
    ASSUME DriverInv, Driver!LoopTest
    PROVE  DriverInv'
    <1> DEFINE more == Driver!MoreEntries
    <1>1. /\ UNCHANGED <<entry_points_ch, queue_closed, main_ch, main_closed, ch, ch_closed,
                         th, entry, request, msg, i, entries_finished, finished,
                         interrupted>>
          /\ at = "loop"
          /\ at' = IF more /\ ~interrupted THEN "take" ELSE "close_queue"
          /\ breaked' = (more /\ interrupted)
          /\ return_code' = ~(more /\ ~interrupted)
        BY DEF Driver!LoopTest, Driver!Goto, Driver!channels, Driver!interpreters
    <1>2. DriverTypes
        BY DEF DriverInv
    <1>3. more \in BOOLEAN /\ interrupted \in BOOLEAN
        BY <1>2 DEF Driver!MoreEntries, DriverTypes
    <1>4. ~more => entries_finished >= Cardinality(Entries)
        <2>1. Cardinality(Entries) \in Nat /\ entries_finished \in Nat
            BY <1>2, EntriesFinite, FS_CardinalityType DEF DriverTypes
        <2> QED
            BY <2>1, SameCardinality DEF Driver!MoreEntries
    <1> HIDE DEF more
    <1>5. breaked' \in BOOLEAN /\ return_code' \in BOOLEAN /\ at' \in {"take", "close_queue"}
        BY <1>1, <1>3
    <1>6. DriverTypes'
        BY <1>1, <1>2, <1>5 DEF DriverTypes, Looping
    <1>7. at' \notin Looping /\ return_code' /\ ~breaked' => ~more
        BY <1>1, <1>3 DEF Looping
    <1>8. LoopFits'
        BY <1>1, <1>4, <1>5, <1>7 DEF DriverInv, LoopFits, Looping
    <1>9. Moved(0) /\ Kept(0)
        BY <1>1, <1>2, WaysUnchanged
    <1>10. at \in Looping
        BY <1>1 DEF Looping
    <1> QED
        BY <1>1, <1>6, <1>8, <1>9, <1>10, RestKept

LEMMA TakeKeeps ==
    ASSUME DriverInv, Driver!Take
    PROVE  DriverInv'
    <1>1. /\ UNCHANGED <<entry_points_ch, queue_closed, main_closed, ch, ch_closed,
                         th, entry, request, i, entries_finished, breaked, return_code,
                         finished, interrupted>>
          /\ at = "take" /\ at' = "serve" /\ main_ch # <<>>
          /\ msg' = Head(main_ch) /\ main_ch' = Tail(main_ch)
        BY DEF Driver!Take, Driver!Goto, Driver!interpreters
    <1>2. DriverTypes /\ msg = Driver!NoMessage
        BY <1>1 DEF DriverInv, LoopFits
    <1>3. /\ main_ch' \in Seq(Messages) /\ Len(main_ch') <= MainChSize
          /\ msg' \in Messages
        <2>1. main_ch \in Seq(Messages) /\ Len(main_ch) <= MainChSize /\ MainChSize \in Nat
            BY <1>2, DriverConstants DEF DriverTypes, Driver!DriverAssumption
        <2> QED
            BY <1>1, <2>1, TailFacts
    <1>4. DriverTypes'
        BY <1>1, <1>2, <1>3 DEF DriverTypes, Looping
    <1>5. LoopFits'
        BY <1>1 DEF DriverInv, LoopFits, Looping
    <1>6. Moved(1) /\ Kept(1)
        BY <1>1, <1>2, WaysTake
    <1>7. at \in Looping
        BY <1>1 DEF Looping
    <1> QED
        BY <1>1, <1>4, <1>5, <1>6, <1>7, RestKept

LEMMA ServeInterruptedKeeps ==
    ASSUME DriverInv, Driver!ServeInterrupted
    PROVE  DriverInv'
    <1>1. /\ UNCHANGED <<entry_points_ch, queue_closed, main_ch, main_closed, ch, ch_closed,
                         th, entry, request, i, entries_finished, finished, interrupted>>
          /\ at = "serve" /\ at' = "close_queue" /\ msg' = Driver!NoMessage
          /\ breaked' = TRUE /\ return_code' = TRUE
        BY DEF Driver!ServeInterrupted, Driver!Goto, Driver!interpreters, Driver!channels
    <1>2. DriverTypes
        BY DEF DriverInv
    <1>3. DriverTypes'
        BY <1>1, <1>2 DEF DriverTypes, Looping
    <1>4. LoopFits'
        BY <1>1 DEF DriverInv, LoopFits, Looping
    <1>5. Moved(0)
        BY <1>1, <1>2, WaysServed
    <1>6. at' \notin Looping
        BY <1>1 DEF Looping
    <1> QED
        BY <1>1, <1>3, <1>4, <1>5, <1>6, RestKept

LEMMA CloseQueueKeeps ==
    ASSUME DriverInv, Driver!CloseQueue
    PROVE  DriverInv'
    <1>1. /\ UNCHANGED <<entry_points_ch, main_ch, main_closed, ch, ch_closed, th, entry,
                         request, msg, i, entries_finished, breaked, return_code,
                         finished, interrupted>>
          /\ at = "close_queue" /\ at' = "close_main" /\ queue_closed' = TRUE
        BY DEF Driver!CloseQueue, Driver!Goto, Driver!interpreters, Driver!loop
    <1>2. DriverTypes
        BY DEF DriverInv
    <1>3. DriverTypes'
        BY <1>1, <1>2 DEF DriverTypes, Looping
    <1>4. LoopFits'
        BY <1>1 DEF DriverInv, LoopFits, Looping
    <1>5. Moved(0) /\ at' \notin Looping
        BY <1>1, <1>2, WaysUnchanged DEF Looping
    <1> QED
        BY <1>1, <1>3, <1>4, <1>5, RestKept

LEMMA CloseMainKeeps ==
    ASSUME DriverInv, Driver!CloseMain
    PROVE  DriverInv'
    <1>1. /\ UNCHANGED <<entry_points_ch, main_ch, queue_closed, ch, ch_closed, th, entry,
                         request, msg, entries_finished, breaked, return_code,
                         finished, interrupted>>
          /\ at = "close_main" /\ at' = "close_ch" /\ main_closed' = TRUE /\ i' = 1
        BY DEF Driver!CloseMain, Driver!Goto, Driver!interpreters
    <1>2. DriverTypes
        BY DEF DriverInv
    <1>3. i' \in 1..(NThreads + 1) /\ i' \in Interps
        BY <1>1, DriverConstants
        DEF Driver!DriverAssumption, Interps, Driver!InterpThreads
    <1>4. DriverTypes'
        BY <1>1, <1>2, <1>3 DEF DriverTypes, Looping
    <1>5. LoopFits'
        BY <1>1, <1>3 DEF DriverInv, LoopFits, Looping
    <1>6. Moved(0) /\ at' \notin Looping
        BY <1>1, <1>2, WaysUnchanged DEF Looping
    <1> QED
        BY <1>1, <1>4, <1>5, <1>6, RestKept

LEMMA CloseChKeeps ==
    ASSUME DriverInv, Driver!CloseCh
    PROVE  DriverInv'
    <1>1. /\ UNCHANGED <<entry_points_ch, main_ch, queue_closed, main_closed, ch, th, entry,
                         request, msg, i, entries_finished, breaked, return_code,
                         finished, interrupted>>
          /\ at = "close_ch" /\ at' = "join"
          /\ ch_closed' = [ch_closed EXCEPT ![i] = @ \/ th[i] # "none"]
        BY DEF Driver!CloseCh, Driver!Goto, Driver!interpreters, Driver!loop
    <1>2. DriverTypes
        BY DEF DriverInv
    <1>3. ch_closed' \in [Interps -> BOOLEAN]
        <2>1. ch_closed \in [Interps -> BOOLEAN]
            BY <1>2 DEF DriverTypes
        <2> QED
            BY <1>1, <2>1
    <1>4. DriverTypes'
        BY <1>1, <1>2, <1>3 DEF DriverTypes, Looping
    <1>5. LoopFits'
        BY <1>1 DEF DriverInv, LoopFits, Looping
    <1>6. Moved(0) /\ at' \notin Looping
        BY <1>1, <1>2, WaysUnchanged DEF Looping
    <1> QED
        BY <1>1, <1>4, <1>5, <1>6, RestKept

LEMMA JoinKeeps ==
    ASSUME DriverInv, Driver!Join
    PROVE  DriverInv'
    <1>1. /\ UNCHANGED <<entry_points_ch, main_ch, queue_closed, main_closed, ch, ch_closed,
                         entry, request, msg, entries_finished, breaked, return_code,
                         finished, interrupted>>
          /\ at = "join" /\ th[i] \in {"none", "ended"}
          /\ th' = [th EXCEPT ![i] = "freed"]
          /\ at' = IF i = NThreads THEN "done" ELSE "close_ch"
          /\ i' = i + 1
        BY DEF Driver!Join, Driver!Goto, Driver!channels
    <1>2. DriverTypes /\ i \in Interps
        BY <1>1 DEF DriverInv, LoopFits
    <1>3. i \in 1..NThreads /\ NThreads \in Nat
        BY <1>2, DriverConstants
        DEF Driver!DriverAssumption, Interps, Driver!InterpThreads
    <1>4. i' \in 1..(NThreads + 1) /\ (at' = "close_ch" => i' \in Interps)
        BY <1>1, <1>3 DEF Interps, Driver!InterpThreads
    <1>5. /\ th' \in [Interps -> {"none", "pop", "run", "await", "ended", "freed"}]
          /\ th'[i] = "freed"
          /\ \A u \in Interps : u # i => th'[u] = th[u]
        BY <1>1, <1>2 DEF DriverTypes
    <1>6. at' \in {"done", "close_ch"}
        BY <1>1
    <1>7. DriverTypes'
        BY <1>1, <1>2, <1>4, <1>5, <1>6 DEF DriverTypes, Looping
    <1>8. LoopFits'
        BY <1>1, <1>4, <1>6 DEF DriverInv, LoopFits, Looping
    <1>9. Moved(0) /\ at' \notin Looping
        BY <1>1, <1>2, <1>6, WaysUnchanged DEF Looping
    <1>10. \A u \in Interps : /\ th'[u] = "await" => th[u] = "await"
                              /\ th[u] \in Asked => th'[u] \in Asked
                              /\ th'[u] \in {"run", "await"} => th[u] \in {"run", "await"}
                              /\ th'[u] \in {"none", "pop"} => th[u] \in {"none", "pop"}
        BY <1>5 DEF Asked
    <1> QED
        BY <1>1, <1>7, <1>8, <1>9, <1>10, RestKept

\* An entry point leaves the queue for the thread that pops it.
LEMMA PopEntryKeeps ==
    ASSUME DriverInv, NEW t \in Interps, Driver!PopEntry(t)
    PROVE  DriverInv'
    <1>1. /\ UNCHANGED <<main_ch, queue_closed, main_closed, ch, ch_closed, request, at,
                         msg, i, entries_finished, breaked, return_code, finished,
                         interrupted>>
          /\ th[t] = "pop"
        BY DEF Driver!PopEntry, Driver!loop
    <1>2. DriverTypes
        BY DEF DriverInv
    <1>3. Moved(0) /\ Kept(0) /\ Ways' = Ways /\ \A k \in Ways : OnWay(k)' = OnWay(k)
        BY <1>1, <1>2, WaysUnchanged
    <1>4. CASE /\ th' = [th EXCEPT ![t] = "ended"]
               /\ UNCHANGED <<entry, entry_points_ch>>
        <2>1. /\ th' \in [Interps -> {"none", "pop", "run", "await", "ended", "freed"}]
              /\ th'[t] = "ended"
              /\ \A u \in Interps : u # t => th'[u] = th[u]
            BY <1>2, <1>4 DEF DriverTypes
        <2>2. DriverTypes'
            BY <1>1, <1>2, <1>4, <2>1 DEF DriverTypes
        <2>3. LoopFits'
            BY <1>1, <2>1 DEF DriverInv, LoopFits
        <2>4. \A u \in Interps : /\ th'[u] = "await" => th[u] = "await"
                                 /\ th[u] \in Asked => th'[u] \in Asked
                                 /\ th'[u] \in {"run", "await"} => th[u] \in {"run", "await"}
                                 /\ th'[u] \in {"none", "pop"} => th[u] \in {"none", "pop"}
            BY <1>1, <2>1 DEF Asked
        <2> QED
            BY <1>1, <1>3, <1>4, <2>2, <2>3, <2>4, RestKept
    <1>5. ASSUME NEW e \in entry_points_ch, th' = [th EXCEPT ![t] = "run"],
                 entry_points_ch' = entry_points_ch \ {e},
                 entry' = [entry EXCEPT ![t] = e]
          PROVE  DriverInv'
        <2>1. /\ th' \in [Interps -> {"none", "pop", "run", "await", "ended", "freed"}]
              /\ th'[t] = "run"
              /\ \A u \in Interps : u # t => th'[u] = th[u]
            BY <1>2, <1>5 DEF DriverTypes
        <2>2. e \in Entries /\ e # NoEntry
            BY <1>2, <1>5, DriverConstants DEF DriverTypes, Driver!DriverAssumption
        <2>3. /\ entry' \in [Interps -> Entries \cup {NoEntry}]
              /\ entry'[t] = e
              /\ \A u \in Interps : u # t => entry'[u] = entry[u]
            BY <1>2, <1>5, <2>2 DEF DriverTypes
        <2>4. DriverTypes'
            BY <1>1, <1>2, <1>5, <2>1, <2>3 DEF DriverTypes
        <2>5. LoopFits'
            BY <1>1, <2>1 DEF DriverInv, LoopFits
        <2>6. \A u \in Interps : /\ th'[u] = "await" => th[u] = "await"
                                 /\ th[u] \in Asked => th'[u] \in Asked
            BY <1>1, <2>1 DEF Asked
        <2>7. TalkInv'
            BY <1>1, <1>3, <2>6, TalkKept
        <2>8. \A u \in Interps : entry[u] # e
            BY <1>5, <2>2 DEF DriverInv, EntriesFit
        <2>9. EntriesFit'
            BY <1>1, <1>5, <2>1, <2>2, <2>3, <2>8 DEF DriverInv, EntriesFit
        <2>10. \A k \in Ways : IsResult(k) => OnWay(k).entry # e
            BY <1>5 DEF DriverInv, ResultsFit, ResultFits
        <2>11. ResultsFit'
            <3>1. \A k \in Ways : IsResult(k)' = IsResult(k)
                BY <1>3 DEF IsResult
            <3>2. \A k \in Ways : IsResult(k) => ResultFits(k)'
                BY <1>1, <1>3, <1>5, <2>3, <2>10 DEF DriverInv, ResultsFit, ResultFits
            <3> QED
                BY <1>3, <3>1, <3>2 DEF DriverInv, ResultsFit
        <2> QED
            BY <1>1, <2>4, <2>5, <2>7, <2>9, <2>11 DEF DriverInv, TalkInv
    <1> QED
        BY <1>4, <1>5 DEF Driver!PopEntry

\* A thread that runs has no request under way, so the new one is its only one.
LEMMA AskKeeps ==
    ASSUME DriverInv, NEW t \in Interps, NEW kind \in Requests, Driver!Ask(t, kind)
    PROVE  DriverInv'
    <1> DEFINE m == [type |-> kind, sender |-> t, entry |-> NoEntry, res |-> FALSE]
    <1>1. /\ UNCHANGED <<entry_points_ch, queue_closed, main_closed, ch, ch_closed, entry,
                         at, msg, i, entries_finished, breaked, return_code, finished,
                         interrupted>>
          /\ th[t] = "run" /\ th' = [th EXCEPT ![t] = "await"]
          /\ request' = [request EXCEPT ![t] = kind]
          /\ main_ch' = Append(main_ch, m) /\ Len(main_ch) < MainChSize
        BY DEF Driver!Ask, Driver!PutMain, Driver!loop
    <1>2. DriverTypes
        BY DEF DriverInv
    <1>3. m \in Messages /\ m.type = kind /\ m.sender = t
        BY DEF Messages, Driver!Messages, Requests, Interps
    <1> HIDE DEF m
    <1>4. PICK n : n = Len(main_ch) + 1
        OBVIOUS
    <1>5. /\ n \notin Ways /\ Ways' = Ways \cup {n} /\ OnWay(n)' = m
          /\ \A k \in Ways : OnWay(k)' = OnWay(k)
        BY <1>1, <1>2, <1>3, <1>4, WaysPut
    <1>6. /\ th' \in [Interps -> {"none", "pop", "run", "await", "ended", "freed"}]
          /\ th'[t] = "await"
          /\ \A u \in Interps : u # t => th'[u] = th[u]
        BY <1>1, <1>2 DEF DriverTypes
    <1>7. /\ request' \in [Interps -> Requests] /\ request'[t] = kind
          /\ \A u \in Interps : u # t => request'[u] = request[u]
        BY <1>1, <1>2 DEF DriverTypes
    <1>8. main_ch' \in Seq(Messages) /\ Len(main_ch') <= MainChSize
        <2>1. main_ch \in Seq(Messages) /\ Len(main_ch) \in Nat /\ MainChSize \in Nat
            BY <1>2, DriverConstants DEF DriverTypes, Driver!DriverAssumption
        <2> QED
            BY <1>1, <1>3, <2>1, AppendFacts
    <1>9. DriverTypes'
        BY <1>1, <1>2, <1>6, <1>7, <1>8 DEF DriverTypes
    <1>10. LoopFits'
        BY <1>1, <1>6 DEF DriverInv, LoopFits
    <1>11. /\ \A k \in Ways : IsRequest(k)' = IsRequest(k) /\ IsResult(k)' = IsResult(k)
           /\ IsRequest(n)' /\ ~IsResult(n)'
        BY <1>3, <1>5 DEF IsRequest, IsResult, Requests, Driver!Requests
    <1>12. /\ \A k \in Ways : IsRequest(k) => OnWay(k).sender # t
           /\ ch[t] = <<>>
        BY <1>1 DEF DriverInv, RequestsFit, RequestFits, AnswersFit, Asked
    <1>13. RequestsFit'
        <2>1. \A k \in Ways : IsRequest(k) => RequestFits(k)'
            BY <1>1, <1>2, <1>5, <1>6, <1>7, <1>12, WayTypes
            DEF DriverInv, RequestsFit, RequestFits
        <2>2. RequestFits(n)'
            BY <1>1, <1>3, <1>5, <1>6, <1>7, <1>12 DEF RequestFits, Asked
        <2>3. \A k, l \in Ways' :
                IsRequest(k)' /\ IsRequest(l)' /\ OnWay(k)'.sender = OnWay(l)'.sender
                    => k = l
            BY <1>3, <1>5, <1>11, <1>12 DEF DriverInv, RequestsFit
        <2> QED
            BY <1>5, <1>11, <2>1, <2>2, <2>3 DEF RequestsFit
    <1>14. AnswersFit'
        BY <1>1, <1>6, <1>7, <1>12 DEF DriverInv, AnswersFit
    <1>15. WaitersFit'
        BY <1>1, <1>3, <1>5, <1>6, <1>11 DEF DriverInv, WaitersFit
    <1>16. ResultsFit'
        <2>1. \A k \in Ways : IsResult(k) => ResultFits(k)'
            BY <1>1, <1>5 DEF DriverInv, ResultsFit, ResultFits
        <2> QED
            BY <1>5, <1>11, <2>1 DEF DriverInv, ResultsFit
    <1>17. EntriesFit'
        BY <1>1, <1>6 DEF DriverInv, EntriesFit
    <1> QED
        BY <1>1, <1>9, <1>10, <1>13, <1>14, <1>15, <1>16, <1>17 DEF DriverInv

\* The answer is taken, and there is no other.
LEMMA TakeAnswerKeeps ==
    ASSUME DriverInv, NEW t \in Interps, Driver!TakeAnswer(t)
    PROVE  DriverInv'
    <1>1. /\ UNCHANGED <<entry_points_ch, queue_closed, main_ch, main_closed, ch_closed,
                         entry, request, at, msg, i, entries_finished, breaked,
                         return_code, finished, interrupted>>
          /\ th[t] = "await" /\ th' = [th EXCEPT ![t] = "run"]
          /\ ch[t] # <<>> /\ ch' = [ch EXCEPT ![t] = Tail(ch[t])]
        BY DEF Driver!TakeAnswer, Driver!loop
    <1>2. DriverTypes
        BY DEF DriverInv
    <1>3. /\ th' \in [Interps -> {"none", "pop", "run", "await", "ended", "freed"}]
          /\ th'[t] = "run"
          /\ \A u \in Interps : u # t => th'[u] = th[u]
        BY <1>1, <1>2 DEF DriverTypes
    <1>4. ch[t] \in Seq(Requests) /\ Len(ch[t]) = 1
        BY <1>1, <1>2 DEF DriverInv, AnswersFit, DriverTypes
    <1>5. Tail(ch[t]) \in Seq(Requests) /\ Tail(ch[t]) = <<>>
        <2>1. Tail(ch[t]) \in Seq(Requests) /\ Len(Tail(ch[t])) = 0
            BY <1>1, <1>4, TailFacts
        <2> QED
            BY <2>1, EmptySeq
    <1>6. /\ ch' \in [Interps -> Seq(Requests)] /\ ch'[t] = <<>>
          /\ \A u \in Interps : u # t => ch'[u] = ch[u]
        BY <1>1, <1>2, <1>5 DEF DriverTypes
    <1>7. DriverTypes'
        BY <1>1, <1>2, <1>3, <1>6 DEF DriverTypes
    <1>8. LoopFits'
        BY <1>1, <1>3 DEF DriverInv, LoopFits
    <1>9. /\ Ways' = Ways /\ Moved(0)
          /\ \A k \in Ways : /\ OnWay(k)' = OnWay(k)
                             /\ IsRequest(k)' = IsRequest(k)
        BY <1>1, <1>2, WaysUnchanged DEF IsRequest
    <1>10. \A k \in Ways : IsRequest(k) => OnWay(k).sender # t
        BY <1>1 DEF DriverInv, RequestsFit, RequestFits
    <1>11. RequestsFit'
        <2>1. \A k \in Ways : IsRequest(k) => RequestFits(k)'
            BY <1>1, <1>2, <1>3, <1>6, <1>9, <1>10, WayTypes
            DEF DriverInv, RequestsFit, RequestFits
        <2> QED
            BY <1>9, <2>1 DEF DriverInv, RequestsFit
    <1>12. AnswersFit'
        BY <1>1, <1>3, <1>6 DEF DriverInv, AnswersFit
    <1>13. WaitersFit'
        BY <1>1, <1>3, <1>6, <1>9 DEF DriverInv, WaitersFit
    <1>14. WorkInv'
        <2>1. \A u \in Interps :
                /\ th'[u] \in {"run", "await"} => th[u] \in {"run", "await"}
                /\ th'[u] \in {"none", "pop"} => th[u] \in {"none", "pop"}
            BY <1>1, <1>3
        <2> QED
            BY <1>1, <1>9, <2>1, WorkKept
    <1> QED
        BY <1>7, <1>8, <1>11, <1>12, <1>13, <1>14 DEF DriverInv, WorkInv

\* The sender's channel, of size one, is open and empty.
LEMMA ServeRequestKeeps ==
    ASSUME DriverInv, Driver!ServeRequest
    PROVE  DriverInv'
    <1>1. /\ UNCHANGED <<entry_points_ch, queue_closed, main_ch, main_closed, ch_closed,
                         th, entry, request, i, entries_finished, breaked,
                         return_code, finished, interrupted>>
          /\ at = "serve" /\ at' = "loop" /\ msg.type \in Requests
          /\ ch' = [ch EXCEPT ![msg.sender] = Append(@, msg.type)]
          /\ msg' = Driver!NoMessage
        BY DEF Driver!ServeRequest, Driver!AnswerType, Driver!Goto, Driver!interpreters,
               Requests
    <1>2. DriverTypes
        BY DEF DriverInv
    <1>3. OnWay(0) = msg /\ IsRequest(0) /\ 0 \in Ways
        BY <1>1, <1>2, WayTypes DEF OnWay, IsRequest
    <1>4. PICK s \in Interps : s = msg.sender
        BY <1>2, <1>3, WayTypes
    <1>5. th[s] \in Asked /\ msg.type = request[s] /\ ch[s] = <<>>
        BY <1>3, <1>4 DEF DriverInv, RequestsFit, RequestFits
    <1>6. \A k \in Ways : IsRequest(k) /\ OnWay(k).sender = s => k = 0
        BY <1>3, <1>4 DEF DriverInv, RequestsFit
    <1>7. /\ Append(ch[s], msg.type) \in Seq(Requests) /\ Append(ch[s], msg.type) # <<>>
          /\ Len(Append(ch[s], msg.type)) = 1 /\ Append(ch[s], msg.type)[1] = msg.type
        <2>1. ch[s] \in Seq(Requests) /\ Len(ch[s]) = 0
            BY <1>2, <1>5 DEF DriverTypes
        <2> QED
            BY <1>1, <2>1, AppendFacts
    <1>8. /\ ch' \in [Interps -> Seq(Requests)]
          /\ ch'[s] # <<>> /\ Len(ch'[s]) = 1 /\ ch'[s][1] = request[s]
          /\ \A u \in Interps : u # s => ch'[u] = ch[u]
        BY <1>1, <1>2, <1>4, <1>5, <1>7 DEF DriverTypes
    <1>9. DriverTypes'
        BY <1>1, <1>2, <1>8 DEF DriverTypes, Looping
    <1>10. LoopFits'
        BY <1>1 DEF DriverInv, LoopFits, Looping
    <1>11. /\ Ways' = Ways /\ ~IsRequest(0)' /\ Moved(0)
           /\ \A k \in Ways : k # 0 => /\ OnWay(k)' = OnWay(k)
                                       /\ IsRequest(k)' = IsRequest(k)
        BY <1>1, <1>2, WaysServed DEF IsRequest
    <1>12. RequestsFit'
        <2>1. \A k \in Ways : IsRequest(k)' => RequestFits(k)'
            BY <1>1, <1>2, <1>6, <1>8, <1>11, WayTypes
            DEF DriverInv, RequestsFit, RequestFits
        <2> QED
            BY <1>11, <2>1 DEF DriverInv, RequestsFit
    <1>13. AnswersFit'
        BY <1>1, <1>5, <1>8 DEF DriverInv, AnswersFit
    <1>14. WaitersFit'
        <2> SUFFICES ASSUME NEW t \in Interps, th[t] = "await", ch'[t] = <<>>
                     PROVE  \E k \in Ways' : IsRequest(k)' /\ OnWay(k)'.sender = t
            BY <1>1 DEF WaitersFit
        <2>1. t # s /\ ch[t] = <<>>
            BY <1>8
        <2>2. PICK k \in Ways : IsRequest(k) /\ OnWay(k).sender = t
            BY <1>1, <2>1 DEF DriverInv, WaitersFit, Looping
        <2>3. k # 0
            BY <1>3, <1>4, <2>1, <2>2
        <2> QED
            BY <1>11, <2>2, <2>3
    <1>15. WorkInv'
        BY <1>1, <1>11, WorkKept
    <1> QED
        BY <1>9, <1>10, <1>12, <1>13, <1>14, <1>15 DEF DriverInv, WorkInv

\* The result of an entry point takes its place.
LEMMA FinishKeeps ==
    ASSUME DriverInv, NEW t \in Interps, NEW ok \in BOOLEAN, Driver!Finish(t, ok)
    PROVE  DriverInv'
    <1> DEFINE m == [type |-> "INTERP_RESULT", sender |-> t, entry |-> entry[t], res |-> ok]
    <1>1. /\ UNCHANGED <<entry_points_ch, queue_closed, main_closed, ch, ch_closed, request,
                         at, msg, i, entries_finished, breaked, return_code, finished,
                         interrupted>>
          /\ th[t] = "run" /\ th' = [th EXCEPT ![t] = "pop"]
          /\ entry' = [entry EXCEPT ![t] = NoEntry]
          /\ \/ main_ch' = Append(main_ch, m) /\ Len(main_ch) < MainChSize
             \/ UNCHANGED main_ch
        BY DEF Driver!Finish, Driver!PutMain, Driver!loop
    <1>2. DriverTypes
        BY DEF DriverInv
    <1>3. PICK e : e = entry[t]
        OBVIOUS
    <1>4. /\ e \in Entries /\ e # NoEntry /\ e \notin entry_points_ch /\ finished[e] = 0
          /\ \A u \in Interps : u # t => entry[u] # e
        BY <1>1, <1>2, <1>3 DEF DriverInv, EntriesFit, DriverTypes
    <1>5. m \in Messages /\ m.type = "INTERP_RESULT" /\ m.entry = e
        BY <1>3, <1>4 DEF Messages, Driver!Messages, Interps
    <1> HIDE DEF m
    <1>6. /\ th' \in [Interps -> {"none", "pop", "run", "await", "ended", "freed"}]
          /\ th'[t] = "pop"
          /\ \A u \in Interps : u # t => th'[u] = th[u]
        BY <1>1, <1>2 DEF DriverTypes
    <1>7. /\ entry' \in [Interps -> Entries \cup {NoEntry}] /\ entry'[t] = NoEntry
          /\ \A u \in Interps : u # t => entry'[u] = entry[u]
        BY <1>1, <1>2 DEF DriverTypes
    <1>8. main_ch' \in Seq(Messages) /\ Len(main_ch') <= MainChSize
        <2>1. /\ main_ch \in Seq(Messages) /\ Len(main_ch) \in Nat /\ MainChSize \in Nat
              /\ Len(main_ch) <= MainChSize
            BY <1>2, DriverConstants DEF DriverTypes, Driver!DriverAssumption
        <2> QED
            BY <1>1, <1>5, <2>1, AppendFacts
    <1>9. DriverTypes'
        BY <1>1, <1>2, <1>6, <1>7, <1>8 DEF DriverTypes
    <1>10. LoopFits'
        BY <1>1, <1>6 DEF DriverInv, LoopFits
    <1>11. EntriesFit'
        BY <1>1, <1>6, <1>7 DEF DriverInv, EntriesFit
    <1>12. \A u \in Interps : /\ th'[u] = "await" => th[u] = "await"
                              /\ th[u] \in Asked => th'[u] \in Asked
        BY <1>1, <1>6 DEF Asked
    <1>13. \A u \in Interps, x \in Entries : entry'[u] = x => entry[u] = x /\ u # t
        BY <1>7, DriverConstants DEF Driver!DriverAssumption
    <1>14. CASE UNCHANGED main_ch
        <2>1. /\ Ways' = Ways /\ Moved(0) /\ Kept(0)
              /\ \A k \in Ways : /\ OnWay(k)' = OnWay(k)
                                 /\ IsResult(k)' = IsResult(k)
            BY <1>1, <1>2, <1>14, WaysUnchanged DEF IsResult
        <2>2. TalkInv'
            BY <1>1, <1>12, <2>1, TalkKept
        <2>3. ResultsFit'
            <3>1. \A k \in Ways : IsResult(k) => ResultFits(k)'
                BY <1>1, <1>13, <2>1 DEF DriverInv, ResultsFit, ResultFits
            <3> QED
                BY <2>1, <3>1 DEF DriverInv, ResultsFit
        <2> QED
            BY <1>1, <1>9, <1>10, <1>11, <2>2, <2>3 DEF DriverInv, TalkInv
    <1>15. CASE main_ch' = Append(main_ch, m)
        <2>1. PICK n : n = Len(main_ch) + 1
            OBVIOUS
        <2>2. /\ n \notin Ways /\ Ways' = Ways \cup {n} /\ OnWay(n)' = m
              /\ \A k \in Ways : OnWay(k)' = OnWay(k)
            BY <1>1, <1>2, <1>5, <1>15, <2>1, WaysPut
        <2>3. /\ \A k \in Ways : IsRequest(k)' = IsRequest(k) /\ IsResult(k)' = IsResult(k)
              /\ ~IsRequest(n)' /\ IsResult(n)'
            BY <1>5, <2>2 DEF IsRequest, IsResult, Requests, Driver!Requests
        <2>4. RequestsFit'
            <3>1. \A k \in Ways : IsRequest(k) => RequestFits(k)'
                BY <1>1, <1>2, <1>12, <2>2, WayTypes DEF DriverInv, RequestsFit, RequestFits
            <3> QED
                BY <2>2, <2>3, <3>1 DEF DriverInv, RequestsFit
        <2>5. AnswersFit'
            BY <1>1, <1>12 DEF DriverInv, AnswersFit
        <2>6. WaitersFit'
            BY <1>1, <1>12, <2>2, <2>3 DEF DriverInv, WaitersFit
        <2>7. \A k \in Ways : IsResult(k) => OnWay(k).entry # e
            BY <1>3 DEF DriverInv, ResultsFit, ResultFits
        <2>8. ResultsFit'
            <3>1. \A k \in Ways : IsResult(k) => ResultFits(k)'
                BY <1>1, <1>13, <2>2 DEF DriverInv, ResultsFit, ResultFits
            <3>2. ResultFits(n)'
                BY <1>1, <1>4, <1>5, <1>13, <2>2 DEF ResultFits
            <3>3. \A k, l \in Ways' :
                    IsResult(k)' /\ IsResult(l)' /\ OnWay(k)'.entry = OnWay(l)'.entry
                        => k = l
                BY <1>5, <2>2, <2>3, <2>7 DEF DriverInv, ResultsFit
            <3> QED
                BY <2>2, <2>3, <3>1, <3>2, <3>3 DEF ResultsFit
        <2> QED
            BY <1>1, <1>9, <1>10, <1>11, <2>4, <2>5, <2>6, <2>8 DEF DriverInv
    <1> QED
        BY <1>1, <1>14, <1>15

\* An entry point is finished once, and counted once.
LEMMA ServeResultKeeps ==
    ASSUME DriverInv, Driver!ServeResult
    PROVE  DriverInv'
    <1>1. /\ UNCHANGED <<entry_points_ch, queue_closed, main_ch, main_closed, ch, ch_closed,
                         th, entry, request, i, breaked, return_code, interrupted>>
          /\ at = "serve" /\ at' = "loop" /\ msg.type = "INTERP_RESULT"
          /\ entries_finished' = entries_finished + 1
          /\ finished' = [finished EXCEPT ![msg.entry] = @ + 1]
          /\ msg' = Driver!NoMessage
        BY DEF Driver!ServeResult, Driver!Goto, Driver!interpreters, Driver!channels
    <1>2. DriverTypes
        BY DEF DriverInv
    <1>3. OnWay(0) = msg /\ IsResult(0) /\ 0 \in Ways
        BY <1>1, <1>2, WayTypes DEF OnWay, IsResult
    <1>4. PICK e \in Entries : e = msg.entry
        BY <1>3 DEF DriverInv, ResultsFit, ResultFits
    <1>5. /\ e \notin entry_points_ch /\ finished[e] = 0
          /\ \A t \in Interps : entry[t] # e
          /\ \A k \in Ways : IsResult(k) /\ OnWay(k).entry = e => k = 0
        BY <1>3, <1>4 DEF DriverInv, ResultsFit, ResultFits
    <1>6. /\ finished' \in [Entries -> {0, 1}] /\ finished'[e] = 1
          /\ \A x \in Entries : x # e => finished'[x] = finished[x]
        BY <1>1, <1>2, <1>4, <1>5 DEF DriverTypes
    <1>7. DriverTypes'
        BY <1>1, <1>2, <1>6 DEF DriverTypes, Looping
    <1>8. LoopFits'
        BY <1>1 DEF DriverInv, LoopFits, Looping
    <1>9. /\ Ways' = Ways /\ ~IsResult(0)' /\ ~IsRequest(0)' /\ Moved(0)
          /\ \A k \in Ways : k # 0 => /\ OnWay(k)' = OnWay(k)
                                      /\ IsResult(k)' = IsResult(k)
        BY <1>1, <1>2, WaysServed DEF IsResult
    <1>10. Kept(0)
        <2>1. \A k \in Ways : IsRequest(k) => k # 0
            BY <1>2, <1>3, WayTypes
        <2>2. \A k \in Ways : k - 0 = k
            BY <1>2, WayTypes
        <2> QED
            BY <1>9, <2>1, <2>2 DEF Kept
    <1>11. TalkInv'
        <2>1. at \in Looping
            BY <1>1 DEF Looping
        <2> QED
            BY <1>1, <1>9, <1>10, <2>1, TalkKept
    <1>12. ResultsFit'
        <2>1. \A k \in Ways : k # 0 /\ IsResult(k) => ResultFits(k)'
            BY <1>1, <1>5, <1>6, <1>9 DEF DriverInv, ResultsFit, ResultFits
        <2> QED
            BY <1>9, <2>1 DEF DriverInv, ResultsFit
    <1>13. EntriesFit'
        <2>1. /\ \A x \in entry_points_ch : x \in Entries /\ x # e
              /\ \A t \in Interps : entry[t] # NoEntry => entry[t] \in Entries
            BY <1>2, <1>5 DEF DriverTypes
        <2> QED
            BY <1>1, <1>5, <1>6, <2>1 DEF DriverInv, EntriesFit
    <1>14. entries_finished' = Cardinality({x \in Entries : finished[x] = 1})'
        <2> DEFINE F == {x \in Entries : finished[x] = 1}
        <2>1. F \subseteq Entries /\ e \notin F
            BY <1>5
        <2>2. IsFiniteSet(F)
            BY <2>1, EntriesFinite, FS_Subset
        <2>3. F' = F \cup {e}
            BY <1>6
        <2>4. entries_finished = Cardinality(F)
            BY DEF DriverInv
        <2> HIDE DEF F
        <2>5. Cardinality(F \cup {e}) = Cardinality(F) + 1
            BY <2>1, <2>2, FS_AddElement
        <2>6. entries_finished' = Cardinality(F')
            BY <1>1, <2>3, <2>4, <2>5
        <2> QED
            BY <2>6 DEF F
    <1> QED
        BY <1>7, <1>8, <1>11, <1>12, <1>13, <1>14 DEF DriverInv, TalkInv

LEMMA DriverBegins == Driver!Init => DriverInv
    <1> SUFFICES ASSUME Driver!Init PROVE DriverInv
        OBVIOUS
    <1>1. NThreads \in Nat \ {0} /\ MainChSize \in Nat \ {0} /\ NoEntry \notin Entries
        BY DriverConstants DEF Driver!DriverAssumption
    <1>2. /\ main_ch = <<>> /\ main_ch \in Seq(Messages) /\ Len(main_ch) = 0
          /\ msg = Driver!NoMessage /\ at = "spawn" /\ i = 1
        BY DEF Driver!Init
    <1>3. /\ \A t \in Interps : /\ ch[t] = <<>> /\ ch_closed[t] = FALSE /\ th[t] = "none"
                                /\ entry[t] = NoEntry
          /\ \A e \in Entries : finished[e] = 0
        BY DEF Driver!Init, Interps
    <1>4. /\ ch \in [Interps -> Seq(Requests)] /\ ch_closed \in [Interps -> BOOLEAN]
          /\ th \in [Interps -> {"none", "pop", "run", "await", "ended", "freed"}]
          /\ entry \in [Interps -> Entries \cup {NoEntry}]
          /\ request \in [Interps -> Requests]
          /\ finished \in [Entries -> {0, 1}]
        BY DEF Driver!Init, Interps, Requests, Driver!Requests
    <1>5. DriverTypes
        <2>1. /\ Len(main_ch) <= MainChSize /\ i \in 1..(NThreads + 1)
              /\ entries_finished \in Nat
            BY <1>1, <1>2 DEF Driver!Init
        <2>2. /\ entry_points_ch \subseteq Entries /\ queue_closed \in BOOLEAN
              /\ main_closed \in BOOLEAN /\ breaked \in BOOLEAN /\ return_code \in BOOLEAN
              /\ interrupted \in BOOLEAN
            BY DEF Driver!Init
        <2> QED
            BY <1>2, <1>4, <2>1, <2>2 DEF DriverTypes, Looping
    <1>6. Ways = {0} /\ ~IsRequest(0) /\ ~IsResult(0)
        BY <1>2 DEF Ways, IsRequest, IsResult, OnWay, Driver!NoMessage, Requests,
                    Driver!Requests
    <1>7. RequestsFit /\ AnswersFit /\ WaitersFit /\ ResultsFit
        BY <1>3, <1>6 DEF RequestsFit, AnswersFit, WaitersFit, ResultsFit
    <1>8. EntriesFit
        BY <1>3 DEF EntriesFit, Driver!Init
    <1>9. entries_finished = Cardinality({e \in Entries : finished[e] = 1})
        <2>1. {e \in Entries : finished[e] = 1} = {}
            BY <1>3
        <2> QED
            BY <2>1, FS_EmptySet DEF Driver!Init
    <1>10. LoopFits
        <2>1. i \in Interps
            BY <1>1, <1>2 DEF Interps, Driver!InterpThreads
        <2> QED
            BY <1>2, <1>3, <2>1 DEF LoopFits, Driver!Init, Looping
    <1> QED
        BY <1>5, <1>7, <1>8, <1>9, <1>10 DEF DriverInv

LEMMA DriverGoesOn == DriverInv /\ [Driver!Next]_driver => DriverInv'
    <1> SUFFICES ASSUME DriverInv, [Driver!Next]_driver PROVE DriverInv'
        OBVIOUS
    <1>1. CASE UNCHANGED driver
        <2>1. UNCHANGED <<entry_points_ch, queue_closed, main_ch, main_closed, ch, ch_closed,
                          th, entry, request, at, msg, i, entries_finished, breaked,
                          return_code, interrupted, finished>>
            BY <1>1 DEF driver
        <2>2. DriverTypes /\ DriverTypes'
            BY <2>1 DEF DriverInv, DriverTypes
        <2>3. LoopFits'
            BY <2>1 DEF DriverInv, LoopFits
        <2>4. Moved(0) /\ Kept(0)
            BY <2>1, <2>2, WaysUnchanged
        <2> QED
            BY <2>1, <2>2, <2>3, <2>4, RestKept
    <1>2. CASE Driver!Interrupt
        BY <1>2, InterruptKeeps
    <1>3. CASE Driver!MainStep
        BY <1>3, SpawnKeeps, LoopTestKeeps, TakeKeeps, ServeInterruptedKeeps,
           ServeRequestKeeps, ServeResultKeeps, CloseQueueKeeps, CloseMainKeeps,
           CloseChKeeps, JoinKeeps
        DEF Driver!MainStep
    <1>4. ASSUME NEW t \in Driver!InterpThreads, Driver!ThreadStep(t) PROVE DriverInv'
        <2>1. t \in Interps
            BY DEF Interps
        <2> QED
            BY <1>4, <2>1, PopEntryKeeps, AskKeeps, TakeAnswerKeeps, BreakKeeps, FinishKeeps
            DEF Driver!ThreadStep, Requests
    <1> QED
        BY <1>1, <1>2, <1>3, <1>4 DEF Driver!Next

\* A thread has one request under way or none.
LEMMA PendingFacts ==
    ASSUME DriverInv, NEW t \in Interps
    PROVE  /\ Driver!Pending(t) \in {0, 1}
           /\ Driver!Pending(t) = 1 <=> \E k \in Ways : IsRequest(k) /\ OnWay(k).sender = t
    <1> DEFINE A == {k \in 1..Len(main_ch) :
                       main_ch[k].sender = t /\ main_ch[k].type \in Requests}
               mine == msg.sender = t /\ msg.type \in Requests
    <1>1. Driver!Pending(t) = Cardinality(A) + (IF mine THEN 1 ELSE 0)
        BY SameCardinality DEF Driver!Pending, Requests
    <1>2. main_ch \in Seq(Messages) /\ Len(main_ch) \in Nat
        BY DEF DriverInv, DriverTypes
    <1>3. \A k : k \in A <=> k \in Ways /\ k # 0 /\ IsRequest(k) /\ OnWay(k).sender = t
        BY <1>2 DEF Ways, IsRequest, OnWay
    <1>4. mine <=> 0 \in Ways /\ IsRequest(0) /\ OnWay(0).sender = t
        BY <1>2 DEF Ways, IsRequest, OnWay
    <1> HIDE DEF A, mine
    <1>5. \A k, l \in Ways : IsRequest(k) /\ IsRequest(l) /\ OnWay(k).sender = t
                               /\ OnWay(l).sender = t => k = l
        BY DEF DriverInv, RequestsFit
    <1>6. CASE mine
        <2>1. A = {}
            BY <1>3, <1>4, <1>5, <1>6
        <2>2. Cardinality(A) = 0
            BY <2>1, FS_EmptySet
        <2> QED
            BY <1>1, <1>4, <1>6, <2>2
    <1>7. CASE ~mine /\ A = {}
        <2>1. Cardinality(A) = 0
            BY <1>7, FS_EmptySet
        <2>2. Driver!Pending(t) = 0
            BY <1>1, <1>7, <2>1
        <2> QED
            BY <1>3, <1>4, <1>7, <2>2
    <1>8. ASSUME ~mine, NEW k \in A
          PROVE  /\ Driver!Pending(t) = 1
                 /\ \E l \in Ways : IsRequest(l) /\ OnWay(l).sender = t
        <2>1. A = {k}
            BY <1>3, <1>5, <1>8
        <2>2. Cardinality(A) = 1
            BY <2>1, FS_Singleton
        <2> QED
            BY <1>1, <1>3, <1>8, <2>2
    <1> QED
        BY <1>6, <1>7, <1>8

LEMMA DriverSafe == DriverInv => DriverAnswers
    <1> SUFFICES ASSUME DriverInv PROVE Driver!ProtocolHolds
        BY DEF DriverAnswers
    <1>1. DriverTypes
        BY DEF DriverInv
    <1>2. Driver!TypeOK
        <2>1. finished \in [Entries -> Nat]
            BY <1>1 DEF DriverTypes
        <2> QED
            BY <1>1, <2>1 DEF DriverTypes, Driver!TypeOK, Interps, Requests, Messages, Looping
    <1>3. Driver!OneAnswerPerRequest
        <2>1. ASSUME NEW t \in Interps
              PROVE  /\ Driver!Pending(t) + Len(ch[t]) <= (IF th[t] \in Asked THEN 1 ELSE 0)
                     /\ th[t] = "await" /\ ~interrupted /\ at \in {"loop", "take", "serve"}
                          => Driver!Pending(t) + Len(ch[t]) = 1
                     /\ \A k \in 1..Len(ch[t]) : ch[t][k] = request[t]
            <3> DEFINE asks == \E k \in Ways : IsRequest(k) /\ OnWay(k).sender = t
            <3>1. Driver!Pending(t) = IF asks THEN 1 ELSE 0
                BY PendingFacts
            <3>2. asks => th[t] \in Asked /\ ch[t] = <<>>
                BY DEF DriverInv, RequestsFit, RequestFits
            <3>3. ch[t] # <<>> => th[t] \in Asked /\ Len(ch[t]) = 1 /\ ch[t][1] = request[t]
                BY DEF DriverInv, AnswersFit
            <3>4. th[t] = "await" /\ at \in {"loop", "take", "serve"} => asks \/ ch[t] # <<>>
                BY DEF DriverInv, WaitersFit, Looping
            <3>5. Len(<<>>) = 0
                OBVIOUS
            <3> HIDE DEF asks
            <3>6. CASE asks
                BY <3>1, <3>2, <3>5, <3>6
            <3>7. CASE ~asks /\ ch[t] = <<>>
                BY <3>1, <3>4, <3>5, <3>7
            <3>8. CASE ~asks /\ ch[t] # <<>>
                <4>1. \A k \in 1..Len(ch[t]) : ch[t][k] = request[t]
                    BY <3>3, <3>8
                <4>2. Driver!Pending(t) + Len(ch[t]) = 1 /\ th[t] \in Asked
                    BY <3>1, <3>3, <3>8
                <4> QED
                    BY <4>1, <4>2
            <3> QED
                BY <3>6, <3>7, <3>8
        <2>2. ASSUME at = "serve", msg.type \in Requests PROVE ~ch_closed[msg.sender]
            <3>1. msg.sender \in Interps
                BY <1>1, <2>2, WayTypes DEF IsRequest, OnWay
            <3> QED
                BY <2>2, <3>1 DEF DriverInv, LoopFits, Looping
        <2> QED
            BY <2>1, <2>2 DEF Driver!OneAnswerPerRequest, Interps, Requests, Asked
    <1>4. Driver!EveryEntryOnce
        <2>1. \A e \in Entries : finished[e] \in {0, 1}
            BY <1>1 DEF DriverTypes
        <2>2. ASSUME at = "done", return_code, ~breaked
              PROVE  \A e \in Entries : finished[e] = 1
            <3> DEFINE F == {e \in Entries : finished[e] = 1}
            <3>1. Cardinality(F) >= Cardinality(Entries)
                BY <2>2 DEF DriverInv, LoopFits, Looping
            <3>2. F \in SUBSET Entries
                OBVIOUS
            <3> HIDE DEF F
            <3>3. /\ Cardinality(F) \in Nat /\ Cardinality(Entries) \in Nat
                  /\ Cardinality(F) <= Cardinality(Entries)
                  /\ Cardinality(Entries) = Cardinality(F) => Entries = F
                BY <3>2, EntriesFinite, FS_Subset, FS_CardinalityType
            <3>4. Entries = F
                BY <3>1, <3>3
            <3> QED
                BY <3>4 DEF F
        <2> QED
            BY <2>1, <2>2 DEF Driver!EveryEntryOnce
    <1> QED
        BY <1>2, <1>3, <1>4 DEF Driver!ProtocolHolds

\* rz_absint_driver_run keeps its protocol, for any number of interpreter
\* threads and entry points and any size of its channel.
THEOREM DriverIsSafe == MCSpec => []DriverAnswers
    <1>1. MCInit => DriverInv
        BY DriverBegins DEF MCInit
    <1>2. DriverInv /\ [MCNext]_<<part, sections, driver, terminating>> => DriverInv'
        BY DriverGoesOn DEF MCNext
    <1>3. DriverInv => DriverAnswers
        BY DriverSafe
    <1> QED
        BY <1>1, <1>2, <1>3, PTL DEF MCSpec

\* The run of both says the same of the sections.
THEOREM SectionsSafeBesideDriver == MCSpec => []SectionsAreSafe
    <1>1. MCInit => SectionInv
        BY SectionsBegin DEF MCInit
    <1>2. SectionInv /\ [MCNext]_<<part, sections, driver, terminating>> => SectionInv'
        BY SectionsGoOn DEF MCNext
    <1>3. SectionInv => SectionsAreSafe
        BY SectionsSafe
    <1> QED
        BY <1>1, <1>2, <1>3, PTL DEF MCSpec
=============================================================================
