----------------------------- MODULE Interrupt ------------------------------
(***************************************************************************)
(* RzInterrupt, librz/util/interrupt.c: nested sections in which a command *)
(* can be interrupted by SIGINT, by rz_interrupt_raise or by a timeout.    *)
(*                                                                         *)
(* The handler of SIGINT and its flag belong to the process and are        *)
(* switched by the first section to begin and the last one to end, counted *)
(* by the atomic g_hook_count.  Only the count is atomic: what follows it  *)
(* in rz_interrupt_hook and rz_interrupt_unhook are steps of their own.    *)
(*                                                                         *)
(* Time is one event: the deadline of an instance passes.                  *)
(***************************************************************************)
EXTENDS Integers, Sequences, SequencesExt, FiniteSets

CONSTANTS
    Threads,
    Instances,     \* the RzInterrupt objects
    Callbacks,
    NoCallback,
    Usages         \* the ways in which they are used, one of them in a behaviour

\* The thread that uses each instance, the instances with hook_signals, and a
\* bound on the sections nested in one instance.
ASSUME InterruptAssumption ==
    /\ IsFiniteSet(Instances)
    /\ \A u \in Usages :
         /\ u.owner \in [Instances -> Threads]
         /\ u.hooks \subseteq Instances
         /\ u.depth \in Nat

VARIABLES
    usage,
    g_sigint_flag,
    g_hook_count,
    disposition,    \* what SIGINT does: "default", "handler" or "ignore"
    is_breaked, timeout, break_stack, current_cb,    \* per instance
    pc,             \* where each thread is, and with which instance
    pushed,         \* history: the callbacks of the open sections
    due             \* history: instances interrupted and not cleared since

signal == <<g_sigint_flag, g_hook_count, disposition>>
fields == <<is_breaked, timeout, break_stack, current_cb>>
vars == <<signal, fields, pc, pushed, due>>

Owner == usage.owner
Hooks == usage.hooks
Users == Range(Owner)

Idle(n) == [at |-> "idle", intr |-> n, cb |-> NoCallback]

\* rz_interrupt_new.
Init ==
    /\ usage \in Usages
    /\ g_sigint_flag = FALSE /\ g_hook_count = 0 /\ disposition = "default"
    /\ is_breaked = [n \in Instances |-> FALSE]
    /\ timeout = [n \in Instances |-> "none"]
    /\ break_stack = [n \in Instances |-> <<>>]
    /\ current_cb = [n \in Instances |-> NoCallback]
    /\ pc = [t \in Users |-> Idle(CHOOSE n \in Instances : Owner[n] = t)]
    /\ pushed = [n \in Instances |-> <<>>]
    /\ due = {}

InSection(n) == break_stack[n] # <<>>
Ready(n) == pc[Owner[n]].at = "idle"
Goto(n, label, cb) == pc' = [pc EXCEPT ![Owner[n]] =
                               [at |-> label, intr |-> n, cb |-> cb]]
Thread(n, label) == pc[Owner[n]].at = label /\ pc[Owner[n]].intr = n
-----------------------------------------------------------------------------
(* Signals and time.                                                       *)

\* SIGINT arrives and does not end the process; interrupt_signal_handler.
Sigint ==
    /\ disposition # "default"
    /\ g_sigint_flag' = (g_sigint_flag \/ disposition = "handler")
    /\ due' = due \cup {n \in Hooks : InSection(n) /\ Ready(n)}
    /\ UNCHANGED <<g_hook_count, disposition, fields, pc, pushed>>

\* rz_interrupt_raise, from any thread.
rz_interrupt_raise(n) ==
    /\ is_breaked' = [is_breaked EXCEPT ![n] = TRUE]
    /\ due' = IF InSection(n) /\ Ready(n) THEN due \cup {n} ELSE due
    /\ UNCHANGED <<signal, timeout, break_stack, current_cb, pc, pushed>>

\* The deadline passes.
Expire(n) ==
    /\ timeout[n] = "armed"
    /\ timeout' = [timeout EXCEPT ![n] = "past"]
    /\ UNCHANGED <<signal, is_breaked, break_stack, current_cb, pc, pushed, due>>
-----------------------------------------------------------------------------
(* Sections.                                                               *)

\* Mutant: the handler is installed, and the flag cleared, by every section.
HookLabel_always == "hook_clear"

\* rz_interrupt_hook: the first one switches the signal on.
HookLabel == IF g_hook_count = 0 THEN "hook_clear" ELSE "push"

\* rz_interrupt_break_push up to the hook's count.
rz_interrupt_break_push(n, cb) ==
    /\ Ready(n) /\ Len(break_stack[n]) < usage.depth
    /\ LET hook == ~InSection(n) /\ n \in Hooks IN
         /\ g_hook_count' = g_hook_count + (IF hook THEN 1 ELSE 0)
         /\ Goto(n, IF hook THEN HookLabel ELSE "push", cb)
    /\ UNCHANGED <<g_sigint_flag, disposition, fields, pushed, due>>

HookClear(n) ==
    /\ Thread(n, "hook_clear")
    /\ g_sigint_flag' = FALSE
    /\ Goto(n, "hook_install", pc[Owner[n]].cb)
    /\ UNCHANGED <<g_hook_count, disposition, fields, pushed, due>>

HookInstall(n) ==
    /\ Thread(n, "hook_install")
    /\ disposition' = "handler"
    /\ Goto(n, "push", pc[Owner[n]].cb)
    /\ UNCHANGED <<g_sigint_flag, g_hook_count, fields, pushed, due>>

\* The outermost section starts afresh; the frame keeps the callback before.
PushFrame(n) ==
    /\ Thread(n, "push")
    /\ is_breaked' = [is_breaked EXCEPT ![n] = @ /\ InSection(n)]
    /\ break_stack' = [break_stack EXCEPT ![n] = Append(@, current_cb[n])]
    /\ current_cb' = [current_cb EXCEPT ![n] = pc[Owner[n]].cb]
    /\ pushed' = [pushed EXCEPT ![n] = Append(@, pc[Owner[n]].cb)]
    /\ Goto(n, "idle", NoCallback)
    /\ UNCHANGED <<signal, timeout, due>>

\* The callback of the section around.
RestoredCallback(n) == Last(break_stack[n])

\* The count of rz_interrupt_unhook; the last one switches the signal off
\* before it goes on at the given label.
Unhook(n, rest) ==
    LET unhook == n \in Hooks IN
      /\ g_hook_count' = g_hook_count - (IF unhook THEN 1 ELSE 0)
      /\ Goto(n, IF unhook /\ g_hook_count = 1
                 THEN IF rest = "popped" THEN "pop_ignore" ELSE "end_ignore"
                 ELSE rest, NoCallback)

\* rz_interrupt_break_pop.
rz_interrupt_break_pop(n) ==
    /\ Ready(n) /\ InSection(n)
    /\ break_stack' = [break_stack EXCEPT ![n] = Front(@)]
    /\ current_cb' = [current_cb EXCEPT ![n] = RestoredCallback(n)]
    /\ pushed' = [pushed EXCEPT ![n] = Front(@)]
    /\ IF Len(break_stack[n]) = 1
       THEN Unhook(n, "popped") /\ due' = due \ {n}
       ELSE UNCHANGED <<g_hook_count, pc, due>>
    /\ UNCHANGED <<g_sigint_flag, disposition, is_breaked, timeout>>

\* The end of the outermost section.
Popped(n) ==
    /\ Thread(n, "popped")
    /\ is_breaked' = [is_breaked EXCEPT ![n] = FALSE]
    /\ Goto(n, "idle", NoCallback)
    /\ UNCHANGED <<signal, timeout, break_stack, current_cb, pushed, due>>

\* rz_interrupt_break_end only unhooks what was hooked.
EndUnhooks(n) == InSection(n)

\* rz_interrupt_break_end, and rz_interrupt_free before the next
\* rz_interrupt_new.
rz_interrupt_break_end(n) ==
    /\ Ready(n)
    /\ is_breaked' = [is_breaked EXCEPT ![n] = FALSE]
    /\ timeout' = [timeout EXCEPT ![n] = "none"]
    /\ due' = due \ {n}
    /\ IF EndUnhooks(n) THEN Unhook(n, "ended")
                        ELSE Goto(n, "ended", NoCallback) /\ UNCHANGED g_hook_count
    /\ UNCHANGED <<g_sigint_flag, disposition, break_stack, current_cb, pushed>>

\* It drops every frame.
Ended(n) ==
    /\ Thread(n, "ended")
    /\ break_stack' = [break_stack EXCEPT ![n] = <<>>]
    /\ pushed' = [pushed EXCEPT ![n] = <<>>]
    /\ current_cb' = [current_cb EXCEPT ![n] = NoCallback]
    /\ due' = due \ {n}
    /\ Goto(n, "idle", NoCallback)
    /\ UNCHANGED <<signal, is_breaked, timeout>>

UnhookIgnore(n) ==
    /\ Thread(n, "pop_ignore") \/ Thread(n, "end_ignore")
    /\ disposition' = "ignore"
    /\ Goto(n, IF Thread(n, "pop_ignore") THEN "pop_clear" ELSE "end_clear", NoCallback)
    /\ UNCHANGED <<g_sigint_flag, g_hook_count, fields, pushed, due>>

UnhookClear(n) ==
    /\ Thread(n, "pop_clear") \/ Thread(n, "end_clear")
    /\ g_sigint_flag' = FALSE
    /\ Goto(n, IF Thread(n, "pop_clear") THEN "popped" ELSE "ended", NoCallback)
    /\ UNCHANGED <<g_hook_count, disposition, fields, pushed, due>>
-----------------------------------------------------------------------------
(* The other calls.                                                        *)

\* What rz_interrupt_is_breaked returns.
IsBreaked(n) ==
    is_breaked[n] \/ (n \in Hooks /\ g_sigint_flag) \/ timeout[n] = "past"

rz_interrupt_is_breaked(n) ==
    /\ Ready(n)
    /\ is_breaked' = [is_breaked EXCEPT ![n] = IsBreaked(n)]
    /\ timeout' = [timeout EXCEPT ![n] = IF @ = "past" THEN "none" ELSE @]
    /\ UNCHANGED <<signal, break_stack, current_cb, pc, pushed, due>>

\* rz_interrupt_break_clear.
rz_interrupt_break_clear(n) ==
    /\ Ready(n)
    /\ is_breaked' = [is_breaked EXCEPT ![n] = FALSE]
    /\ due' = due \ {n}
    /\ UNCHANGED <<signal, timeout, break_stack, current_cb, pc, pushed>>

\* rz_interrupt_timeout and rz_interrupt_break_timeout, of zero or not.
SetTimeout(n, zero) ==
    /\ Ready(n)
    /\ timeout' = [timeout EXCEPT ![n] = IF ~zero /\ @ = "none" THEN "armed"
                                                               ELSE "none"]
    /\ UNCHANGED <<signal, is_breaked, break_stack, current_cb, pc, pushed, due>>
-----------------------------------------------------------------------------
Step ==
    \/ Sigint
    \/ \E n \in Instances :
         \/ rz_interrupt_raise(n)
         \/ Expire(n)
         \/ \E cb \in Callbacks : rz_interrupt_break_push(n, cb)
         \/ HookClear(n)
         \/ HookInstall(n)
         \/ PushFrame(n)
         \/ rz_interrupt_break_pop(n)
         \/ Popped(n)
         \/ rz_interrupt_break_end(n)
         \/ Ended(n)
         \/ UnhookIgnore(n)
         \/ UnhookClear(n)
         \/ rz_interrupt_is_breaked(n)
         \/ rz_interrupt_break_clear(n)
         \/ \E zero \in BOOLEAN : SetTimeout(n, zero)

Next == Step /\ UNCHANGED usage

Spec == Init /\ [][Next]_<<vars, usage>>
-----------------------------------------------------------------------------
(* Properties.                                                             *)

TypeOK ==
    /\ g_sigint_flag \in BOOLEAN /\ g_hook_count \in Nat
    /\ disposition \in {"default", "handler", "ignore"}
    /\ is_breaked \in [Instances -> BOOLEAN]
    /\ timeout \in [Instances -> {"none", "armed", "past"}]
    /\ break_stack \in [Instances -> Seq(Callbacks \cup {NoCallback})]
    /\ current_cb \in [Instances -> Callbacks \cup {NoCallback}]
    /\ \A t \in Users :
         pc[t] \in [at : {"idle", "hook_clear", "hook_install", "push",
                          "pop_ignore", "pop_clear", "popped", "end_ignore",
                          "end_clear", "ended"},
                    intr : {n \in Instances : Owner[n] = t},
                    cb : Callbacks \cup {NoCallback}]
    /\ due \subseteq Instances

\* All hooking instances are used from one thread, as the commands of a core
\* do; with two, one thread may switch SIGINT off after the other has switched
\* it on.
OneHooker == \A m, n \in Hooks : Owner[m] = Owner[n]

\* No interrupt is lost: an instance that was interrupted inside a section
\* says so until the section ends or the flag is cleared, however sections of
\* other instances begin and end meanwhile.
NoLostInterrupt ==
    OneHooker => \A n \in due : InSection(n) /\ Ready(n) =>
        is_breaked[n] \/ (n \in Hooks /\ g_sigint_flag)

\* "Active reference counter for hooked signal handlers": when no thread is
\* inside a call, it counts the hooking instances with an open section.
HooksCounted ==
    (\A t \in Users : pc[t].at = "idle") =>
        g_hook_count = Cardinality({n \in Hooks : InSection(n)})

\* rz_interrupt_raise calls the callback of the innermost open section, and
\* none outside of sections.
InnermostCallback ==
    \A n \in Instances :
        current_cb[n] = IF pushed[n] = <<>> THEN NoCallback ELSE Last(pushed[n])

\* "Push a break callback to the stack and hook signals if empty": inside a
\* section of a hooking instance SIGINT has its handler.
HookedInSection ==
    OneHooker => \A n \in Hooks : InSection(n) /\ Ready(n) => disposition = "handler"

\* Through sections that nest, end early and run beside each other the hook is
\* there while somebody needs it, no interrupt is lost, and the callback is the
\* one of the innermost section.
SectionsAreSafe ==
    TypeOK /\ NoLostInterrupt /\ HooksCounted /\ InnermostCallback /\ HookedInSection
=============================================================================
