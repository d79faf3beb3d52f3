----------------------------- MODULE ThreadCond -----------------------------
(***************************************************************************)
(* RzThreadCond, librz/util/thread_cond.c, over a control state p: the     *)
(* function that says where each thread is.  A thread inside               *)
(* rz_th_cond_wait stands at label `wait'; once it is signalled it stands  *)
(* at `woken', from where it competes for the lock again.                  *)
(***************************************************************************)
EXTENDS Naturals, FiniteSets

\* Mutants: nobody is woken; only one waiter is woken.
SignalAll_none(p, wait, woken) == p

SignalAll_one(p, wait, woken) ==
    LET W == {t \in DOMAIN p : p[t] = wait}
    IN  IF W = {} THEN p ELSE [p EXCEPT ![CHOOSE t \in W : TRUE] = woken]

\* rz_th_cond_signal_all: every thread blocked on the condition.
SignalAll(p, wait, woken) ==
    [t \in DOMAIN p |-> IF p[t] = wait THEN woken ELSE p[t]]

\* Mutant: nobody is woken.
Signal_none(p, wait, woken) == {p}

\* rz_th_cond_signal: one blocked thread, any of them, if there is one.  The
\* result is the set of control states the signal may lead to.
Signal(p, wait, woken) ==
    LET W == {t \in DOMAIN p : p[t] = wait}
    IN  IF W = {} THEN {p} ELSE {[p EXCEPT ![t] = woken] : t \in W}

\* rz_th_cond_signal, k times in a row.
Signals(p, wait, woken, k) ==
    LET W == {t \in DOMAIN p : p[t] = wait}
        woken_sets == {S \in SUBSET W : IF Cardinality(W) <= k
                                        THEN S = W ELSE Cardinality(S) = k}
    IN  {[t \in DOMAIN p |-> IF t \in S THEN woken ELSE p[t]] : S \in woken_sets}
=============================================================================
