---------------------------- MODULE AbsintDriver ----------------------------
(***************************************************************************)
(* The driver of the abstract interpreter, librz/inquiry/absint/driver.c:  *)
(* a main loop with access to the analysis, and threads that take entry    *)
(* points from a queue, ask the main loop for memory and lifted blocks     *)
(* while they interpret, and send it their results.                        *)
(*                                                                         *)
(* The channels are used as ThreadQueue and ThreadRingBuf specify them: a  *)
(* put waits while the channel is full, a take while it is empty, and both *)
(* fail once it is closed.  The order of the entry points is that of a     *)
(* hash set, so the queue of entry points is a set.                        *)
(***************************************************************************)
EXTENDS Integers, Sequences, FiniteSets

CONSTANTS
    NThreads,    \* config->n_threads
    Entries,     \* config->fcn_entry_points
    NoEntry,
    MainChSize   \* DRIVER_MAIN_CH_SIZE

DriverAssumption ==
    /\ NThreads \in Nat \ {0}
    /\ IsFiniteSet(Entries) /\ NoEntry \notin Entries
    /\ MainChSize \in Nat \ {0}

InterpThreads == 1..NThreads
Requests == {"IO_READ", "LIFT_BLOCK"}
Messages == [type : Requests \cup {"INTERP_RESULT"}, sender : InterpThreads,
             entry : Entries \cup {NoEntry}, res : BOOLEAN]
NoMessage == [type |-> "none", sender |-> 0, entry |-> NoEntry, res |-> FALSE]

VARIABLES
    entry_points_ch, queue_closed,
    main_ch, main_closed,
    ch, ch_closed,       \* the channel of each thread
    th,                  \* where each thread is
    entry,               \* the entry point it interprets
    request,             \* what it asked for last
    at,                  \* where the main loop is
    msg,                 \* the message it serves
    i,                   \* the thread it creates or frees
    entries_finished,
    breaked,
    return_code,
    interrupted,         \* rz_interrupt_is_breaked
    terminating,         \* whether every interpretation reaches its fixpoint
    finished             \* how often each entry point was finished

channels == <<entry_points_ch, queue_closed, main_ch, main_closed, ch, ch_closed>>
interpreters == <<th, entry, request>>
loop == <<msg, i, entries_finished, breaked, return_code, finished>>
vars == <<channels, interpreters, at, loop, interrupted>>

\* rz_absint_driver_run up to the creation of the threads.
Init ==
    /\ entry_points_ch = Entries /\ queue_closed = FALSE
    /\ main_ch = <<>> /\ main_closed = FALSE
    /\ ch = [t \in InterpThreads |-> <<>>]
    /\ ch_closed = [t \in InterpThreads |-> FALSE]
    /\ th = [t \in InterpThreads |-> "none"]
    /\ entry = [t \in InterpThreads |-> NoEntry]
    /\ request = [t \in InterpThreads |-> "IO_READ"]
    /\ at = "spawn" /\ i = 1
    /\ msg = NoMessage
    /\ entries_finished = 0
    /\ breaked = FALSE /\ return_code = FALSE
    /\ interrupted = FALSE
    /\ terminating \in BOOLEAN
    /\ finished = [e \in Entries |-> 0]

\* The user interrupts.
Interrupt ==
    /\ ~interrupted
    /\ interrupted' = TRUE
    /\ UNCHANGED <<channels, interpreters, at, loop>>
-----------------------------------------------------------------------------
(* The interpreter threads.                                                *)

\* interp_th takes an entry point, or finds the queue closed.
PopEntry(t) ==
    /\ th[t] = "pop"
    /\ \/ /\ queue_closed
          /\ th' = [th EXCEPT ![t] = "ended"]
          /\ UNCHANGED <<entry, entry_points_ch>>
       \/ /\ ~queue_closed
          /\ \E e \in entry_points_ch :
               /\ entry_points_ch' = entry_points_ch \ {e}
               /\ entry' = [entry EXCEPT ![t] = e]
          /\ th' = [th EXCEPT ![t] = "run"]
    /\ UNCHANGED <<queue_closed, main_ch, main_closed, ch, ch_closed, request,
                   at, loop, interrupted>>

\* rz_th_ring_buf_put on main_ch.
PutMain(m) == ~main_closed /\ Len(main_ch) < MainChSize /\ main_ch' = Append(main_ch, m)

\* send_io_read and send_lift_il_block, during rz_absint_run.
Ask(t, kind) ==
    /\ th[t] = "run"
    /\ PutMain([type |-> kind, sender |-> t, entry |-> NoEntry, res |-> FALSE])
    /\ request' = [request EXCEPT ![t] = kind]
    /\ th' = [th EXCEPT ![t] = "await"]
    /\ UNCHANGED <<entry_points_ch, queue_closed, main_closed, ch, ch_closed,
                   entry, at, loop, interrupted>>

\* They take the answer.
TakeAnswer(t) ==
    /\ th[t] = "await" /\ ~ch_closed[t] /\ ch[t] # <<>>
    /\ ch' = [ch EXCEPT ![t] = Tail(ch[t])]
    /\ th' = [th EXCEPT ![t] = "run"]
    /\ UNCHANGED <<entry_points_ch, queue_closed, main_ch, main_closed,
                   ch_closed, entry, request, at, loop, interrupted>>

\* A channel is closed: rz_absint_run ends with RZ_ABSINT_RESULT_BREAK and the
\* thread with it.
Break(t) ==
    /\ \/ th[t] = "run" /\ main_closed
       \/ th[t] = "await" /\ ch_closed[t]
    /\ th' = [th EXCEPT ![t] = "ended"]
    /\ UNCHANGED <<channels, entry, request, at, loop, interrupted>>

\* rz_absint_run ends with or without a result, which is sent; a closed
\* channel is not noticed.
Finish(t, ok) ==
    /\ th[t] = "run"
    /\ \/ PutMain([type |-> "INTERP_RESULT", sender |-> t, entry |-> entry[t],
                   res |-> ok])
       \/ main_closed /\ UNCHANGED main_ch
    /\ th' = [th EXCEPT ![t] = "pop"]
    /\ entry' = [entry EXCEPT ![t] = NoEntry]
    /\ UNCHANGED <<entry_points_ch, queue_closed, main_closed, ch, ch_closed,
                   request, at, loop, interrupted>>
-----------------------------------------------------------------------------
(* The main loop.                                                          *)

Goto(label) == at' = label

\* interp_thread_new for thread i, which starts to run; or it fails.
Spawn ==
    /\ at = "spawn"
    /\ \/ /\ th' = [th EXCEPT ![i] = "pop"]
          /\ Goto(IF i = NThreads THEN "loop" ELSE "spawn")
          /\ i' = i + 1
       \/ Goto("close_queue") /\ UNCHANGED <<th, i>>
    /\ UNCHANGED <<channels, entry, request, msg, entries_finished, breaked,
                   return_code, finished, interrupted>>

\* Mutant: the last entry point is not waited for.
MoreEntries_less == entries_finished + 1 < Cardinality(Entries)

\* The condition of the loop: entries_pushed is the number of entry points.
MoreEntries == entries_finished < Cardinality(Entries)

\* The head of the loop and the first look at the interrupt.
LoopTest ==
    /\ at = "loop"
    /\ LET more == MoreEntries IN
         /\ Goto(IF more /\ ~interrupted THEN "take" ELSE "close_queue")
         /\ breaked' = (more /\ interrupted)
         /\ return_code' = ~(more /\ ~interrupted)
    /\ UNCHANGED <<channels, interpreters, msg, i, entries_finished, finished,
                   interrupted>>

\* rz_th_ring_buf_take_blocking.
Take ==
    /\ at = "take" /\ main_ch # <<>>
    /\ msg' = Head(main_ch)
    /\ main_ch' = Tail(main_ch)
    /\ Goto("serve")
    /\ UNCHANGED <<entry_points_ch, queue_closed, main_closed, ch, ch_closed,
                   interpreters, i, entries_finished, breaked, return_code,
                   finished, interrupted>>

\* The second look at the interrupt: the message is dropped.
ServeInterrupted ==
    /\ at = "serve" /\ interrupted
    /\ breaked' = TRUE /\ return_code' = TRUE
    /\ msg' = NoMessage
    /\ Goto("close_queue")
    /\ UNCHANGED <<channels, interpreters, i, entries_finished, finished,
                   interrupted>>

\* The type of the answer follows that of the request.
AnswerType == msg.type

\* A request is answered on the channel of its sender.
ServeRequest ==
    /\ at = "serve" /\ ~interrupted
    /\ msg.type \in Requests
    /\ ~ch_closed[msg.sender] /\ Len(ch[msg.sender]) < 1
    /\ ch' = [ch EXCEPT ![msg.sender] = Append(@, AnswerType)]
    /\ msg' = NoMessage
    /\ Goto("loop")
    /\ UNCHANGED <<entry_points_ch, queue_closed, main_ch, main_closed,
                   ch_closed, interpreters, i, entries_finished, breaked,
                   return_code, finished, interrupted>>

\* A result is applied, or its absence reported; either finishes the entry.
ServeResult ==
    /\ at = "serve" /\ ~interrupted
    /\ msg.type = "INTERP_RESULT"
    /\ entries_finished' = entries_finished + 1
    /\ finished' = [finished EXCEPT ![msg.entry] = @ + 1]
    /\ msg' = NoMessage
    /\ Goto("loop")
    /\ UNCHANGED <<channels, interpreters, i, breaked, return_code, interrupted>>

\* err_threads: the queue is closed, then main_ch.
CloseQueue ==
    /\ at = "close_queue"
    /\ queue_closed' = TRUE
    /\ Goto("close_main")
    /\ UNCHANGED <<entry_points_ch, main_ch, main_closed, ch, ch_closed,
                   interpreters, loop, interrupted>>

\* Mutant: main_ch is left open.
CloseMain_not ==
    /\ at = "close_main"
    /\ i' = 1
    /\ Goto("close_ch")
    /\ UNCHANGED <<channels, interpreters, msg, entries_finished, breaked,
                   return_code, finished, interrupted>>

CloseMain ==
    /\ at = "close_main"
    /\ main_closed' = TRUE
    /\ i' = 1
    /\ Goto("close_ch")
    /\ UNCHANGED <<entry_points_ch, queue_closed, main_ch, ch, ch_closed,
                   interpreters, msg, entries_finished, breaked, return_code,
                   finished, interrupted>>

\* interp_thread_free closes the channel of thread i, if there is such a thread,
CloseCh ==
    /\ at = "close_ch"
    /\ ch_closed' = [ch_closed EXCEPT ![i] = @ \/ th[i] # "none"]
    /\ Goto("join")
    /\ UNCHANGED <<entry_points_ch, queue_closed, main_ch, main_closed, ch,
                   interpreters, loop, interrupted>>

\* waits for it and frees it; the next thread follows.
Join ==
    /\ at = "join"
    /\ th[i] \in {"none", "ended"}
    /\ th' = [th EXCEPT ![i] = "freed"]
    /\ Goto(IF i = NThreads THEN "done" ELSE "close_ch")
    /\ i' = i + 1
    /\ UNCHANGED <<channels, entry, request, msg, entries_finished, breaked,
                   return_code, finished, interrupted>>
-----------------------------------------------------------------------------
ThreadStep(t) ==
    \/ PopEntry(t)
    \/ \E kind \in Requests : Ask(t, kind)
    \/ TakeAnswer(t)
    \/ Break(t)
    \/ \E ok \in BOOLEAN : Finish(t, ok)

MainStep ==
    \/ Spawn
    \/ LoopTest
    \/ Take
    \/ ServeInterrupted
    \/ ServeRequest
    \/ ServeResult
    \/ CloseQueue
    \/ CloseMain
    \/ CloseCh
    \/ Join

Next == (Interrupt \/ MainStep \/ \E t \in InterpThreads : ThreadStep(t))
        /\ UNCHANGED terminating

\* Threads run.  An interpretation may ask for ever, unless it proceeds "until
\* a fixpoint is reached" (rz_absint_run): then a thread that can finish its
\* entry point again and again does so in the end, and blocked puts are served
\* in turn.
Fairness ==
    /\ WF_vars(MainStep)
    /\ \A t \in InterpThreads :
         /\ WF_vars(ThreadStep(t))
         /\ SF_vars(terminating /\ \E ok \in BOOLEAN : Finish(t, ok))
         /\ SF_vars(terminating /\ \E kind \in Requests : Ask(t, kind))

Spec == Init /\ [][Next]_<<vars, terminating>> /\ Fairness
-----------------------------------------------------------------------------
(* Properties.                                                             *)

TypeOK ==
    /\ entry_points_ch \subseteq Entries /\ queue_closed \in BOOLEAN
    /\ main_ch \in Seq(Messages) /\ Len(main_ch) <= MainChSize
    /\ main_closed \in BOOLEAN
    /\ ch \in [InterpThreads -> Seq(Requests)]
    /\ ch_closed \in [InterpThreads -> BOOLEAN]
    /\ th \in [InterpThreads -> {"none", "pop", "run", "await", "ended", "freed"}]
    /\ entry \in [InterpThreads -> Entries \cup {NoEntry}]
    /\ request \in [InterpThreads -> Requests]
    /\ at \in {"spawn", "loop", "take", "serve", "close_queue", "close_main",
               "close_ch", "join", "done"}
    /\ msg \in Messages \cup {NoMessage}
    /\ i \in 1..(NThreads + 1)
    /\ entries_finished \in Nat
    /\ breaked \in BOOLEAN /\ return_code \in BOOLEAN
    /\ interrupted \in BOOLEAN
    /\ finished \in [Entries -> Nat]

\* Messages of thread t on their way to the main loop or in its hands.
Pending(t) == Cardinality({k \in 1..Len(main_ch) :
                             main_ch[k].sender = t /\ main_ch[k].type \in Requests})
              + (IF msg.sender = t /\ msg.type \in Requests THEN 1 ELSE 0)

\* "Currently corresponds to exactly one request" (InterpDriverAnswer) and
\* "should not be closed": a thread that waits has either one request under
\* way or one answer in its channel, of the type it asked for; so the answer
\* always finds the sender's channel of size one open and empty.
OneAnswerPerRequest ==
    /\ \A t \in InterpThreads :
         /\ Pending(t) + Len(ch[t]) <= (IF th[t] \in {"await", "ended", "freed"}
                                        THEN 1 ELSE 0)
         /\ th[t] = "await" /\ ~interrupted /\ at \in {"loop", "take", "serve"}
              => Pending(t) + Len(ch[t]) = 1
         /\ \A k \in 1..Len(ch[t]) : ch[t][k] = request[t]
    /\ at = "serve" /\ msg.type \in Requests => ~ch_closed[msg.sender]

\* "Main fills it with entrypoints and interpreters pop and analyze them until
\* the queue is empty": no entry point is finished twice, and when the driver
\* returns true every one was.
EveryEntryOnce ==
    /\ \A e \in Entries : finished[e] <= 1
    /\ at = "done" /\ return_code /\ ~breaked => \A e \in Entries : finished[e] = 1

\* The protocol of the driver: each request has its one answer, and each entry
\* point its one result.
ProtocolHolds == TypeOK /\ OneAnswerPerRequest /\ EveryEntryOnce

\* An interrupt ends the driver, wherever the threads stand: at a full
\* main_ch, waiting for an answer or for an entry point.
InterruptEnds == interrupted ~> at = "done"

\* Without an interrupt the driver ends when the interpretations do.
DriverEnds == terminating ~> at = "done"
=============================================================================
