---------------------------- MODULE MCInterrupts ----------------------------
(* Instances of Interrupt and AbsintDriver for TLC, which share no state:  *)
(* a behaviour is one of either.                                           *)
EXTENDS Interrupt, TLC

CONSTANTS t1, t2, i1, i2, NThreads, Entries, NoEntry, MainChSize

VARIABLES
    part,
    entry_points_ch, queue_closed, main_ch, main_closed, ch, ch_closed, th,
    entry, request, at, msg, i, entries_finished, breaked, return_code,
    interrupted, terminating, finished

Driver == INSTANCE AbsintDriver

ASSUME DriverConstants == Driver!DriverAssumption

sections == <<vars, usage>>
driver == <<entry_points_ch, queue_closed, main_ch, main_closed, ch, ch_closed,
            th, entry, request, at, msg, i, entries_finished, breaked,
            return_code, interrupted, finished>>

\* Two instances nested in every way on one thread, one on each of two
\* threads, and one that does not hook beside one that does.
AllUsages == {
    [owner |-> (i1 :> t1 @@ i2 :> t1), hooks |-> {i1, i2}, depth |-> 2],
    [owner |-> (i1 :> t1 @@ i2 :> t2), hooks |-> {i1, i2}, depth |-> 1],
    [owner |-> (i1 :> t1 @@ i2 :> t2), hooks |-> {i1}, depth |-> 2]}

MCInit ==
    /\ Init /\ Driver!Init
    /\ \/ part = "sections" /\ ~terminating
       \/ part = "driver" /\ usage = CHOOSE u \in Usages : TRUE

MCNext ==
    \/ part = "sections" /\ Next /\ UNCHANGED <<part, driver, terminating>>
    \/ part = "driver" /\ Driver!Next /\ UNCHANGED <<part, sections>>

\* The fairness of the driver; none of a section is needed.
MCSpec ==
    /\ MCInit /\ [][MCNext]_<<part, sections, driver, terminating>>
    /\ WF_driver(part = "driver" /\ Driver!MainStep)
    /\ \A t \in Driver!InterpThreads :
         /\ WF_driver(part = "driver" /\ Driver!ThreadStep(t))
         /\ SF_driver(/\ part = "driver" /\ terminating
                      /\ \E ok \in BOOLEAN : Driver!Finish(t, ok))
         /\ SF_driver(/\ part = "driver" /\ terminating
                      /\ \E kind \in Driver!Requests : Driver!Ask(t, kind))
-----------------------------------------------------------------------------
(* What AbsintDriver states under these names.                             *)

\* A thread of the driver gets one answer for each request, of its type, and
\* no entry point is finished twice, and every one before the driver succeeds.
DriverAnswers == Driver!ProtocolHolds

\* An interrupt ends the driver, wherever its threads stand; without one it
\* ends when the interpretations do.
DriverEnds ==
    /\ part = "driver" /\ interrupted ~> at = "done"
    /\ part = "driver" /\ terminating ~> at = "done"
=============================================================================
