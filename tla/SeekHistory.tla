---------------------------- MODULE SeekHistory ----------------------------
(***************************************************************************)
(* The seek history of librz/core/seek.c: where the user was, for undo and *)
(* redo.  A seek saves the position it leaves, or the one marked earlier;  *)
(* commands mark a position, move, and then save it.                       *)
(***************************************************************************)
EXTENDS Integers, SequencesExt

CONSTANTS
    MaxAddr,      \* UT64_MAX
    Cursors,      \* positions of the cursor in the block
    Deltas,       \* what a relative seek adds
    HistSize,     \* cfg.seek.histsize, unless that is 0 for no limit
    MaxUndos,     \* bound on the undos when there is no limit
    Aligns,       \* what a seek aligns to
    Items,        \* addresses of flags, functions or hits
    IntMod,       \* 2^32, the values of an int
    None

ASSUME SeekHistoryAssumption ==
    /\ MaxAddr \in Nat /\ HistSize \in Nat /\ MaxUndos \in Nat
    /\ 0 \in Cursors /\ Cursors \subseteq Nat
    /\ Deltas \subseteq Int /\ Aligns \subseteq Nat /\ Items \subseteq 0 .. MaxAddr
    /\ IntMod \in Nat \ {0}
    /\ None \notin [offset : Nat, cursor : Nat]

Addr == 0 .. MaxAddr
Item == [offset : Addr, cursor : Cursors]

VARIABLES
    offset,        \* core->offset
    cur,           \* core->print->cur
    cur_enabled,   \* core->print->cur_enabled
    silent,        \* cfg.seek.silent
    histsize,      \* cfg.seek.histsize
    undos, redos,  \* the history, the latest entry last
    saved          \* saved_item, None when saved_set is false

vars == <<offset, cur, cur_enabled, silent, histsize, undos, redos, saved>>

Init ==
    /\ offset = 0 /\ cur = 0 /\ cur_enabled = FALSE
    /\ silent = FALSE /\ histsize \in {0, HistSize}
    /\ undos = <<>> /\ redos = <<>> /\ saved = None

-----------------------------------------------------------------------------
(* Saving.                                                                 *)

\* get_current_seek_state.
Current == [offset |-> offset, cursor |-> IF cur_enabled THEN cur ELSE 0]

\* rz_core_seek_mark.
Marked == IF silent THEN None ELSE Current

\* Mutant: the limit is compared after the entry is there.
Pushed_late(item) ==
    IF histsize # 0 /\ Len(undos) > histsize THEN Append(Tail(undos), item)
    ELSE Append(undos, item)

\* The entry goes to the end, and the oldest one makes room for it.
Pushed(item) ==
    IF histsize # 0 /\ Len(undos) >= histsize THEN Append(Tail(undos), item)
    ELSE Append(undos, item)

\* need_add2history.
NeedAdd(item, addr) == item # None /\ (addr # item.offset \/ item.cursor # 0)

\* Mutant: the cursor of the last entry is not compared.
AddHistory_offset(item) ==
    IF undos # <<>> /\ item.offset = Last(undos).offset THEN UNCHANGED <<undos, redos>>
    ELSE undos' = Pushed(item) /\ redos' = <<>>

\* add_seek_history: an entry that is there already changes nothing.
AddHistory(item) ==
    IF undos # <<>> /\ item = Last(undos) THEN UNCHANGED <<undos, redos>>
    ELSE undos' = Pushed(item) /\ redos' = <<>>

\* seek_save with item as the saved one.
SeekSave(item, addr) ==
    /\ IF NeedAdd(item, addr) THEN AddHistory(item) ELSE UNCHANGED <<undos, redos>>
    /\ saved' = None

\* Without a limit the history is bounded here.
Room == histsize # 0 \/ Len(undos) < MaxUndos

Same == UNCHANGED <<cur, cur_enabled, silent, histsize>>
-----------------------------------------------------------------------------
(* Seeks.                                                                  *)

\* rz_core_seek and its callers that do not save.
Seek(addr) ==
    /\ offset' = addr
    /\ Same /\ UNCHANGED <<undos, redos, saved>>

\* rz_core_seek_and_save: what was marked, or the current state.
SeekAndSave(addr) ==
    /\ Room
    /\ SeekSave(IF saved = None THEN Marked ELSE saved, addr)
    /\ offset' = addr
    /\ Same

\* The address rz_core_seek_delta goes to: it stops at both ends.
Moved(delta) ==
    CASE delta > 0 /\ offset + delta > MaxAddr -> MaxAddr
      [] delta < 0 /\ offset < -delta -> 0
      [] OTHER -> offset + delta

\* seek_check_save.
SeekOpt(addr, save) == IF save THEN SeekAndSave(addr) ELSE Seek(addr)

\* rz_core_seek_delta.
SeekDelta(delta, save) == SeekOpt(Moved(delta), save)

\* The nearest of Items that rz_core_seek_next and rz_core_seek_prev go to.
SeekNext(save) ==
    \E addr \in Items :
        /\ addr > offset /\ addr # MaxAddr
        /\ \A a \in Items : a <= offset \/ a >= addr
        /\ SeekOpt(addr, save)

SeekPrev(save) ==
    \E addr \in Items :
        /\ addr < offset /\ addr # 0
        /\ \A a \in Items : a >= offset \/ a <= addr
        /\ SeekOpt(addr, save)

\* The remainder as the int of rz_core_seek_align, which keeps its low bits.
AsInt(n) == LET low == n % IntMod IN IF 2 * low >= IntMod THEN low - IntMod ELSE low

\* The address rz_core_seek_align goes to from addr.
Aligned(addr, align) == (addr - AsInt(addr % align)) % (MaxAddr + 1)

\* rz_seek_asz_handler: marks, goes to addr, and aligns that; the mark stays when
\* there is nothing to align to.
AlignCommand(addr, align) ==
    /\ Room
    /\ IF align < 2
       THEN /\ saved' = Marked /\ offset' = addr
            /\ UNCHANGED <<undos, redos>>
       ELSE /\ SeekSave(Marked, Aligned(addr, align))
            /\ offset' = Aligned(addr, align)
    /\ Same

\* rz_seek_handler: marks again, whatever was marked.
SeekCommand(addr) ==
    /\ Room
    /\ SeekSave(Marked, addr)
    /\ offset' = addr
    /\ Same

\* rz_seek_handler for an address it does not know: the mark stays, and the part
\* before "+." has moved the offset to addr already.
SeekCommandFails(addr) ==
    /\ saved' = Marked /\ offset' = addr
    /\ Same /\ UNCHANGED <<undos, redos>>

\* rz_core_seek_opcode_forward over instructions of size delta in all.
SeekOpcodeForward(delta, quiet) ==
    /\ Room
    /\ LET addr == Moved(delta)
       IN  SeekSave(IF quiet THEN saved ELSE Marked, addr) /\ offset' = addr
    /\ Same

\* set_current_seek_state.
SetCurrent(item) == offset' = item.offset /\ cur' = item.cursor

\* rz_core_seek_undo.
Undo ==
    /\ undos # <<>>
    /\ undos' = Front(undos)
    /\ redos' = Append(redos, Current)
    /\ SetCurrent(Last(undos))
    /\ UNCHANGED <<cur_enabled, silent, histsize, saved>>

\* rz_core_seek_redo.
Redo ==
    /\ redos # <<>>
    /\ undos' = Append(undos, Current)
    /\ redos' = Front(redos)
    /\ SetCurrent(Last(redos))
    /\ UNCHANGED <<cur_enabled, silent, histsize, saved>>

\* rz_core_seek_reset.
Reset ==
    /\ undos' = <<>> /\ redos' = <<>>
    /\ Same /\ UNCHANGED <<offset, saved>>

\* The cursor and the configuration, which other parts of the core change.
SetCursor(on, c) ==
    /\ cur_enabled' = on /\ cur' = c
    /\ UNCHANGED <<offset, silent, histsize, undos, redos, saved>>

SetSilent(on) ==
    /\ silent' = on
    /\ UNCHANGED <<offset, cur, cur_enabled, histsize, undos, redos, saved>>

Next ==
    \/ \E addr \in Addr :
         \/ Seek(addr) \/ SeekAndSave(addr)
         \/ SeekCommand(addr) \/ SeekCommandFails(addr)
         \/ \E align \in Aligns : AlignCommand(addr, align)
    \/ \E save \in BOOLEAN :
         \/ \E delta \in Deltas : SeekDelta(delta, save)
         \/ SeekNext(save) \/ SeekPrev(save)
    \/ \E delta \in Deltas, quiet \in BOOLEAN : delta > 0 /\ SeekOpcodeForward(delta, quiet)
    \/ Undo \/ Redo \/ Reset
    \/ \E on \in BOOLEAN, c \in Cursors : SetCursor(on, c)
    \/ \E on \in BOOLEAN : SetSilent(on)

Spec == Init /\ [][Next]_vars
-----------------------------------------------------------------------------
(* Properties.                                                             *)

TypeOK ==
    /\ offset \in Addr /\ cur \in Cursors
    /\ cur_enabled \in BOOLEAN /\ silent \in BOOLEAN /\ histsize \in Nat
    /\ undos \in Seq(Item) /\ redos \in Seq(Item)
    /\ saved \in Item \cup {None}

\* The history never holds more than cfg.seek.histsize entries ("Maximum size of
\* the seek history"), those that were undone included: undo and redo only move
\* entries between the two lists.
Bounded == histsize # 0 => Len(undos) + Len(redos) <= histsize

\* The addresses rz_core_seek_list shows, oldest first, the current one among them.
Timeline ==
    [k \in 1 .. Len(undos) + 1 + Len(redos) |->
        CASE k <= Len(undos) -> undos[k].offset
          [] k = Len(undos) + 1 -> offset
          [] OTHER -> redos[Len(undos) + 2 + Len(redos) - k].offset]

\* Undo and redo walk along the history and change nothing in it.
WalkStep == Undo \/ Redo => Timeline' = Timeline

\* A seek that saves can be undone: the last entry is then the position it left,
\* also when the history is full or that entry was there before.
UndoableStep ==
    (\E addr \in Addr \ {offset} : SeekCommand(addr)) /\ ~silent
        => undos' # <<>> /\ Last(undos') = Current

\* Without a limit no step loses an entry: it takes the last one away, adds one, or
\* empties the history.
KeepingStep ==
    histsize = 0 => \/ undos' \in {<<>>, undos, Front(undos)}
                    \/ Front(undos') = undos

\* The history is the way that was taken: a seek command adds the position it leaves,
\* undo and redo walk along, and nothing is lost on the way while there is no limit.
HistoryIsTheWay == [][WalkStep /\ UndoableStep /\ KeepingStep]_vars

\* A relative seek stops at the ends of the address space: it never wraps around to
\* the other side of where it started.
DeltaKeepsDirection ==
    \A delta \in Deltas :
        IF delta > 0 THEN Moved(delta) \in offset .. MaxAddr ELSE Moved(delta) \in 0 .. offset

\* The offset, the history and the next relative seek stay within their limits.
SeeksInBounds == TypeOK /\ Bounded /\ DeltaKeepsDirection
=============================================================================
