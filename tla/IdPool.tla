------------------------------- MODULE IdPool -------------------------------
(***************************************************************************)
(* RzIDPool of librz/util/idpool.c, as the fields next_id and freed_ids of *)
(* the record that owns the pool.                                          *)
(***************************************************************************)
EXTENDS Integers, Sequences

\* rz_id_pool_grab_id: the id, and the pool without it.
GrabId(s) == IF s.freed_ids # <<>> THEN [s EXCEPT !.freed_ids = Tail(@)]
             ELSE [s EXCEPT !.next_id = @ + 1]
NextId(s) == IF s.freed_ids # <<>> THEN Head(s.freed_ids) ELSE s.next_id

\* rz_id_pool_kick_id.
KickId(s, id) ==
    IF id = s.next_id - 1 THEN [s EXCEPT !.next_id = @ - 1]
    ELSE [s EXCEPT !.freed_ids = Append(@, id)]
=============================================================================
