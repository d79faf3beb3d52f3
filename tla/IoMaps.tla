------------------------------- MODULE IoMaps -------------------------------
(***************************************************************************)
(* The maps of the io layer, librz/io/io_map.c: a list of intervals of the *)
(* address space, each showing a part of an open descriptor, in which a    *)
(* later map shadows an earlier one; the skyline that answers which map is *)
(* on top; and the pool their ids come from.                               *)
(***************************************************************************)
EXTENDS Skyline, IdPool, RzList, SequencesExt

CONSTANTS
    Fds,         \* descriptors
    Intervals,   \* the intervals asked for, as records of addr and size
    Delta,       \* where in its descriptor a map starts
    MaxMaps      \* bound on the number of maps

IoMapsAssumption ==
    /\ WAssumption /\ MaxMaps \in Nat /\ Delta \in Addr
    /\ Intervals \subseteq [addr : Addr, size : Addr]

VARIABLES
    io,      \* maps, map_skyline and map_ids
    files,   \* the descriptors that are open
    last     \* the map added by the last step, if it was that

vars == <<io, files, last>>

NoMap == [fd |-> None, delta |-> 0, addr |-> 0, size |-> 0]

Init ==
    /\ io = [maps |-> <<>>, skyline |-> <<>>, next_id |-> 1, freed_ids |-> <<>>]
    /\ files = Fds
    /\ last = NoMap
-----------------------------------------------------------------------------
(* The list of maps.                                                       *)

\* io_map_calculate_skyline.
Calculated(s) == [s EXCEPT !.skyline = SkylineOf(s.maps)]

\* An interval that goes past the last address.
Wraps(addr, size) == size # 0 /\ W - size < addr

\* The end of io_map_new: the map goes to the top.
PushMap(s, id, fd, delta, addr, size) ==
    [s EXCEPT !.maps = Append(@, [id |-> id, fd |-> fd, delta |-> delta,
                                  addr |-> addr, size |-> size]),
              !.skyline = SkylineAdd(@, [addr |-> addr, size |-> size], id)]

\* io_map_new of an interval that does not wrap.
MapNewPlain(s, fd, delta, addr, size) == PushMap(GrabId(s), NextId(s), fd, delta, addr, size)

\* io_map_new: what goes past the last address becomes a map at 0.
MapNew(s, fd, delta, addr, size) ==
    IF Wraps(addr, size)
    THEN PushMap(MapNewPlain(GrabId(s), fd, (delta - addr) % W, 0, (size + addr) % W),
                 NextId(s), fd, delta, addr, (-addr) % W)
    ELSE MapNewPlain(s, fd, delta, addr, size)

\* The list without a map.
Without(maps, m) == Only(maps, ToSet(maps) \ {m})

\* The maps in `gone` are removed by map_del, first to last.
MapsDel(s, gone) ==
    LET dead == Only(s.maps, gone)
        pools[k \in 0 .. Len(dead)] == IF k = 0 THEN s ELSE KickId(pools[k - 1], dead[k].id)
    IN  [pools[Len(dead)] EXCEPT !.maps = Only(@, ToSet(@) \ gone)]

Room(n) == Len(io.maps) + n <= MaxMaps
Index(id) == CHOOSE k \in DOMAIN io.maps : io.maps[k].id = id
Ids == {io.maps[k].id : k \in DOMAIN io.maps}
-----------------------------------------------------------------------------
(* Operations.                                                             *)

\* rz_io_map_add: only for an open descriptor.
Add(fd, itv) ==
    /\ Room(IF Wraps(itv.addr, itv.size) THEN 2 ELSE 1)
    /\ fd \in files
    /\ io' = MapNew(io, fd, Delta, itv.addr, itv.size)
    /\ last' = [fd |-> fd, delta |-> Delta, addr |-> itv.addr, size |-> itv.size]
    /\ UNCHANGED files

\* rz_io_map_remap.
Remap(id, addr) ==
    /\ Room(IF Wraps(addr, io.maps[Index(id)].size) THEN 1 ELSE 0)
    /\ LET k == Index(id)
           m == io.maps[k]
           moved == [io EXCEPT !.maps[k].addr = addr]
       IN  io' = Calculated(
             IF Wraps(addr, m.size)
             THEN MapNew([moved EXCEPT !.maps[k].size = (-addr) % W], m.fd,
                         (m.delta - addr) % W, 0, (m.size + addr) % W)
             ELSE moved)
    /\ last' = NoMap
    /\ UNCHANGED files

\* rz_io_map_resize.  When the map wraps the skyline is not calculated again.
Resize(id, size) ==
    /\ Room(IF Wraps(io.maps[Index(id)].addr, size) THEN 1 ELSE 0)
    /\ LET k == Index(id)
           m == io.maps[k]
       IN  io' = IF Wraps(m.addr, size)
                 THEN MapNew([io EXCEPT !.maps[k].size = (-m.addr) % W], m.fd,
                             (m.delta - m.addr) % W, 0, (size + m.addr) % W)
                 ELSE Calculated([io EXCEPT !.maps[k].size = size])
    /\ last' = NoMap
    /\ UNCHANGED files

\* rz_io_map_del.
Del(id) ==
    /\ io' = Calculated(MapsDel(io, {m \in ToSet(io.maps) : m.id = id}))
    /\ last' = NoMap
    /\ UNCHANGED files

\* rz_io_map_del_for_fd.
DelForFd(fd) ==
    /\ \E k \in DOMAIN io.maps : io.maps[k].fd = fd
    /\ io' = Calculated(MapsDel(io, {m \in ToSet(io.maps) : m.fd = fd}))
    /\ last' = NoMap
    /\ UNCHANGED files

\* Mutant: the skyline is left as it was.
Priorize_stale(id) ==
    /\ LET m == io.maps[Index(id)]
       IN  io' = [io EXCEPT !.maps = Append(Without(@, m), m)]
    /\ last' = NoMap
    /\ UNCHANGED files

\* rz_io_map_priorize.
Priorize(id) ==
    /\ LET m == io.maps[Index(id)]
       IN  io' = [io EXCEPT !.maps = Append(Without(@, m), m),
                            !.skyline = SkylineAdd(@, m, id)]
    /\ last' = NoMap
    /\ UNCHANGED files

\* rz_io_map_depriorize.
Depriorize(id) ==
    /\ LET m == io.maps[Index(id)]
       IN  io' = Calculated([io EXCEPT !.maps = <<m>> \o Without(@, m)])
    /\ last' = NoMap
    /\ UNCHANGED files

\* rz_io_map_priorize_for_fd, after rz_io_map_cleanup, which finds nothing.
PriorizeForFd(fd) ==
    /\ LET those == {m \in ToSet(io.maps) : m.fd = fd}
       IN  io' = Calculated([io EXCEPT !.maps = Only(@, ToSet(@) \ those) \o Only(@, those)])
    /\ last' = NoMap
    /\ UNCHANGED files

\* rz_io_desc_close: the descriptor goes, and rz_io_map_cleanup deletes its maps.
Close(fd) ==
    /\ fd \in files
    /\ files' = files \ {fd}
    /\ io' = IF \E k \in DOMAIN io.maps : io.maps[k].fd = fd
             THEN Calculated(MapsDel(io, {m \in ToSet(io.maps) : m.fd \notin files'})) ELSE io
    /\ last' = NoMap

\* A descriptor is opened again.
Open(fd) ==
    /\ fd \notin files
    /\ files' = files \cup {fd}
    /\ last' = NoMap
    /\ UNCHANGED io

\* rz_io_map_reset: rz_io_map_fini and rz_io_map_init.
Reset ==
    /\ io.maps # <<>>
    /\ io' = [maps |-> <<>>, skyline |-> <<>>, next_id |-> 1, freed_ids |-> <<>>]
    /\ last' = NoMap
    /\ UNCHANGED files
-----------------------------------------------------------------------------
Next ==
    \/ \E fd \in Fds, itv \in Intervals : Add(fd, itv)
    \/ \E id \in Ids, itv \in Intervals :
         io.maps[Index(id)].size = itv.size /\ Remap(id, itv.addr)
    \/ \E id \in Ids, itv \in Intervals :
         io.maps[Index(id)].addr = itv.addr /\ Resize(id, itv.size)
    \/ \E id \in Ids : Del(id) \/ Priorize(id) \/ Depriorize(id)
    \/ \E fd \in Fds : DelForFd(fd) \/ PriorizeForFd(fd) \/ Close(fd) \/ Open(fd)
    \/ Reset

Spec == Init /\ [][Next]_vars
-----------------------------------------------------------------------------
(* Properties.                                                             *)

Maps == [id : Nat, fd : Fds, delta : Addr, addr : Addr, size : Addr]

TypeOK ==
    /\ io.maps \in Seq(Maps)
    /\ io.skyline \in Seq([addr : Addr, size : Addr, user : Nat])
    /\ io.next_id \in Nat /\ io.freed_ids \in Seq(Nat)
    /\ files \subseteq Fds

Shows(m, a) == m.addr <= a /\ a < m.addr + m.size

\* "Last map has highest priority (it shadows previous maps)" and "gets first
\* map where addr fits in": the skyline, however it came to be, answers as a
\* walk through the maps from the last to the first would.
SkylineIsTop ==
    \A a \in Addr :
      LET over == {k \in DOMAIN io.maps : Shows(io.maps[k], a)}
      IN  SkylineGet(io.skyline, a)
            = IF over = {} THEN None
              ELSE io.maps[CHOOSE k \in over : \A j \in over : j <= k].id

\* A map just added shows its descriptor byte after byte, across the end of
\* the address space.
NewMapShowsAll ==
    \A j \in 0..(last.size - 1) :
      LET a == (last.addr + j) % W
          id == SkylineGet(io.skyline, a)
      IN  /\ id \in Ids
          /\ LET m == io.maps[Index(id)] IN
               /\ m.fd = last.fd
               /\ (m.delta + (a - m.addr)) % W = (last.delta + j) % W

\* No two maps have the same id, and no id in use is free in the pool.
IdsUnique ==
    /\ \A j, k \in DOMAIN io.maps : io.maps[j].id = io.maps[k].id => j = k
    /\ \A k \in DOMAIN io.maps :
         io.maps[k].id < io.next_id /\ io.maps[k].id \notin ToSet(io.freed_ids)
    /\ IsInjective(io.freed_ids)
    /\ \A k \in DOMAIN io.freed_ids : io.freed_ids[k] < io.next_id

\* "delete map and iter if no desc exists for map->fd": no map shows a closed
\* descriptor.
MapsAreOpen == \A k \in DOMAIN io.maps : io.maps[k].fd \in files

\* The maps agree with the skyline, the pool of ids and the open descriptors.
MapsCorrect == TypeOK /\ SkylineIsTop /\ NewMapShowsAll /\ IdsUnique /\ MapsAreOpen
=============================================================================
