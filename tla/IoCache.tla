------------------------------- MODULE IoCache -------------------------------
(***************************************************************************)
(* The write cache of the io layer, librz/io/io_cache.c, and the reads and *)
(* writes of io.c over it.  A cached write is an entry with its bytes and  *)
(* those it replaces; later entries cover earlier ones in a skyline.       *)
(* Entries can be committed to the file or taken back, those of a range or *)
(* all.  The file stands for the maps and descriptors below; every address *)
(* is mapped.                                                              *)
(***************************************************************************)
EXTENDS Skyline, RzList, SequencesExt, FiniteSetsExt

CONSTANTS
    Intervals,   \* the intervals written to, and the ranges of the commands
    Modes,       \* io->cached at first, sets of "R" and "W", a set to choose from
    MaxWrites,   \* bound on the number of writes
    Perms        \* whether the file can be written to, a set to choose from

IoCacheAssumption ==
    /\ WAssumption /\ Intervals \subseteq [addr : Addr, size : Addr \ {0}]
    /\ Modes \subseteq SUBSET {"R", "W"} /\ MaxWrites \in Nat /\ Perms \subseteq BOOLEAN

VARIABLES
    cached,    \* io->cached
    writable,  \* whether the file was opened with RZ_PERM_W
    file,      \* the bytes below the cache
    cache,     \* io->cache
    skyline,   \* io->cache_skyline
    writes,    \* how many writes there were
    base,      \* the file when the cache was last empty; <<>> once an entry alone was taken back
               \* or the file was written to below the entries
    done       \* the last command and its range

vars == <<cached, writable, file, cache, skyline, writes, base, done>>

\* The bytes of the file at first, and those of a write: all are different.
Original == [a \in Addr |-> a]
Bytes(n, size) == [i \in 0 .. size - 1 |-> (n * W) + i]

NoRange == [addr |-> 0, size |-> 0]
Did(op, r) == done' = [op |-> op, range |-> r]

Init ==
    /\ cached \in Modes /\ writable \in Perms /\ file = Original
    /\ cache = <<>> /\ skyline = <<>> /\ writes = 0 /\ base = Original
    /\ done = [op |-> "none", range |-> NoRange]

\* The index of a byte at address a in an interval that starts at addr.
At(addr, a) == (a - addr) % W

\* Bytes over others, past the last address at the first.
Put(f, addr, size, data) ==
    [a \in Addr |-> IF At(addr, a) < size THEN data[At(addr, a)] ELSE f[a]]

\* Every write of a list over the bytes, first to last.
PutAll(f, list) ==
    LET puts[k \in 0 .. Len(list)] ==
          IF k = 0 THEN f ELSE Put(puts[k - 1], list[k].addr, list[k].size, list[k].data)
    IN  puts[Len(list)]

\* rz_io_vwrite_at of a list of writes: nothing is written without the permission.
FileWrites(f, list) == IF writable THEN PutAll(f, list) ELSE f

FileRead(f, addr, size) == [i \in 0 .. size - 1 |-> f[(addr + i) % W]]
-----------------------------------------------------------------------------
(* Reading.                                                                *)

Entry(c, id) == CHOOSE e \in ToSet(c) : e.id = id

\* rz_skyline_get_item_intersect: the index of the first part, 0 for none.
FirstPart(sky, addr, len) ==
    LET i == LowerBound(Len(sky), {j \in DOMAIN sky : addr >= End(sky[j]) /\ End(sky[j]) # 0})
    IN  IF len # 0 /\ i < Len(sky) /\ ((addr + len) % W = 0 \/ sky[i + 1].addr < (addr + len) % W)
        THEN i + 1 ELSE 0

\* Mutant: a part that an entry shows from its middle is read from the begin of the entry.
CopyPart_begin(c, part, addr, len, buf) ==
    LET off == IF part.addr > addr THEN part.addr - addr ELSE 0
        shift == IF part.addr < addr THEN addr - part.addr ELSE 0
        n == Min({len - off, part.size - shift})
    IN  [i \in DOMAIN buf |-> IF i >= off /\ i < off + n
                              THEN Entry(c, part.user).data[(i - off) + shift] ELSE buf[i]]

\* One round of the loop: the bytes a part of the skyline shares with what is read.
CopyPart(c, part, addr, len, buf) ==
    LET off == IF part.addr > addr THEN part.addr - addr ELSE 0
        shift == IF part.addr < addr THEN addr - part.addr ELSE 0
        n == Min({len - off, part.size - shift})
        from == (part.addr - Entry(c, part.user).addr) + shift
    IN  [i \in DOMAIN buf |-> IF i >= off /\ i < off + n
                              THEN Entry(c, part.user).data[(i - off) + from] ELSE buf[i]]

\* rz_io_cache_read of a range that does not wrap: whether anything was there, and the buffer.
CacheRead(c, sky, addr, len, buf) ==
    LET first == FirstPart(sky, addr, len)
        bufs[k \in 0 .. Len(sky)] ==
          IF k = 0 THEN buf
          ELSE IF k >= first /\ sky[k].addr <= addr + len
               THEN CopyPart(c, sky[k], addr, len, bufs[k - 1]) ELSE bufs[k - 1]
    IN  [ok |-> first # 0, buf |-> IF first = 0 THEN buf ELSE bufs[Len(sky)]]

\* rz_io_read_at_mapped.
ReadAtMapped(mode, f, c, sky, addr, len) ==
    LET below == FileRead(f, addr, len)
    IN  IF "R" \in mode THEN CacheRead(c, sky, addr, len, below).buf ELSE below
-----------------------------------------------------------------------------
(* Writing.                                                                *)

\* The end of rz_io_cache_write: a new entry on top, with what it replaces.
AddEntry(s, id, addr, len, data) ==
    LET e == [id |-> id, addr |-> addr, size |-> len, data |-> data, written |-> FALSE,
              odata |-> IF len = 0 THEN data ELSE ReadAtMapped(cached, file, s.cache, s.skyline, addr, len)]
    IN  [cache |-> Append(s.cache, e), skyline |-> SkylineAdd(s.skyline, e, id)]

\* rz_io_cache_write: what goes past the last address becomes an entry at 0; an entry ends
\* before the last address.
CacheWrite(s, n, addr, len, data) ==
    IF W - 1 - addr < len
    THEN LET first == W - 1 - addr
             low == AddEntry(s, 2 * n, 0, len - first, [i \in 0 .. (len - first) - 1 |-> data[first + i]])
         IN  AddEntry(low, (2 * n) + 1, addr, first, [i \in 0 .. first - 1 |-> data[i]])
    ELSE AddEntry(s, 2 * n, addr, len, data)

\* rz_io_write_at.
WriteAt(r) ==
    LET data == Bytes(writes + 1, r.size)
        s == CacheWrite([cache |-> cache, skyline |-> skyline], writes, r.addr, r.size, data)
    IN  /\ writes < MaxWrites /\ writes' = writes + 1
        /\ IF "W" \in cached
           THEN cache' = s.cache /\ skyline' = s.skyline /\ UNCHANGED <<file, base>>
           ELSE /\ file' = FileWrites(file, <<[addr |-> r.addr, size |-> r.size, data |-> data]>>)
                /\ base' = IF cache = <<>> THEN file' ELSE <<>>
                /\ UNCHANGED <<cache, skyline>>
        /\ Did("write", r) /\ UNCHANGED <<cached, writable>>

\* io.cache.read, io.cache.write and io.cache, which sets both.
SetCached ==
    /\ \E x \in {{"R"}, {"W"}, {"R", "W"}} : cached' \in {cached \cup x, cached \ x}
    /\ Did("config", NoRange) /\ UNCHANGED <<writable, file, cache, skyline, writes, base>>
-----------------------------------------------------------------------------
(* The commands wc+, wci, wc- and wc-*.                                    *)

Hit(r) == {e \in ToSet(cache) : Overlap(e, r)}

\* Mutant: the entries are written newest first.
Commit_reverse(r) ==
    /\ file' = FileWrites(file, Reverse(Only(cache, Hit(r))))
    /\ cache' = [k \in DOMAIN cache |-> IF cache[k] \in Hit(r) /\ writable
                                        THEN [cache[k] EXCEPT !.written = TRUE] ELSE cache[k]]
    /\ UNCHANGED <<cached, writable, skyline, writes, base>>

\* rz_io_cache_commit: every entry that overlaps the range is written whole, oldest first.
Commit(r) ==
    /\ file' = FileWrites(file, Only(cache, Hit(r)))
    /\ cache' = [k \in DOMAIN cache |-> IF cache[k] \in Hit(r) /\ writable
                                        THEN [cache[k] EXCEPT !.written = TRUE] ELSE cache[k]]
    /\ UNCHANGED <<cached, writable, skyline, writes, base>>

\* From 0 to UT64_MAX.
Everything == [addr |-> 0, size |-> W - 1]

CommitRange(r) == Commit(r) /\ Did("wc+", r)
CommitAll == Commit(Everything) /\ Did("wci", Everything)

\* What the entries of a list replaced, newest first.
Replaced(c) ==
    [k \in DOMAIN c |-> LET e == c[(Len(c) - k) + 1]
                        IN  [addr |-> e.addr, size |-> e.size, data |-> e.odata]]

\* rz_io_cache_invalidate: every entry that overlaps the range is removed and what it replaced is
\* written, newest first; the skyline is built anew.
Invalidate(r) ==
    LET kept == Only(cache, ToSet(cache) \ Hit(r))
    IN  /\ file' = FileWrites(file, Replaced(Only(cache, Hit(r))))
        /\ cache' = kept /\ skyline' = SkylineOf(kept)
        /\ base' = IF kept = <<>> THEN file' ELSE IF kept = cache THEN base ELSE <<>>
        /\ UNCHANGED <<cached, writable, writes>>

RemoveRange(r) == Invalidate(r) /\ Did("wc-", r)
RemoveAll == Invalidate(Everything) /\ Did("wc- all", Everything)

\* rz_io_cache_reset: the entries are dropped, the file is left as it is.
Reset ==
    /\ cache' = <<>> /\ skyline' = <<>> /\ base' = file
    /\ Did("wc-*", Everything) /\ UNCHANGED <<cached, writable, file, writes>>

Next ==
    \/ \E r \in Intervals : WriteAt(r) \/ CommitRange(r) \/ RemoveRange(r)
    \/ CommitAll \/ RemoveAll \/ Reset \/ SetCached

Spec == Init /\ [][Next]_vars
-----------------------------------------------------------------------------
(* Properties.                                                             *)

TypeOK ==
    /\ cached \in SUBSET {"R", "W"} /\ writes \in 0 .. MaxWrites
    /\ DOMAIN file = Addr
    /\ \A k \in DOMAIN cache :
         /\ cache[k].addr \in Addr /\ cache[k].size \in Addr /\ cache[k].written \in BOOLEAN
         /\ DOMAIN cache[k].data = 0 .. cache[k].size - 1
    /\ \A k \in DOMAIN skyline : skyline[k].addr \in Addr /\ skyline[k].size \in Addr

\* The bytes that the entries of a list leave over those of the file.
Shown(c, f) == PutAll(f, c)

\* Every part of the skyline is of an entry that is still there: the entry was freed otherwise.
PartsHaveEntries ==
    \A k \in DOMAIN skyline : \E e \in ToSet(cache) : e.id = skyline[k].user /\ Include(e, skyline[k])

Ranges == {r \in [addr : Addr, size : Addr \ {0}] : r.addr + r.size < W}

\* A read through the cache gives at each address the byte of the newest entry that has it, or the
\* byte of the file, for whatever range it is asked.
ReadsNewest ==
    \A r \in Ranges :
        ReadAtMapped({"R"}, file, cache, skyline, r.addr, r.size) = FileRead(Shown(cache, file), r.addr, r.size)

\* The entries, the skyline over them and what a read gives agree.
CacheReads == TypeOK /\ PartsHaveEntries /\ ReadsNewest

\* After wci the file holds what a read through the cache gave before it, and gives after it.
CommitAllFlushesStep ==
    done'.op = "wci" /\ writable =>
        file' = Shown(cache, file) /\ Shown(cache', file') = Shown(cache, file)

\* Taking back all entries restores the file as it was when the cache was last empty, whichever of
\* them were committed and however they overlap, unless some were taken back before the others or
\* the file was written to directly.
RestoresAllStep == done'.op = "wc- all" /\ base # <<>> => file' = base

\* A cached write of any range is what a read through the cache gives from then on at the addresses
\* of the range, and at no other.
WrittenIsReadStep ==
    done'.op = "write" /\ "W" \in cached =>
        FileRead(Shown(cache', file'), 0, W) =
        Put(FileRead(Shown(cache, file), 0, W), done'.range.addr, done'.range.size,
            Bytes(writes', done'.range.size))
==============================================================================
