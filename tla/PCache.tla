------------------------------- MODULE PCache -------------------------------
(***************************************************************************)
(* The write cache of the descriptors, librz/io/p_cache.c, with the reads, *)
(* writes, resizes and exchanges of io_desc.c over it, and the settings    *)
(* io.pcache, io.pcache.read and io.pcache.write.  A cache is a table of   *)
(* blocks of bytes, each with a mask of those that are cached.             *)
(***************************************************************************)
EXTENDS Integers, Functions

CONSTANTS
    Fds,         \* the open descriptors
    MaxSize,     \* the largest size of a file
    BlockSize,   \* RZ_IO_DESC_CACHE_SIZE
    MaxWrites    \* bound on the number of writes

ASSUME PCacheAssumption == MaxSize \in Nat /\ BlockSize \in Nat \ {0} /\ MaxWrites \in Nat

VARIABLES
    p_cache,   \* io->p_cache: "R" is bit 1 and "W" bit 2
    config,    \* which of io.pcache.read and io.pcache.write the user set
    desc,      \* the bytes and the permission of each descriptor
    cache,     \* desc->cache of each: whether there is one, its blocks, the bytes that are cached
    writes,    \* how many writes there were
    done       \* the last operation

vars == <<p_cache, config, desc, cache, writes, done>>

Did(op) == done' = op

NoCache == [init |-> FALSE, blocks |-> {}, data |-> [a \in {} |-> 0]]

Init ==
    /\ p_cache = {} /\ config = {} /\ writes = 0
    /\ \E w \in SUBSET Fds, s \in [Fds -> 1 .. MaxSize] :
         desc = [fd \in Fds |-> [bytes |-> [a \in 0 .. s[fd] - 1 |-> 0], writable |-> fd \in w]]
    /\ cache = [fd \in Fds |-> NoCache]
    /\ done = "none"

\* The addresses below rz_io_desc_size.
Inside(d) == DOMAIN d.bytes
Block(a) == a \div BlockSize

\* The bytes of a cache over those of a descriptor.
Shown(d, c) == [a \in DOMAIN d.bytes |-> IF a \in DOMAIN c.data THEN c.data[a] ELSE d.bytes[a]]
Seen(fd) == Shown(desc[fd], cache[fd])

\* The part of a range that is in the file.
Clamped(d, addr, len) == (addr .. (addr + len) - 1) \cap Inside(d)
-----------------------------------------------------------------------------
(* Reading and writing.                                                    *)

\* rz_io_desc_cache_write of the n-th write.
CacheWrite(fd, addr, len, n) ==
    LET range == Clamped(desc[fd], addr, len)
        c == cache[fd]
    IN  [init |-> TRUE, blocks |-> c.blocks \cup {Block(a) : a \in range},
         data |-> [a \in DOMAIN c.data \cup range |-> IF a \in range THEN n ELSE c.data[a]]]

\* rz_io_desc_write at an address of the file.
Write(fd, addr, len) ==
    LET n == writes + 1
        range == Clamped(desc[fd], addr, len)
    IN  /\ writes < MaxWrites /\ addr \in Inside(desc[fd])
        /\ writes' = n
        /\ IF "W" \in p_cache
           THEN cache' = [cache EXCEPT ![fd] = CacheWrite(fd, addr, len, n)] /\ UNCHANGED desc
           ELSE /\ desc' = IF ~desc[fd].writable THEN desc
                           ELSE [desc EXCEPT ![fd].bytes = [a \in DOMAIN @ |-> IF a \in range THEN n ELSE @[a]]]
                /\ UNCHANGED cache
        /\ Did("write") /\ UNCHANGED <<p_cache, config>>

-----------------------------------------------------------------------------
(* Listing and committing.                                                 *)

\* The bytes of a block from one to the next that is not cached, as the loops of the callbacks of
\* rz_io_desc_cache_list and rz_io_desc_cache_commit collect them.
Runs(c, k) ==
    LET block == (k * BlockSize) .. (((k + 1) * BlockSize) - 1)
    IN  {r \in SUBSET (block \cap DOMAIN c.data) :
           \E a, b \in block : r = a .. b /\ r # {} /\ {a - 1, b + 1} \cap block \cap DOMAIN c.data = {}}

\* rz_io_desc_cache_list: the runs are read once more without the cache, which is then on for reads.
List(fd) ==
    /\ p_cache # {} /\ cache[fd].init
    /\ p_cache' = {"R"}
    /\ Did("list") /\ UNCHANGED <<config, desc, cache, writes>>

\* rz_io_desc_cache_commit: each run is written without the cache, which is then on for reads.
Commit(fd) ==
    LET written == UNION UNION {Runs(cache[fd], k) : k \in cache[fd].blocks}
    IN  /\ desc[fd].writable /\ p_cache # {} /\ cache[fd].init
        /\ desc' = [desc EXCEPT ![fd].bytes =
                      [a \in DOMAIN @ |-> IF a \in written THEN cache[fd].data[a] ELSE @[a]]]
        /\ cache' = [cache EXCEPT ![fd] = NoCache] /\ p_cache' = {"R"}
        /\ Did("commit") /\ UNCHANGED <<config, writes>>
-----------------------------------------------------------------------------
(* Resizing and exchanging.                                                *)

\* rz_io_desc_cache_cleanup: the blocks behind the end are deleted, the mask of the last is cut.
Cleaned(c, d) ==
    LET blocks == {k \in c.blocks : k * BlockSize \in Inside(d)}
    IN  [init |-> c.init, blocks |-> blocks,
         data |-> Restrict(c.data, {a \in DOMAIN c.data : Block(a) \in blocks /\ a \in Inside(d)})]

\* rz_io_desc_resize.
Resize(fd, size) ==
    /\ desc' = [desc EXCEPT ![fd].bytes = [a \in 0 .. size - 1 |-> IF a \in DOMAIN @ THEN @[a] ELSE 0]]
    /\ cache' = IF p_cache = {} THEN cache ELSE [cache EXCEPT ![fd] = Cleaned(@, desc'[fd])]
    /\ Did("resize") /\ UNCHANGED <<p_cache, config, writes>>

\* Mutant: the caches are exchanged back but not cleaned up.
Exchange_dirty(fd, fdx) ==
    /\ fd # fdx
    /\ desc' = [desc EXCEPT ![fd] = desc[fdx], ![fdx] = desc[fd]]
    /\ cache' = IF p_cache = {} THEN [cache EXCEPT ![fd] = cache[fdx], ![fdx] = cache[fd]] ELSE cache
    /\ Did("exchange") /\ UNCHANGED <<p_cache, config, writes>>

\* rz_io_desc_exchange: the descriptors change places, the caches stay with the numbers.
Exchange(fd, fdx) ==
    /\ fd # fdx
    /\ desc' = [desc EXCEPT ![fd] = desc[fdx], ![fdx] = desc[fd]]
    /\ cache' = IF p_cache = {} THEN [cache EXCEPT ![fd] = cache[fdx], ![fdx] = cache[fd]]
                ELSE [cache EXCEPT ![fd] = Cleaned(@, desc[fdx]), ![fdx] = Cleaned(@, desc[fd])]
    /\ Did("exchange") /\ UNCHANGED <<p_cache, config, writes>>
-----------------------------------------------------------------------------
(* The settings.                                                           *)

SetOn(bits) ==
    /\ config' = config \cup bits /\ p_cache' = p_cache \cup bits
    /\ Did("on") /\ UNCHANGED <<desc, cache, writes>>

\* io.pcache.read or io.pcache.write off: without the other bit all caches are dropped, and
\* io.pcache turns the other setting off.
SetOff(bit) ==
    /\ p_cache' = p_cache \ {bit}
    /\ IF p_cache # {} /\ p_cache' = {}
       THEN cache' = [fd \in Fds |-> NoCache] /\ config' = {}
       ELSE UNCHANGED cache /\ config' = config \ {bit}
    /\ Did("off") /\ UNCHANGED <<desc, writes>>

\* io.pcache off.
SetOffBoth ==
    /\ p_cache' = {} /\ config' = {} /\ cache' = [fd \in Fds |-> NoCache]
    /\ Did("off") /\ UNCHANGED <<desc, writes>>

Next ==
    \/ \E fd \in Fds, addr \in 0 .. MaxSize - 1, len \in 1 .. MaxSize : Write(fd, addr, len)
    \/ \E fd \in Fds : List(fd) \/ Commit(fd)
    \/ \E fd \in Fds, size \in 1 .. MaxSize : Resize(fd, size)
    \/ \E fd, fdx \in Fds : Exchange(fd, fdx)
    \/ \E bits \in {{"R"}, {"W"}, {"R", "W"}} : SetOn(bits)
    \/ \E bit \in {"R", "W"} : SetOff(bit)
    \/ SetOffBoth

Spec == Init /\ [][Next]_vars
-----------------------------------------------------------------------------
(* Properties.                                                             *)

Descs == [bytes : UNION {[0 .. size - 1 -> 0 .. MaxWrites] : size \in 1 .. MaxSize}, writable : BOOLEAN]
Caches == [init : BOOLEAN, blocks : SUBSET {Block(a) : a \in 0 .. MaxSize - 1},
           data : UNION {[range -> 0 .. MaxWrites] : range \in SUBSET (0 .. MaxSize - 1)}]

\* Also: every cached byte is in a block of the table.
TypeOK ==
    /\ p_cache \subseteq {"R", "W"} /\ config \subseteq {"R", "W"} /\ writes \in 0 .. MaxWrites
    /\ desc \in [Fds -> Descs] /\ cache \in [Fds -> Caches]
    /\ \A fd \in Fds : \A a \in DOMAIN cache[fd].data : Block(a) \in cache[fd].blocks

\* No byte is cached behind the end of its descriptor, after any resizes and exchanges.
CachedInSize == \A fd \in Fds : DOMAIN cache[fd].data \subseteq Inside(desc[fd])

\* Once neither reads nor writes are cached the settings say so, and no cache is left that would
\* show old bytes when one is switched on again.
OffIsClean == p_cache = {} => config = {} /\ \A fd \in Fds : ~cache[fd].init

\* What is cached fits the descriptors and the settings, after any resizes, exchanges, commits
\* and settings.
CachesFit == TypeOK /\ CachedInSize /\ OffIsClean

\* A commit changes no byte that a read through the cache gives, of this descriptor or another.
CommitKeepsStep == done' = "commit" => \A fd \in Fds : Seen(fd)' = Seen(fd)
=============================================================================
