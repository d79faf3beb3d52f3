------------------------------ MODULE IoProofs ------------------------------
(***************************************************************************)
(* Proofs about the io layer, for any descriptors, sizes, blocks and       *)
(* intervals: the descriptor caches stay within their descriptors and none *)
(* outlives the settings, the skylines, which the write cache and the maps *)
(* read through, answer as a walk through their lists would, and the       *)
(* commands of both caches keep what reads give.                           *)
(***************************************************************************)
EXTENDS MCIo, RzList, FiniteSetTheorems, SequenceTheorems, WellFoundedInduction, TLAPS

\* A descriptor without a cache has nothing cached.
NoneIsEmpty == \A fd \in Fds : ~cache[fd].init => cache[fd] = NoCache

Inv == TypeOK /\ CachedInSize /\ OffIsClean /\ NoneIsEmpty

Addrs == 0 .. MaxSize - 1
Datas == UNION {[range -> 0 .. MaxWrites] : range \in SUBSET Addrs}
Contents == UNION {[0 .. size - 1 -> 0 .. MaxWrites] : size \in 1 .. MaxSize}

\* No cache is a cache.
LEMMA NoCacheType ==
    /\ NoCache \in Caches /\ DOMAIN NoCache.data = {} /\ NoCache.init = FALSE
<1>1. [a \in {} |-> 0] \in [{} -> 0 .. MaxWrites]
  OBVIOUS
<1>2. [a \in {} |-> 0] \in Datas
  BY <1>1 DEF Datas
<1> QED
  BY <1>2 DEF NoCache, Caches, Datas, Addrs

\* The addresses of a descriptor are addresses of the model.
LEMMA InsideIsAddrs ==
    ASSUME NEW d \in Descs
    PROVE  Inside(d) \subseteq Addrs
<1>1. PICK size \in 1 .. MaxSize : d.bytes \in [0 .. size - 1 -> 0 .. MaxWrites]
  BY DEF Descs
<1> QED
  BY <1>1, PCacheAssumption DEF Inside, Addrs

\* A cache that was cleaned up is one, within the descriptor, and there as before.
LEMMA CleanedIsCache ==
    ASSUME NEW c \in Caches, NEW d \in Descs
    PROVE  /\ Cleaned(c, d) \in Caches /\ Cleaned(c, d).init = c.init
           /\ DOMAIN Cleaned(c, d).data \subseteq Inside(d)
           /\ \A a \in DOMAIN Cleaned(c, d).data : Block(a) \in Cleaned(c, d).blocks
           /\ c = NoCache => Cleaned(c, d) = NoCache
<1> DEFINE blocks == {k \in c.blocks : k * BlockSize \in Inside(d)}
           dom == {a \in DOMAIN c.data : Block(a) \in blocks /\ a \in Inside(d)}
<1>1. PICK range \in SUBSET Addrs : c.data \in [range -> 0 .. MaxWrites]
  BY DEF Caches, Addrs
<1>2. Restrict(c.data, dom) \in [dom -> 0 .. MaxWrites] /\ dom \in SUBSET Addrs
  BY <1>1 DEF Restrict
<1>3. Restrict(c.data, dom) \in Datas
  BY <1>2 DEF Datas
<1>4. Cleaned(c, d) = [init |-> c.init, blocks |-> blocks, data |-> Restrict(c.data, dom)]
  BY DEF Cleaned
<1>5. Cleaned(c, d) \in Caches
  BY <1>3, <1>4 DEF Caches, Datas, Addrs
<1>6. ASSUME c = NoCache PROVE Cleaned(c, d) = NoCache
  <2>1. blocks = {} /\ dom = {}
    BY <1>6 DEF NoCache
  <2>2. Restrict(c.data, {}) = [a \in {} |-> 0]
    BY DEF Restrict
  <2> QED
    BY <1>4, <1>6, <2>1, <2>2 DEF NoCache
<1>7. Cleaned(c, d).init = c.init /\ DOMAIN Cleaned(c, d).data = dom /\ Cleaned(c, d).blocks = blocks
  BY <1>2, <1>4
<1> QED
  BY <1>5, <1>6, <1>7
-----------------------------------------------------------------------------
(* The steps that write.                                                   *)

\* The first states satisfy the invariant: nothing is cached.
LEMMA InitInv == Init => Inv
<1> SUFFICES ASSUME Init PROVE Inv
  OBVIOUS
<1>1. PICK w \in SUBSET Fds, s \in [Fds -> 1 .. MaxSize] :
        desc = [fd \in Fds |-> [bytes |-> [a \in 0 .. s[fd] - 1 |-> 0], writable |-> fd \in w]]
  BY DEF Init
<1>2. ASSUME NEW fd \in Fds PROVE desc[fd] \in Descs
  <2>1. desc[fd] = [bytes |-> [a \in 0 .. s[fd] - 1 |-> 0], writable |-> fd \in w]
    BY <1>1
  <2>2. s[fd] \in 1 .. MaxSize /\ [a \in 0 .. s[fd] - 1 |-> 0] \in [0 .. s[fd] - 1 -> 0 .. MaxWrites]
    BY PCacheAssumption
  <2>3. [a \in 0 .. s[fd] - 1 |-> 0] \in Contents
    BY <2>2 DEF Contents
  <2> QED
    BY <2>1, <2>3 DEF Descs, Contents
<1>3. desc \in [Fds -> Descs]
  BY <1>1, <1>2
<1>4. cache = [fd \in Fds |-> NoCache] /\ p_cache = {} /\ config = {} /\ writes = 0
  BY DEF Init
<1> QED
  BY <1>3, <1>4, NoCacheType, PCacheAssumption DEF Inv, TypeOK, CachedInSize, OffIsClean, NoneIsEmpty

\* What is cached by a write is in a block of the table and in the file.
LEMMA CacheWriteIsCache ==
    ASSUME NEW c \in Caches, NEW d \in Descs, NEW addr \in Nat, NEW len \in Nat, NEW n \in 0 .. MaxWrites,
           NEW range, range = Clamped(d, addr, len),
           NEW new, new = [init |-> TRUE, blocks |-> c.blocks \cup {Block(a) : a \in range},
                           data |-> [a \in DOMAIN c.data \cup range |-> IF a \in range THEN n ELSE c.data[a]]],
           DOMAIN c.data \subseteq Inside(d), \A a \in DOMAIN c.data : Block(a) \in c.blocks
    PROVE  new \in Caches /\ new.init /\ DOMAIN new.data \subseteq Inside(d)
           /\ \A a \in DOMAIN new.data : Block(a) \in new.blocks
<1> DEFINE dom == DOMAIN c.data \cup range
           data == [a \in dom |-> IF a \in range THEN n ELSE c.data[a]]
<1>1. PICK old \in SUBSET Addrs : c.data \in [old -> 0 .. MaxWrites]
  BY DEF Caches, Addrs
<1>2. range \subseteq Inside(d) /\ Inside(d) \subseteq Addrs
  BY InsideIsAddrs DEF Clamped
<1>3. dom \in SUBSET Addrs /\ data \in [dom -> 0 .. MaxWrites]
  BY <1>1, <1>2
<1>4. data \in Datas
  BY <1>3 DEF Datas
<1>5. {Block(a) : a \in range} \subseteq {Block(a) : a \in Addrs}
  BY <1>2
<1>6. c.blocks \cup {Block(a) : a \in range} \in SUBSET {Block(a) : a \in Addrs}
  BY <1>5 DEF Caches, Addrs
<1>7. new.init = TRUE /\ new.blocks = c.blocks \cup {Block(a) : a \in range} /\ new.data = data
  OBVIOUS
<1>8. new \in Caches
  BY <1>4, <1>6 DEF Caches, Datas, Addrs
<1>9. DOMAIN new.data = dom
  BY <1>7
<1> QED
  BY <1>2, <1>7, <1>8, <1>9

\* Bytes of a descriptor that are replaced by others.
LEMMA BytesReplaced ==
    ASSUME NEW d \in Descs, NEW new, DOMAIN new = DOMAIN d.bytes, \A a \in DOMAIN d.bytes : new[a] \in 0 .. MaxWrites,
           new = [a \in DOMAIN new |-> new[a]]
    PROVE  [d EXCEPT !.bytes = new] \in Descs /\ Inside([d EXCEPT !.bytes = new]) = Inside(d)
<1>1. PICK size \in 1 .. MaxSize : d.bytes \in [0 .. size - 1 -> 0 .. MaxWrites]
  BY DEF Descs
<1>2. new \in [0 .. size - 1 -> 0 .. MaxWrites]
  BY <1>1
<1>3. new \in Contents
  BY <1>2 DEF Contents
<1>4. [d EXCEPT !.bytes = new] = [bytes |-> new, writable |-> d.writable]
  BY DEF Descs
<1> QED
  BY <1>3, <1>4 DEF Descs, Contents, Inside

\* The invariant from what it says of each descriptor.
LEMMA InvFrom ==
    ASSUME p_cache' \subseteq {"R", "W"}, config' \subseteq {"R", "W"}, writes' \in 0 .. MaxWrites,
           desc' \in [Fds -> Descs], cache' \in [Fds -> Caches],
           \A fd \in Fds : /\ DOMAIN cache'[fd].data \subseteq Inside(desc'[fd])
                           /\ \A a \in DOMAIN cache'[fd].data : Block(a) \in cache'[fd].blocks
                           /\ ~cache'[fd].init => cache'[fd] = NoCache
                           /\ p_cache' = {} => ~cache'[fd].init,
           p_cache' = {} => config' = {}
    PROVE  Inv'
BY DEF Inv, TypeOK, CachedInSize, OffIsClean, NoneIsEmpty, Block, Inside, NoCache, Descs, Caches

\* A write, cached or not, keeps the invariant.
LEMMA WriteInv ==
    ASSUME Inv, NEW fd \in Fds, NEW addr \in 0 .. MaxSize - 1, NEW len \in 1 .. MaxSize, Write(fd, addr, len)
    PROVE  Inv'
<1> DEFINE range == Clamped(desc[fd], addr, len)
<1>1. desc[fd] \in Descs /\ cache[fd] \in Caches /\ addr \in Nat /\ len \in Nat
  BY PCacheAssumption DEF Inv, TypeOK
<1>2. writes + 1 \in 0 .. MaxWrites /\ writes' = writes + 1 /\ p_cache' = p_cache /\ config' = config
  BY PCacheAssumption DEF Write, Inv, TypeOK
<1>3. CASE "W" \in p_cache
  <2>1. cache' = [cache EXCEPT ![fd] = CacheWrite(fd, addr, len, writes + 1)] /\ desc' = desc
    BY <1>3 DEF Write
  <2>2. PICK new : new = CacheWrite(fd, addr, len, writes + 1)
    OBVIOUS
  <2>3. new \in Caches /\ new.init /\ DOMAIN new.data \subseteq Inside(desc[fd])
        /\ \A a \in DOMAIN new.data : Block(a) \in new.blocks
    <3>1. PICK c, d, n : c = cache[fd] /\ d = desc[fd] /\ n = writes + 1
      OBVIOUS
    <3>2. PICK r : r = Clamped(d, addr, len)
      OBVIOUS
    <3>3. c \in Caches /\ d \in Descs /\ n \in 0 .. MaxWrites
      BY <1>1, <1>2, <3>1
    <3>4. DOMAIN c.data \subseteq Inside(d) /\ \A a \in DOMAIN c.data : Block(a) \in c.blocks
      BY <3>1 DEF Inv, TypeOK, CachedInSize
    <3>5. new = [init |-> TRUE, blocks |-> c.blocks \cup {Block(a) : a \in r},
                 data |-> [a \in DOMAIN c.data \cup r |-> IF a \in r THEN n ELSE c.data[a]]]
      BY <2>2, <3>1, <3>2 DEF CacheWrite
    <3>6. new \in Caches /\ new.init /\ DOMAIN new.data \subseteq Inside(d)
          /\ \A a \in DOMAIN new.data : Block(a) \in new.blocks
      BY <1>1, <3>2, <3>3, <3>4, <3>5, CacheWriteIsCache
    <3> QED
      BY <3>1, <3>6
  <2> QED
    BY <1>2, <1>3, <2>1, <2>2, <2>3, InvFrom DEF Inv, TypeOK, CachedInSize, OffIsClean, NoneIsEmpty
<1>4. CASE "W" \notin p_cache
  <2>1. cache' = cache
    BY <1>4 DEF Write
  <2>2. CASE ~desc[fd].writable
    <3>1. desc' = desc
      BY <1>4, <2>2 DEF Write
    <3> QED
      BY <1>2, <2>1, <3>1, InvFrom DEF Inv, TypeOK, CachedInSize, OffIsClean, NoneIsEmpty
  <2>3. CASE desc[fd].writable
    <3>1. PICK new : new = [a \in DOMAIN desc[fd].bytes |-> IF a \in range THEN writes + 1 ELSE desc[fd].bytes[a]]
      OBVIOUS
    <3>2. desc' = [desc EXCEPT ![fd] = [desc[fd] EXCEPT !.bytes = new]]
      BY <1>4, <2>3, <3>1 DEF Write
    <3>3. PICK size \in 1 .. MaxSize : desc[fd].bytes \in [0 .. size - 1 -> 0 .. MaxWrites]
      BY <1>1 DEF Descs
    <3>4. DOMAIN new = DOMAIN desc[fd].bytes /\ new = [a \in DOMAIN new |-> new[a]]
          /\ \A a \in DOMAIN desc[fd].bytes : new[a] \in 0 .. MaxWrites
      BY <1>2, <3>1, <3>3
    <3>5. [desc[fd] EXCEPT !.bytes = new] \in Descs /\ Inside([desc[fd] EXCEPT !.bytes = new]) = Inside(desc[fd])
      BY <1>1, <3>4, BytesReplaced
    <3>6. PICK d : d = [desc[fd] EXCEPT !.bytes = new]
      OBVIOUS
    <3> QED
      BY <1>2, <2>1, <3>2, <3>5, <3>6, InvFrom DEF Inv, TypeOK, CachedInSize, OffIsClean, NoneIsEmpty
  <2> QED
    BY <2>2, <2>3
<1> QED
  BY <1>3, <1>4
-----------------------------------------------------------------------------
(* The other steps.                                                        *)

\* A commit writes within the file and drops the cache.
LEMMA CommitInv ==
    ASSUME Inv, NEW fd \in Fds, Commit(fd)
    PROVE  Inv'
<1> DEFINE written == UNION UNION {Runs(cache[fd], k) : k \in cache[fd].blocks}
<1>1. desc[fd] \in Descs /\ cache[fd] \in Caches
  BY DEF Inv, TypeOK
<1>2. written \subseteq DOMAIN cache[fd].data
  BY DEF Runs
<1>3. PICK range \in SUBSET Addrs : cache[fd].data \in [range -> 0 .. MaxWrites]
  BY <1>1 DEF Caches, Addrs
<1>4. PICK size \in 1 .. MaxSize : desc[fd].bytes \in [0 .. size - 1 -> 0 .. MaxWrites]
  BY <1>1 DEF Descs
<1>5. PICK new : new = [a \in DOMAIN desc[fd].bytes |-> IF a \in written THEN cache[fd].data[a] ELSE desc[fd].bytes[a]]
  OBVIOUS
<1>6. DOMAIN new = DOMAIN desc[fd].bytes /\ new = [a \in DOMAIN new |-> new[a]]
      /\ \A a \in DOMAIN desc[fd].bytes : new[a] \in 0 .. MaxWrites
  <2> HIDE DEF written
  <2> QED
    BY <1>2, <1>3, <1>4, <1>5
<1>7. desc' = [desc EXCEPT ![fd] = [desc[fd] EXCEPT !.bytes = new]]
  BY <1>5 DEF Commit
<1>8. [desc[fd] EXCEPT !.bytes = new] \in Descs /\ Inside([desc[fd] EXCEPT !.bytes = new]) = Inside(desc[fd])
  BY <1>1, <1>6, BytesReplaced
<1>9. PICK d : d = [desc[fd] EXCEPT !.bytes = new]
  OBVIOUS
<1>10. cache' = [cache EXCEPT ![fd] = NoCache] /\ p_cache' = {"R"} /\ config' = config /\ writes' = writes
  BY DEF Commit
<1> QED
  BY <1>7, <1>8, <1>9, <1>10, NoCacheType, InvFrom DEF Inv, TypeOK, CachedInSize, OffIsClean, NoneIsEmpty

\* A descriptor of another size.
LEMMA BytesResized ==
    ASSUME NEW d \in Descs, NEW size \in 1 .. MaxSize
    PROVE  [bytes |-> [a \in 0 .. size - 1 |-> IF a \in DOMAIN d.bytes THEN d.bytes[a] ELSE 0],
            writable |-> d.writable] \in Descs
<1> DEFINE new == [a \in 0 .. size - 1 |-> IF a \in DOMAIN d.bytes THEN d.bytes[a] ELSE 0]
<1>1. PICK old \in 1 .. MaxSize : d.bytes \in [0 .. old - 1 -> 0 .. MaxWrites]
  BY DEF Descs
<1>2. new \in [0 .. size - 1 -> 0 .. MaxWrites]
  BY <1>1, PCacheAssumption
<1>3. new \in Contents
  BY <1>2 DEF Contents
<1> QED
  BY <1>3 DEF Descs, Contents

\* A resize cuts the cache with the file.
LEMMA ResizeInv ==
    ASSUME Inv, NEW fd \in Fds, NEW size \in 1 .. MaxSize, Resize(fd, size)
    PROVE  Inv'
<1>1. desc[fd] \in Descs /\ cache[fd] \in Caches
  BY DEF Inv, TypeOK
<1>2. PICK d : d = [bytes |-> [a \in 0 .. size - 1 |-> IF a \in DOMAIN desc[fd].bytes THEN desc[fd].bytes[a] ELSE 0],
                    writable |-> desc[fd].writable]
  OBVIOUS
<1>3. d \in Descs
  BY <1>1, <1>2, BytesResized
<1>4. desc' = [desc EXCEPT ![fd] = d]
  <2>1. PICK new : new = [a \in 0 .. size - 1 |-> IF a \in DOMAIN desc[fd].bytes THEN desc[fd].bytes[a] ELSE 0]
    OBVIOUS
  <2>2. [desc[fd] EXCEPT !.bytes = new] = [bytes |-> new, writable |-> desc[fd].writable]
    BY <1>1 DEF Descs
  <2>3. desc' = [desc EXCEPT ![fd] = [desc[fd] EXCEPT !.bytes = new]]
    BY <2>1 DEF Resize
  <2> QED
    BY <1>2, <2>1, <2>2, <2>3
<1>5. desc'[fd] = d /\ p_cache' = p_cache /\ config' = config /\ writes' = writes
  BY <1>1, <1>4 DEF Resize, Inv, TypeOK
<1>6. CASE p_cache = {}
  <2>1. cache' = cache
    BY <1>6 DEF Resize
  <2> QED
    BY <1>3, <1>4, <1>5, <1>6, <2>1, NoCacheType, InvFrom DEF Inv, TypeOK, CachedInSize, OffIsClean, NoneIsEmpty
<1>7. CASE p_cache # {}
  <2>1. PICK c : c = Cleaned(cache[fd], d)
    OBVIOUS
  <2>2. cache' = [cache EXCEPT ![fd] = c]
    BY <1>5, <1>7, <2>1 DEF Resize
  <2>3. /\ c \in Caches /\ c.init = cache[fd].init /\ DOMAIN c.data \subseteq Inside(d)
        /\ \A a \in DOMAIN c.data : Block(a) \in c.blocks
        /\ cache[fd] = NoCache => c = NoCache
    BY <1>1, <1>3, <2>1, CleanedIsCache
  <2> QED
    BY <1>3, <1>4, <1>5, <1>7, <2>2, <2>3, InvFrom DEF Inv, TypeOK, CachedInSize, OffIsClean, NoneIsEmpty
<1> QED
  BY <1>6, <1>7

\* An exchange cuts each cache to its new descriptor.
LEMMA ExchangeInv ==
    ASSUME Inv, NEW fd \in Fds, NEW fdx \in Fds, Exchange(fd, fdx)
    PROVE  Inv'
<1>1. desc[fd] \in Descs /\ cache[fd] \in Caches /\ desc[fdx] \in Descs /\ cache[fdx] \in Caches
  BY DEF Inv, TypeOK
<1>2. /\ desc' = [desc EXCEPT ![fd] = desc[fdx], ![fdx] = desc[fd]] /\ fd # fdx
      /\ p_cache' = p_cache /\ config' = config /\ writes' = writes
  BY DEF Exchange
<1>3. CASE p_cache = {}
  <2>1. cache' = [cache EXCEPT ![fd] = cache[fdx], ![fdx] = cache[fd]]
    BY <1>3 DEF Exchange
  <2> QED
    BY <1>1, <1>2, <1>3, <2>1, NoCacheType, InvFrom DEF Inv, TypeOK, CachedInSize, OffIsClean, NoneIsEmpty
<1>4. CASE p_cache # {}
  <2>1. PICK c, cx : c = Cleaned(cache[fd], desc[fdx]) /\ cx = Cleaned(cache[fdx], desc[fd])
    OBVIOUS
  <2>2. cache' = [cache EXCEPT ![fd] = c, ![fdx] = cx]
    BY <1>2, <1>4, <2>1 DEF Exchange, Inv, TypeOK
  <2>3. /\ c \in Caches /\ c.init = cache[fd].init /\ DOMAIN c.data \subseteq Inside(desc[fdx])
        /\ \A a \in DOMAIN c.data : Block(a) \in c.blocks
        /\ cache[fd] = NoCache => c = NoCache
    BY <1>1, <2>1, CleanedIsCache
  <2>4. /\ cx \in Caches /\ cx.init = cache[fdx].init /\ DOMAIN cx.data \subseteq Inside(desc[fd])
        /\ \A a \in DOMAIN cx.data : Block(a) \in cx.blocks
        /\ cache[fdx] = NoCache => cx = NoCache
    BY <1>1, <2>1, CleanedIsCache
  <2> QED
    BY <1>1, <1>2, <1>4, <2>2, <2>3, <2>4, InvFrom DEF Inv, TypeOK, CachedInSize, OffIsClean, NoneIsEmpty
<1> QED
  BY <1>3, <1>4

\* The settings keep the invariant: the last bit takes the caches with it.
LEMMA SettingsInv ==
    ASSUME Inv, \/ \E bits \in {{"R"}, {"W"}, {"R", "W"}} : SetOn(bits)
                \/ \E bit \in {"R", "W"} : SetOff(bit)
                \/ SetOffBoth
    PROVE  Inv'
<1>1. ASSUME NEW bits \in {{"R"}, {"W"}, {"R", "W"}}, SetOn(bits) PROVE Inv'
  BY <1>1, InvFrom DEF SetOn, Inv, TypeOK, CachedInSize, OffIsClean, NoneIsEmpty
<1>2. ASSUME NEW bit \in {"R", "W"}, SetOff(bit) PROVE Inv'
  <2>1. p_cache' = p_cache \ {bit} /\ desc' = desc /\ writes' = writes
    BY <1>2 DEF SetOff
  <2>2. CASE p_cache # {} /\ p_cache' = {}
    <3>1. cache' = [fd \in Fds |-> NoCache] /\ config' = {}
      BY <1>2, <2>2 DEF SetOff
    <3> QED
      BY <2>1, <3>1, NoCacheType, InvFrom DEF Inv, TypeOK
  <2>3. CASE ~(p_cache # {} /\ p_cache' = {})
    <3>1. cache' = cache /\ config' = config \ {bit}
      BY <1>2, <2>3 DEF SetOff
    <3> QED
      BY <2>1, <2>3, <3>1, InvFrom DEF Inv, TypeOK, CachedInSize, OffIsClean, NoneIsEmpty
  <2> QED
    BY <2>2, <2>3
<1>3. ASSUME SetOffBoth PROVE Inv'
  BY <1>3, NoCacheType, InvFrom DEF SetOffBoth, Inv, TypeOK
<1> QED
  BY <1>1, <1>2, <1>3

\* A list changes p_cache alone, and leaves a bit on.
LEMMA ListInv ==
    ASSUME Inv, NEW fd \in Fds, List(fd)
    PROVE  Inv'
BY InvFrom DEF List, Inv, TypeOK, CachedInSize, OffIsClean, NoneIsEmpty

\* Every step keeps the invariant.
LEMMA NextInv == Inv /\ [Next]_vars => Inv'
<1> SUFFICES ASSUME Inv, [Next]_vars PROVE Inv'
  OBVIOUS
<1>1. CASE UNCHANGED vars
  BY <1>1, InvFrom DEF vars, Inv, TypeOK, CachedInSize, OffIsClean, NoneIsEmpty
<1>2. CASE \E fd \in Fds, addr \in 0 .. MaxSize - 1, len \in 1 .. MaxSize : Write(fd, addr, len)
  BY <1>2, WriteInv
<1>3. CASE \E fd \in Fds : List(fd)
  BY <1>3, ListInv
<1>4. CASE \E fd \in Fds : Commit(fd)
  BY <1>4, CommitInv
<1>5. CASE \E fd \in Fds, size \in 1 .. MaxSize : Resize(fd, size)
  BY <1>5, ResizeInv
<1>6. CASE \E fd, fdx \in Fds : Exchange(fd, fdx)
  BY <1>6, ExchangeInv
<1>7. CASE \/ \E bits \in {{"R"}, {"W"}, {"R", "W"}} : SetOn(bits)
           \/ \E bit \in {"R", "W"} : SetOff(bit)
           \/ SetOffBoth
  BY <1>7, SettingsInv
<1> QED
  BY <1>1, <1>2, <1>3, <1>4, <1>5, <1>6, <1>7 DEF Next

\* The inductive invariant holds in every reachable state.
THEOREM Invariance == Spec => []Inv
BY InitInv, NextInv, PTL DEF Spec

\* After any sequence of writes, commits, resizes, exchanges and settings no byte of a descriptor's
\* cache is behind the end of the file (rz_io_desc_cache_cleanup).
THEOREM CacheInSize == Spec => []CachedInSize
<1>1. Inv => CachedInSize
  BY DEF Inv
<1> QED
  BY <1>1, Invariance, PTL

\* The callbacks of the io.pcache settings leave no cache behind when both bits are off.
THEOREM NoCacheWhenOff == Spec => []OffIsClean
<1>1. Inv => OffIsClean
  BY DEF Inv
<1> QED
  BY <1>1, Invariance, PTL

\* What is cached fits the descriptors and the settings, for any number of descriptors, any size
\* and any block size.
THEOREM CachesAlwaysFit == Spec => []CachesFit
<1>1. Inv => CachesFit
  BY DEF Inv, CachesFit
<1> QED
  BY <1>1, Invariance, PTL

\* The state of the descriptor caches has its type, and each cached byte has its block.
THEOREM TypeCorrect == Spec => []TypeOK
<1>1. Inv => TypeOK
  BY DEF Inv
<1> QED
  BY <1>1, Invariance, PTL
-----------------------------------------------------------------------------
(* Loops.                                                                  *)

\* A set of numbers has a smallest one.
LEMMA Smallest ==
    ASSUME NEW T \in SUBSET Nat, T # {}
    PROVE  \E n \in T : \A m \in T : n <= m
    <1> DEFINE R == OpToRel(<, Nat)
    <1>1. IsWellFoundedOn(R, Nat)
        BY NatLessThanWellFounded
    <1>2. \A x, y \in Nat : y < x => <<y, x>> \in R
        BY DEF OpToRel
    <1> HIDE DEF R
    <1>3. PICK n \in T : \A y \in T : ~(<<y, n>> \in R)
        BY <1>1, WFMin
    <1>4. ASSUME NEW m \in T PROVE n <= m
        <2>1. n \in Nat /\ m \in Nat /\ ~(m < n)
            BY <1>2, <1>3
        <2> QED
            BY <2>1
    <1> QED
        BY <1>4

\* What holds of 0 and passes from each number to the next holds up to n.
LEMMA Induction ==
    ASSUME NEW n \in Nat, NEW S, 0 \in S, \A k \in 0 .. n - 1 : k \in S => k + 1 \in S
    PROVE  0 .. n \subseteq S
    <1> DEFINE T == {k \in 0 .. n : k \notin S}
    <1> SUFFICES ASSUME T # {} PROVE FALSE
        OBVIOUS
    <1>1. PICK k \in T : \A m \in T : k <= m
        <2>1. T \in SUBSET Nat
            OBVIOUS
        <2> HIDE DEF T
        <2> QED
            BY <2>1, Smallest
    <1>2. k \in 1 .. n /\ k - 1 \in 0 .. n - 1 /\ k - 1 \notin T
        BY <1>1
    <1>3. k - 1 \in S
        BY <1>2
    <1>4. k \in S
        BY <1>2, <1>3
    <1> QED
        BY <1>1, <1>4

\* The last element of a bounded set of numbers.
LEMMA Largest ==
    ASSUME NEW n \in Nat, NEW T \in SUBSET (0 .. n), T # {}
    PROVE  \E k \in T : \A m \in T : m <= k
    <1> DEFINE U == {n - k : k \in T}
    <1>1. U \in SUBSET Nat /\ U # {}
        <2>1. \A k \in T : n - k \in Nat
            OBVIOUS
        <2> QED
            BY <2>1
    <1>2. PICK u \in U : \A v \in U : u <= v
        <2> HIDE DEF U
        <2> QED
            BY <1>1, Smallest
    <1>3. PICK k \in T : u = n - k
        BY <1>2
    <1>4. ASSUME NEW m \in T PROVE m <= k
        <2>1. n - m \in U
            OBVIOUS
        <2>2. u <= n - m
            BY <2>1, <1>2
        <2> QED
            BY <2>2, <1>3
    <1> QED
        BY <1>4

\* A loop that computes each of n values in V from the one before it.
Loops(V, n, G) == \A k \in 1 .. n : \A x \in V : G[<<k, x>>] \in V

\* The values, from v on.
IsLoop(h, V, v, n, G) == h \in [0 .. n -> V] /\ h[0] = v /\ \A k \in 1 .. n : h[k] = G[<<k, h[k - 1]>>]

\* It has values.
LEMMA LoopExists ==
    ASSUME NEW V, NEW v \in V, NEW n \in Nat, NEW G, Loops(V, n, G)
    PROVE  \E h : IsLoop(h, V, v, n, G)
    <1> USE DEF Loops
    <1> DEFINE Good(m, h) == h \in [0 .. m -> V] /\ h[0] = v /\ \A k \in 1 .. m : h[k] = G[<<k, h[k - 1]>>]
               S == {m \in 0 .. n : \E h : Good(m, h)}
    <1>1. 0 \in S
        <2>1. Good(0, [k \in 0 .. 0 |-> v])
            OBVIOUS
        <2> HIDE DEF Good
        <2> QED
            BY <2>1
    <1>2. ASSUME NEW m \in 0 .. n - 1, m \in S PROVE m + 1 \in S
        <2>1. PICK h : Good(m, h)
            BY <1>2
        <2> DEFINE g == [k \in 0 .. m + 1 |-> IF k = m + 1 THEN G[<<m + 1, h[m]>>] ELSE h[k]]
        <2>2. G[<<m + 1, h[m]>>] \in V
            BY <2>1
        <2>3. \A k \in 0 .. m : g[k] = h[k] /\ g[k] \in V
            BY <2>1
        <2>4. g[m + 1] = G[<<m + 1, h[m]>>]
            OBVIOUS
        <2>5. g \in [0 .. m + 1 -> V]
            BY <2>1, <2>2
        <2> HIDE DEF g
        <2>6. g[0] = v
            BY <2>1, <2>3
        <2>7. ASSUME NEW k \in 1 .. m + 1 PROVE g[k] = G[<<k, g[k - 1]>>]
            <3>1. CASE k = m + 1
                BY <3>1, <2>3, <2>4
            <3>2. CASE k \in 1 .. m
                <4>1. g[k] = h[k] /\ g[k - 1] = h[k - 1]
                    BY <3>2, <2>3
                <4> QED
                    BY <4>1, <3>2, <2>1
            <3> QED
                BY <3>1, <3>2
        <2>8. Good(m + 1, g)
            BY <2>5, <2>6, <2>7
        <2> QED
            BY <2>8
    <1>3. n \in S
        <2> HIDE DEF S
        <2>1. 0 .. n \subseteq S
            BY <1>1, <1>2, Induction
        <2> QED
            BY <2>1
    <1> QED
        BY <1>3 DEF IsLoop
-----------------------------------------------------------------------------
(* The binary search.                                                      *)

\* What the search gives between two bounds when the smaller ones are the first p.
Clamp(p, i, h) == IF i >= h \/ p <= i THEN i ELSE IF p >= h THEN h ELSE p

\* rz_vector_lower_bound finds the only place below which all, and from which none, are smaller.
LEMMA LowerBoundIs ==
    ASSUME NEW n \in Nat, NEW p \in 0 .. n
    PROVE  LowerBound(n, 1 .. p) = p
    <1> DEFINE Is(f) == f = [b \in (0 .. n) \X (0 .. n) |->
                 IF b[1] >= b[2] THEN b[1]
                 ELSE LET m == b[1] + (b[2] - b[1]) \div 2 IN
                        IF m + 1 \in 1 .. p THEN f[<<m + 1, b[2]>>] ELSE f[<<b[1], m>>]]
               c == [b \in (0 .. n) \X (0 .. n) |-> Clamp(p, b[1], b[2])]
               f == CHOOSE f : Is(f)
    <1>1. LowerBound(n, 1 .. p) = f[<<0, n>>]
        BY DEF LowerBound
    <1>2. \A i, h \in 0 .. n : i < h => LET m == i + (h - i) \div 2 IN m \in 0 .. n /\ i <= m /\ m < h
        OBVIOUS
    <1>3. Is(c)
        <2>1. ASSUME NEW i \in 0 .. n, NEW h \in 0 .. n
              PROVE  Clamp(p, i, h) = IF i >= h THEN i
                 ELSE LET m == i + (h - i) \div 2 IN
                        IF m + 1 \in 1 .. p THEN c[<<m + 1, h>>] ELSE c[<<i, m>>]
            <3>1. CASE i >= h
                BY <3>1 DEF Clamp
            <3>2. CASE i < h
                <4> DEFINE m == i + (h - i) \div 2
                <4>1. m \in 0 .. n /\ i <= m /\ m < h
                    BY <1>2, <3>2
                <4> HIDE DEF m
                <4>2. c[<<m + 1, h>>] = Clamp(p, m + 1, h) /\ c[<<i, m>>] = Clamp(p, i, m)
                    BY <4>1
                <4>3. Clamp(p, i, h) = IF m + 1 \in 1 .. p THEN Clamp(p, m + 1, h) ELSE Clamp(p, i, m)
                    BY <4>1, <3>2 DEF Clamp
                <4> QED
                    BY <4>2, <4>3, <3>2 DEF m
            <3> QED
                BY <3>1, <3>2
        <2> QED
            BY <2>1
    <1>4. Is(f)
        <2> HIDE DEF Is, c
        <2> QED
            BY <1>3
    <1>5. \A i, h \in 0 .. n : f[<<i, h>>] = IF i >= h THEN i
                 ELSE LET m == i + (h - i) \div 2 IN
                        IF m + 1 \in 1 .. p THEN f[<<m + 1, h>>] ELSE f[<<i, m>>]
        <2> HIDE DEF f
        <2> QED
            BY <1>4
    <1> HIDE DEF Is, f
    <1> DEFINE Wrong == {d \in 0 .. n : \E i, h \in 0 .. n : d = h - i /\ i < h /\ f[<<i, h>>] # Clamp(p, i, h)}
    <1>9. ASSUME NEW i \in 0 .. n, NEW h \in 0 .. n, i < h, f[<<i, h>>] # Clamp(p, i, h)
          PROVE  h - i \in Wrong
        <2>1. h - i \in 0 .. n
            BY <1>9
        <2>2. \E x, y \in 0 .. n : h - i = y - x /\ x < y /\ f[<<x, y>>] # Clamp(p, x, y)
            BY <1>9, Zenon
        <2> QED
            BY <2>1, <2>2, Zenon
    <1>6. Wrong = {}
        <2> SUFFICES ASSUME Wrong # {} PROVE FALSE
            OBVIOUS
        <2>1. PICK d \in Wrong : \A e \in Wrong : d <= e
            <3>1. Wrong \in SUBSET Nat
                OBVIOUS
            <3> HIDE DEF Wrong
            <3> QED
                BY <3>1, Smallest
        <2>2. PICK i \in 0 .. n, h \in 0 .. n : d = h - i /\ i < h /\ f[<<i, h>>] # Clamp(p, i, h)
            BY <2>1
        <2> DEFINE m == i + (h - i) \div 2
        <2>3. m \in 0 .. n /\ i <= m /\ m < h /\ m + 1 \in 0 .. n
            BY <1>2, <2>2
        <2>4. f[<<i, h>>] = IF m + 1 \in 1 .. p THEN f[<<m + 1, h>>] ELSE f[<<i, m>>]
            BY <1>5, <2>2
        <2> HIDE DEF m
        <2>5. \A j, g \in 0 .. n : g - j < d => f[<<j, g>>] = Clamp(p, j, g)
            <3> SUFFICES ASSUME NEW j \in 0 .. n, NEW g \in 0 .. n, g - j < d, f[<<j, g>>] # Clamp(p, j, g) PROVE FALSE
                OBVIOUS
            <3>1. CASE j >= g
                BY <3>1, <1>5 DEF Clamp
            <3>2. CASE j < g
                <4>1. g - j \in Wrong
                    BY <3>2, <1>9
                <4>2. d <= g - j
                    BY <4>1, <2>1
                <4>3. d \in Int /\ g - j \in Int
                    BY <2>2
                <4> QED
                    BY <4>2, <4>3
            <3> QED
                BY <3>1, <3>2
        <2>6. f[<<m + 1, h>>] = Clamp(p, m + 1, h) /\ f[<<i, m>>] = Clamp(p, i, m)
            BY <2>2, <2>3, <2>5
        <2> QED
            BY <2>2, <2>3, <2>4, <2>6 DEF Clamp
    <1>7. CASE n = 0
        BY <1>7, <1>1, <1>5
    <1>8. CASE n > 0
        <2>1. f[<<0, n>>] = Clamp(p, 0, n)
            <3> HIDE DEF Wrong
            <3>1. 0 \in 0 .. n /\ n \in 0 .. n /\ 0 < n
                BY <1>8
            <3> QED
                BY <3>1, <1>6, <1>9
        <2> QED
            BY <2>1, <1>1, <1>8 DEF Clamp
    <1> QED
        BY <1>7, <1>8
-----------------------------------------------------------------------------
(* The parts.                                                              *)

Parts == [addr : Nat, size : Nat, user : Nat]

\* The end of an interval without the wrap, and its addresses.
Stop(p) == p.addr + p.size
Covers(p, a) == p.addr <= a /\ a < Stop(p)

\* An interval that ends up to L, and not at 0, or is the one from L to the last address.
Fit(p, L) ==
    \/ 1 <= Stop(p) /\ Stop(p) <= L
    \/ p.addr = L /\ Stop(p) = W

\* One part ends before the next begins.
InOrder(s) == \A i, j \in DOMAIN s : i < j => Stop(s[i]) <= s[j].addr

Tidy(s, L) == s \in Seq(Parts) /\ InOrder(s) /\ \A k \in DOMAIN s : Fit(s[k], L)

\* Address a belongs to user u.
Has(s, a, u) == \E k \in DOMAIN s : Covers(s[k], a) /\ s[k].user = u

\* Each part of s is a piece of one of t.
Pieces(s, t) == \A k \in DOMAIN s : \E j \in DOMAIN t :
    s[k].user = t[j].user /\ t[j].addr <= s[k].addr /\ Stop(s[k]) <= Stop(t[j])

\* The remainder is the one number below W that differs by a multiple of W.
LEMMA ModIs ==
    ASSUME NEW w \in Nat \ {0}
    PROVE  /\ \A x \in 0 .. w - 1 : x % w = x
           /\ w % w = 0
    OBVIOUS

\* rz_itv_end of an interval that does not go past the last address.
LEMMA EndIs ==
    ASSUME WAssumption, NEW L \in 0 .. W - 1, NEW p, p.addr \in Nat, p.size \in Nat, Fit(p, L)
    PROVE  End(p) = IF Stop(p) = W THEN 0 ELSE Stop(p)
    BY ModIs DEF WAssumption, Fit, End, Stop
\* A part of a skyline has an address, a size and a user.
LEMMA PartFacts ==
    ASSUME NEW p \in Parts
    PROVE  p.addr \in Nat /\ p.size \in Nat /\ p.user \in Nat /\ Stop(p) \in Nat
    BY DEF Parts, Stop

\* A part whose size changes keeps its address and its user.
LEMMA PartExcept ==
    ASSUME NEW p \in Parts, NEW z
    PROVE  [p EXCEPT !.size = z] = [addr |-> p.addr, size |-> z, user |-> p.user]
    <1>1. p = [addr |-> p.addr, size |-> p.size, user |-> p.user]
        BY DEF Parts
    <1> QED
        BY <1>1

\* A part is given by its three fields.
LEMMA PartIs ==
    ASSUME NEW y \in Nat, NEW z \in Nat, NEW u \in Nat
    PROVE  LET p == [addr |-> y, size |-> z, user |-> u]
           IN  p \in Parts /\ p.addr = y /\ p.size = z /\ p.user = u /\ Stop(p) = y + z
    BY DEF Parts, Stop

\* Two skylines side by side.
LEMMA Joined ==
    ASSUME NEW L, NEW s, NEW t, Tidy(s, L), Tidy(t, L),
           \A i \in DOMAIN s, j \in DOMAIN t : Stop(s[i]) <= t[j].addr
    PROVE  /\ Tidy(s \o t, L)
           /\ \A a, u : Has(s \o t, a, u) <=> Has(s, a, u) \/ Has(t, a, u)
           /\ \A r : Pieces(s, r) /\ Pieces(t, r) => Pieces(s \o t, r)
    <1> DEFINE j == s \o t
    <1>1. /\ s \in Seq(Parts) /\ t \in Seq(Parts) /\ j \in Seq(Parts)
          /\ DOMAIN s = 1 .. Len(s) /\ DOMAIN t = 1 .. Len(t) /\ Len(s) \in Nat /\ Len(t) \in Nat
          /\ DOMAIN j = 1 .. Len(s) + Len(t)
          /\ \A k \in 1 .. Len(s) : j[k] = s[k]
          /\ \A k \in Len(s) + 1 .. Len(s) + Len(t) : j[k] = t[k - Len(s)] /\ k - Len(s) \in 1 .. Len(t)
          /\ \A k \in 1 .. Len(t) : j[k + Len(s)] = t[k] /\ k + Len(s) \in DOMAIN j
        BY DEF Tidy
    <1>2. \A k \in DOMAIN j : k \in 1 .. Len(s) \/ k \in Len(s) + 1 .. Len(s) + Len(t)
        BY <1>1
    <1> HIDE DEF j
    <1>3. InOrder(j)
        <2> SUFFICES ASSUME NEW i \in DOMAIN j, NEW k \in DOMAIN j, i < k PROVE Stop(j[i]) <= j[k].addr
            BY DEF InOrder
        <2>1. CASE k \in 1 .. Len(s)
            <3>1. i \in 1 .. Len(s)
                BY <2>1, <1>1
            <3> QED
                BY <3>1, <2>1, <1>1 DEF Tidy, InOrder
        <2>2. CASE i \in 1 .. Len(s) /\ k \in Len(s) + 1 .. Len(s) + Len(t)
            BY <2>2, <1>1
        <2>3. CASE i \in Len(s) + 1 .. Len(s) + Len(t)
            <3>1. k \in Len(s) + 1 .. Len(s) + Len(t)
                BY <2>3, <1>1
            <3>2. i - Len(s) < k - Len(s) /\ i - Len(s) \in 1 .. Len(t) /\ k - Len(s) \in 1 .. Len(t)
                BY <3>1, <2>3, <1>1
            <3> QED
                BY <3>1, <3>2, <2>3, <1>1 DEF Tidy, InOrder
        <2> QED
            BY <2>1, <2>2, <2>3, <1>2
    <1>4. \A k \in DOMAIN j : Fit(j[k], L)
        BY <1>1, <1>2 DEF Tidy
    <1>5. Tidy(j, L)
        BY <1>1, <1>3, <1>4 DEF Tidy
    <1>6. ASSUME NEW a, NEW u PROVE Has(j, a, u) <=> Has(s, a, u) \/ Has(t, a, u)
        <2>1. ASSUME Has(j, a, u) PROVE Has(s, a, u) \/ Has(t, a, u)
            <3>1. PICK k \in DOMAIN j : Covers(j[k], a) /\ j[k].user = u
                BY <2>1 DEF Has
            <3>2. CASE k \in 1 .. Len(s)
                BY <3>1, <3>2, <1>1 DEF Has
            <3>3. CASE k \in Len(s) + 1 .. Len(s) + Len(t)
                <4>1. k - Len(s) \in DOMAIN t /\ j[k] = t[k - Len(s)]
                    BY <3>3, <1>1
                <4> QED
                    BY <3>1, <4>1 DEF Has
            <3> QED
                BY <3>2, <3>3, <1>1, <1>2
        <2>2. ASSUME Has(s, a, u) PROVE Has(j, a, u)
            BY <2>2, <1>1 DEF Has
        <2>3. ASSUME Has(t, a, u) PROVE Has(j, a, u)
            BY <2>3, <1>1 DEF Has
        <2> QED
            BY <2>1, <2>2, <2>3
    <1>7. ASSUME NEW r, Pieces(s, r), Pieces(t, r) PROVE Pieces(j, r)
        <2>1. \A k \in 1 .. Len(s) : \E i \in DOMAIN r :
                    j[k].user = r[i].user /\ r[i].addr <= j[k].addr /\ Stop(j[k]) <= Stop(r[i])
            BY <1>1, <1>7 DEF Pieces
        <2>2. \A k \in Len(s) + 1 .. Len(s) + Len(t) : \E i \in DOMAIN r :
                    j[k].user = r[i].user /\ r[i].addr <= j[k].addr /\ Stop(j[k]) <= Stop(r[i])
            <3> SUFFICES ASSUME NEW k \in Len(s) + 1 .. Len(s) + Len(t)
                         PROVE  \E i \in DOMAIN r :
                                  j[k].user = r[i].user /\ r[i].addr <= j[k].addr /\ Stop(j[k]) <= Stop(r[i])
                OBVIOUS
            <3>1. j[k] = t[k - Len(s)] /\ k - Len(s) \in DOMAIN t
                BY <1>1
            <3> QED
                BY <3>1, <1>7 DEF Pieces
        <2> QED
            BY <2>1, <2>2, <1>2 DEF Pieces
    <1> QED
        BY <1>5, <1>6, <1>7 DEF j

\* The parts in front of a new one at x, the last of them cut where it begins.
Front(sky, slot, x) ==
    IF slot > 0 /\ End(sky[slot]) > x
    THEN [SubSeq(sky, 1, slot) EXCEPT ![slot].size = (x - sky[slot].addr) % W]
    ELSE SubSeq(sky, 1, slot)

\* One of the first parts gives a to u.
Upto(sky, slot, a, u) == \E k \in 1 .. slot : Covers(sky[k], a) /\ sky[k].user = u

\* The parts before the slot, the last of them cut where the new one starts.
LEMMA BeforeFacts ==
    ASSUME WAssumption, NEW L \in 0 .. W - 1, NEW sky, Tidy(sky, L), NEW slot \in 0 .. Len(sky), NEW x \in 0 .. L,
           \A k \in 1 .. slot : sky[k].addr < x
    PROVE  /\ Tidy(Front(sky, slot, x), L) /\ \A k \in DOMAIN Front(sky, slot, x) : Stop(Front(sky, slot, x)[k]) <= x
           /\ \A a \in Nat : \A u : Has(Front(sky, slot, x), a, u) <=> a < x /\ Upto(sky, slot, a, u)
           /\ Pieces(Front(sky, slot, x), sky)
           /\ slot > 0 => End(sky[slot]) = Stop(sky[slot])
    <1> DEFINE A == Front(sky, slot, x)
               cut == slot > 0 /\ End(sky[slot]) > x
               short == [addr |-> sky[slot].addr, size |-> x - sky[slot].addr, user |-> sky[slot].user]
    <1>1. /\ sky \in Seq(Parts) /\ DOMAIN sky = 1 .. Len(sky) /\ Len(sky) \in Nat
          /\ \A k \in 1 .. slot : k \in DOMAIN sky /\ sky[k] \in Parts /\ Fit(sky[k], L)
        BY DEF Tidy
    <1>16. slot > 0 => /\ slot \in 1 .. slot /\ sky[slot] \in Parts /\ sky[slot].addr < x
                       /\ x - sky[slot].addr \in Nat
        <2>1. slot > 0 => slot \in 1 .. slot
            OBVIOUS
        <2>2. slot > 0 => sky[slot] \in Parts /\ sky[slot].addr < x
            BY <2>1, <1>1
        <2>3. slot > 0 => sky[slot].addr \in Nat
            BY <2>2, PartFacts
        <2> QED
            BY <2>1, <2>2, <2>3
    <1>2. \A k \in 1 .. slot : Stop(sky[k]) <= L /\ Stop(sky[k]) >= 1
        <2> SUFFICES ASSUME NEW k \in 1 .. slot PROVE Stop(sky[k]) <= L /\ Stop(sky[k]) >= 1
            OBVIOUS
        <2>1. sky[k] \in Parts /\ Fit(sky[k], L) /\ sky[k].addr < x
            BY <1>1
        <2>2. sky[k].addr \in Nat /\ sky[k].addr < L
            BY <2>1, PartFacts
        <2> QED
            BY <2>1, <2>2 DEF Fit
    <1>3. \A k \in 1 .. slot : End(sky[k]) = Stop(sky[k]) /\ Stop(sky[k]) \in Nat
        <2> SUFFICES ASSUME NEW k \in 1 .. slot PROVE End(sky[k]) = Stop(sky[k]) /\ Stop(sky[k]) \in Nat
            OBVIOUS
        <2>1. sky[k].addr \in Nat /\ sky[k].size \in Nat /\ Fit(sky[k], L) /\ Stop(sky[k]) # W
            BY <1>1, <1>2 DEF Parts, WAssumption
        <2> QED
            BY <2>1, EndIs DEF Stop
    <1>4. ASSUME slot > 0 PROVE (x - sky[slot].addr) % W = x - sky[slot].addr
        <2>1. x - sky[slot].addr \in 0 .. W - 1
            <3>1. sky[slot].addr \in Nat /\ sky[slot].addr < x
                BY <1>4, <1>16, PartFacts
            <3> QED
                BY <3>1 DEF WAssumption
        <2> QED
            BY <2>1, ModIs DEF WAssumption
    <1>5. A = [k \in 1 .. slot |-> IF cut /\ k = slot THEN short ELSE sky[k]]
        <2>1. SubSeq(sky, 1, slot) = [k \in 1 .. slot |-> sky[k]]
            BY <1>1
        <2>2. CASE cut
            <3>1. A = [SubSeq(sky, 1, slot) EXCEPT ![slot].size = x - sky[slot].addr]
                BY <2>2, <1>4 DEF Front
            <3>2. [sky[slot] EXCEPT !.size = x - sky[slot].addr] = short
                BY <2>2, <1>16, PartExcept
            <3> HIDE DEF short
            <3> QED
                BY <3>1, <3>2, <2>1, <2>2
        <2>3. CASE ~cut
            BY <2>1, <2>3 DEF Front
        <2> QED
            BY <2>2, <2>3
    <1> HIDE DEF A
    <1>6. /\ DOMAIN A = 1 .. slot /\ A \in Seq(Parts)
          /\ \A k \in 1 .. slot : A[k] \in Parts
        <2>1. slot > 0 => short \in Parts
            BY <1>16, PartFacts, PartIs
        <2> HIDE DEF short
        <2>2. A \in [1 .. slot -> Parts]
            BY <2>1, <1>5, <1>1
        <2> QED
            BY <2>2
    <1>7. \A k \in 1 .. slot : /\ A[k].addr = sky[k].addr /\ A[k].user = sky[k].user
                               /\ Stop(A[k]) = IF cut /\ k = slot THEN x ELSE Stop(sky[k])
        <2> SUFFICES ASSUME NEW k \in 1 .. slot
                     PROVE  /\ A[k].addr = sky[k].addr /\ A[k].user = sky[k].user
                            /\ Stop(A[k]) = IF cut /\ k = slot THEN x ELSE Stop(sky[k])
            OBVIOUS
        <2>1. CASE cut /\ k = slot
            <3>1. A[k] = short
                BY <2>1, <1>5
            <3> QED
                BY <3>1, <2>1, <1>1 DEF Stop, Parts
        <2>2. CASE ~(cut /\ k = slot)
            BY <2>2, <1>5
        <2> QED
            BY <2>1, <2>2
    <1>8. \A i, j \in 1 .. slot : i < j => Stop(sky[i]) <= sky[j].addr
        BY <1>1 DEF Tidy, InOrder
    <1>9. \A k \in 1 .. slot : Stop(A[k]) <= x /\ Stop(A[k]) <= Stop(sky[k]) /\ 1 <= Stop(A[k])
        <2> SUFFICES ASSUME NEW k \in 1 .. slot
                     PROVE  Stop(A[k]) <= x /\ Stop(A[k]) <= Stop(sky[k]) /\ 1 <= Stop(A[k])
            OBVIOUS
        <2>1. CASE k = slot
            <3>1. sky[k].addr \in Nat /\ sky[k].addr < x
                BY <1>1 DEF Parts
            <3> QED
                BY <3>1, <2>1, <1>7, <1>3, <1>2
        <2>2. CASE k < slot
            <3>1. Stop(sky[k]) <= sky[slot].addr /\ sky[slot].addr < x /\ sky[slot].addr \in Nat
                <4>1. slot > 0
                    BY <2>2
                <4>2. sky[slot].addr \in Nat
                    BY <4>1, <1>16, PartFacts
                <4> QED
                    BY <4>1, <4>2, <2>2, <1>8, <1>16
            <3> QED
                BY <3>1, <2>2, <1>7, <1>3, <1>2
        <2> QED
            BY <2>1, <2>2
    <1>10. \A k \in 1 .. slot : Stop(A[k]) \in Nat /\ A[k].addr \in Nat
        BY <1>6, SMTT(30) DEF Parts, Stop
    <1>11. InOrder(A)
        <2> SUFFICES ASSUME NEW i \in 1 .. slot, NEW j \in 1 .. slot, i < j PROVE Stop(A[i]) <= A[j].addr
            BY <1>6 DEF InOrder
        <2> QED
            BY <1>7, <1>8
    <1>12. Tidy(A, L)
        <2>1. \A k \in 1 .. slot : Fit(A[k], L)
            BY <1>9, <1>10 DEF Fit
        <2> QED
            BY <2>1, <1>6, <1>11 DEF Tidy
    <1>13. ASSUME NEW a \in Nat, NEW u
           PROVE  Has(A, a, u) <=> a < x /\ Upto(sky, slot, a, u)
        <2>1. ASSUME NEW k \in 1 .. slot PROVE Covers(A[k], a) <=> a < x /\ Covers(sky[k], a)
            <3>1. A[k].addr = sky[k].addr /\ Stop(A[k]) \in Nat /\ Stop(sky[k]) \in Nat /\ Stop(A[k]) <= x
                BY <1>7, <1>9, <1>10, <1>3
            <3>2. CASE cut /\ k = slot
                <4>1. Stop(A[k]) = x /\ x < Stop(sky[k])
                    BY <3>2, <1>7, <1>3
                <4> QED
                    BY <3>1, <4>1 DEF Covers
            <3>3. CASE ~(cut /\ k = slot)
                <4>1. Stop(A[k]) = Stop(sky[k])
                    BY <3>3, <1>7
                <4> QED
                    BY <3>1, <4>1 DEF Covers
            <3> QED
                BY <3>2, <3>3
        <2> QED
            BY <2>1, <1>6, <1>7 DEF Has, Upto
    <1>14. Pieces(A, sky)
        BY <1>6, <1>7, <1>9, <1>10, <1>1 DEF Pieces
    <1>15. slot > 0 => End(sky[slot]) = Stop(sky[slot])
        BY <1>3
    <1> HIDE DEF cut, short
    <1> QED
        BY <1>6, <1>9, <1>12, <1>13, <1>14, <1>15 DEF A
\* The elements of a concatenation.
LEMMA Concatenated ==
    ASSUME NEW S, NEW s \in Seq(S), NEW t \in Seq(S), NEW k \in DOMAIN (s \o t)
    PROVE  \/ k \in DOMAIN s /\ (s \o t)[k] = s[k]
           \/ k - Len(s) \in DOMAIN t /\ (s \o t)[k] = t[k - Len(s)]
    OBVIOUS

\* A sequence with another first element.
LEMMA OtherHead ==
    ASSUME NEW S, NEW s \in Seq(S), s # <<>>, NEW x
    PROVE  <<x>> \o Tail(s) = [j \in 1 .. Len(s) |-> IF j = 1 THEN x ELSE s[j]]
    <1> DEFINE t == Tail(s)
               n == Len(s)
    <1>1. t \in Seq(S) /\ Len(t) = n - 1 /\ \A j \in 1 .. Len(t) : t[j] = s[j + 1]
        BY HeadTailProperties
    <1>2. n \in Nat /\ n # 0
        BY EmptySeq
    <1> HIDE DEF t, n
    <1>3. Len(<<x>> \o t) = n /\ DOMAIN (<<x>> \o t) = 1 .. n
        BY <1>1, <1>2
    <1>4. \A j \in 1 .. n : (<<x>> \o t)[j] = IF j = 1 THEN x ELSE t[j - 1]
        BY <1>1, <1>2
    <1>5. \A j \in 1 .. n : j # 1 => t[j - 1] = s[j]
        <2> SUFFICES ASSUME NEW j \in 1 .. n, j # 1 PROVE t[j - 1] = s[j]
            OBVIOUS
        <2>1. j - 1 \in 1 .. Len(t) /\ (j - 1) + 1 = j
            BY <1>1, <1>2
        <2> QED
            BY <2>1, <1>1
    <1>6. <<x>> \o t = [j \in 1 .. n |-> (<<x>> \o t)[j]]
        BY <1>1, <1>3
    <1> QED
        BY <1>3, <1>4, <1>5, <1>6 DEF t, n

\* The parts behind a new one: those it includes are gone, the next is chopped.
LEMMA UncoveredFacts ==
    ASSUME WAssumption, NEW L \in 0 .. W - 1, NEW rest, Tidy(rest, L),
           NEW new \in Parts, Fit(new, L), \A k \in DOMAIN rest : new.addr <= rest[k].addr
    PROVE  /\ Tidy(Uncovered(new, rest), L)
           /\ \A k \in DOMAIN Uncovered(new, rest) : Stop(new) <= Uncovered(new, rest)[k].addr
           /\ \A a \in Nat : \A u : Has(Uncovered(new, rest), a, u) <=> a >= Stop(new) /\ Has(rest, a, u)
           /\ Pieces(Uncovered(new, rest), rest)
    <1> DEFINE Good(n) == /\ \A j \in 1 .. n : Include(new, rest[j])
                          /\ n < Len(rest) => ~Include(new, rest[n + 1])
               k == CHOOSE n \in 0 .. Len(rest) : Good(n)
               left == SubSeq(rest, k + 1, Len(rest))
               chop == left # <<>> /\ Overlap(new, Head(left))
               short == [addr |-> End(new), size |-> (Head(left).size - (End(new) - Head(left).addr)) % W,
                         user |-> Head(left).user]
               B == IF chop THEN <<short>> \o Tail(left) ELSE left
    <1>1. Uncovered(new, rest) = B
        BY DEF Uncovered
    <1>2. /\ rest \in Seq(Parts) /\ DOMAIN rest = 1 .. Len(rest) /\ Len(rest) \in Nat
          /\ \A j \in 1 .. Len(rest) : rest[j] \in Parts /\ Fit(rest[j], L) /\ new.addr <= rest[j].addr
        BY DEF Tidy
    <1>3. \E n \in 0 .. Len(rest) : Good(n)
        <2> DEFINE Out == {j \in 1 .. Len(rest) : ~Include(new, rest[j])}
        <2>1. CASE Out = {}
            <3>1. \A j \in 1 .. Len(rest) : Include(new, rest[j])
                BY <2>1
            <3> QED
                BY <3>1, <1>2
        <2>2. CASE Out # {}
            <3>1. Out \in SUBSET Nat
                OBVIOUS
            <3>2. PICK m \in Out : \A j \in Out : m <= j
                <4> HIDE DEF Out
                <4> QED
                    BY <2>2, <3>1, Smallest
            <3>3. m - 1 \in 0 .. Len(rest) /\ m \in 1 .. Len(rest) /\ ~Include(new, rest[m]) /\ (m - 1) + 1 = m
                BY <3>2
            <3>4. \A j \in 1 .. m - 1 : Include(new, rest[j])
                BY <3>2, <3>3
            <3>5. Good(m - 1)
                BY <3>3, <3>4
            <3> HIDE DEF Good
            <3> QED
                BY <3>3, <3>5
        <2> QED
            BY <2>1, <2>2
    <1>4. k \in 0 .. Len(rest) /\ Good(k)
        <2> HIDE DEF Good
        <2> QED
            BY <1>3
    <1> HIDE DEF k
    <1>5. /\ End(new) = IF Stop(new) = W THEN 0 ELSE Stop(new)
          /\ Stop(new) \in Nat /\ new.addr \in Nat /\ new.size \in Nat
        BY PartFacts, EndIs
    <1>6. \A j \in 1 .. Len(rest) : /\ End(rest[j]) = IF Stop(rest[j]) = W THEN 0 ELSE Stop(rest[j])
                                    /\ Stop(rest[j]) \in Nat /\ rest[j].addr \in Nat /\ rest[j].size \in Nat
                                    /\ rest[j].user \in Nat
                                    /\ Stop(rest[j]) = rest[j].addr + rest[j].size
        <2> SUFFICES ASSUME NEW j \in 1 .. Len(rest)
                     PROVE  /\ End(rest[j]) = IF Stop(rest[j]) = W THEN 0 ELSE Stop(rest[j])
                            /\ Stop(rest[j]) \in Nat /\ rest[j].addr \in Nat /\ rest[j].size \in Nat
                            /\ rest[j].user \in Nat
                            /\ Stop(rest[j]) = rest[j].addr + rest[j].size
            OBVIOUS
        <2>1. rest[j] \in Parts /\ Fit(rest[j], L)
            BY <1>2
        <2>2. Stop(rest[j]) \in Nat /\ rest[j].addr \in Nat /\ rest[j].size \in Nat /\ rest[j].user \in Nat
            BY <2>1, PartFacts
        <2>3. End(rest[j]) = IF Stop(rest[j]) = W THEN 0 ELSE Stop(rest[j])
            BY <2>1, <2>2, EndIs
        <2> QED
            BY <2>2, <2>3 DEF Stop
    <1>7. \A j \in 1 .. Len(rest) : Stop(rest[j]) <= W /\ Stop(rest[j]) >= 1 /\ Stop(new) <= W /\ Stop(new) >= 1
        BY <1>2, <1>5, <1>6 DEF Fit, WAssumption
    <1>8. \A j \in 1 .. Len(rest) : Include(new, rest[j]) <=> Stop(rest[j]) <= Stop(new)
        <2> SUFFICES ASSUME NEW j \in 1 .. Len(rest) PROVE Include(new, rest[j]) <=> Stop(rest[j]) <= Stop(new)
            OBVIOUS
        <2> QED
            BY <1>2, <1>5, <1>6, <1>7 DEF Include, WAssumption
    <1>9. \A j \in 1 .. k : Stop(rest[j]) <= Stop(new)
        BY <1>4, <1>8
    <1>10. \A i, j \in 1 .. Len(rest) : i < j => Stop(rest[i]) <= rest[j].addr
        BY <1>2 DEF Tidy, InOrder
    <1>11. k < Len(rest) => Stop(new) < Stop(rest[k + 1]) /\ Stop(new) # W
        <2> SUFFICES ASSUME k < Len(rest) PROVE Stop(new) < Stop(rest[k + 1]) /\ Stop(new) # W
            OBVIOUS
        <2>1. k + 1 \in 1 .. Len(rest) /\ ~Include(new, rest[k + 1])
            BY <1>4
        <2>2. ~(Stop(rest[k + 1]) <= Stop(new))
            BY <2>1, <1>8
        <2> QED
            BY <2>1, <2>2, <1>5, <1>6, <1>7
    <1>12. \A j \in k + 2 .. Len(rest) : Stop(new) < rest[j].addr
        <2> SUFFICES ASSUME NEW j \in k + 2 .. Len(rest) PROVE Stop(new) < rest[j].addr
            OBVIOUS
        <2>1. k + 1 \in 1 .. Len(rest) /\ j \in 1 .. Len(rest) /\ k + 1 < j /\ k < Len(rest)
            BY <1>4, <1>2
        <2>2. Stop(rest[k + 1]) <= rest[j].addr /\ Stop(new) < Stop(rest[k + 1])
            BY <2>1, <1>10, <1>11
        <2> QED
            BY <2>1, <2>2, <1>5, <1>6
    <1>13. left = [j \in 1 .. Len(rest) - k |-> rest[j + k]]
        BY <1>2, <1>4
    <1>29. Len(left) = Len(rest) - k /\ left \in Seq(Parts)
        <2>1. Len(rest) - k \in Nat /\ \A j \in 1 .. Len(rest) - k : j + k \in 1 .. Len(rest)
            BY <1>2, <1>4
        <2> HIDE DEF left
        <2>2. left \in [1 .. Len(rest) - k -> Parts]
            BY <2>1, <1>13, <1>2
        <2> QED
            BY <2>1, <2>2
    <1>14. left # <<>> <=> k < Len(rest)
        <2>1. Len(left) = Len(rest) - k /\ left \in Seq(Parts)
            BY <1>29
        <2>2. left # <<>> <=> Len(left) # 0
            <3> HIDE DEF left
            <3> QED
                BY <2>1, EmptySeq
        <2> HIDE DEF left
        <2> QED
            BY <2>1, <2>2, <1>2, <1>4
    <1>15. k < Len(rest) => Head(left) = rest[k + 1]
        BY <1>13, <1>4, <1>2
    <1>16. chop => /\ k < Len(rest) /\ rest[k + 1].addr < Stop(new)
                   /\ short = [addr |-> Stop(new), size |-> Stop(rest[k + 1]) - Stop(new), user |-> rest[k + 1].user]
        <2> SUFFICES ASSUME chop
                     PROVE  /\ k < Len(rest) /\ rest[k + 1].addr < Stop(new)
                            /\ short = [addr |-> Stop(new), size |-> Stop(rest[k + 1]) - Stop(new),
                                        user |-> rest[k + 1].user]
            OBVIOUS
        <2>1. k < Len(rest) /\ Head(left) = rest[k + 1] /\ k + 1 \in 1 .. Len(rest)
            BY <1>14, <1>15, <1>4
        <2>2. End(new) = Stop(new) /\ Stop(new) < Stop(rest[k + 1]) /\ Stop(new) # 0
            BY <2>1, <1>11, <1>5, <1>7
        <2>3. Overlap(new, rest[k + 1])
            BY <2>1
        <2>4. rest[k + 1].addr < Stop(new)
            BY <2>3, <2>2 DEF Overlap
        <2>5. /\ rest[k + 1].size - (End(new) - rest[k + 1].addr) = Stop(rest[k + 1]) - Stop(new)
              /\ Stop(rest[k + 1]) - Stop(new) \in 0 .. W - 1
            <3> DEFINE r == rest[k + 1]
            <3>1. /\ r.addr \in Nat /\ r.size \in Nat /\ Stop(r) = r.addr + r.size /\ Stop(r) \in Nat
                  /\ Stop(r) <= W /\ Stop(new) \in Nat /\ Stop(new) >= 1
                BY <2>1, <1>5, <1>6, <1>7
            <3> HIDE DEF r
            <3>2. r.size - (Stop(new) - r.addr) = Stop(r) - Stop(new)
                BY <3>1
            <3>3. Stop(r) - Stop(new) \in 0 .. W - 1
                BY <3>1, <2>2 DEF r, WAssumption
            <3> QED
                BY <3>2, <3>3, <2>2 DEF r
        <2>6. (rest[k + 1].size - (End(new) - rest[k + 1].addr)) % W = Stop(rest[k + 1]) - Stop(new)
            BY <2>5, ModIs DEF WAssumption
        <2> QED
            BY <2>1, <2>2, <2>4, <2>6
    <1>17. k < Len(rest) /\ ~chop => Stop(new) <= rest[k + 1].addr
        <2> SUFFICES ASSUME k < Len(rest), ~Overlap(new, rest[k + 1]) PROVE Stop(new) <= rest[k + 1].addr
            BY <1>14, <1>15
        <2>1. k + 1 \in 1 .. Len(rest)
            BY <1>4
        <2> QED
            BY <2>1, <1>2, <1>5, <1>6, <1>7, <1>11 DEF Overlap
    <1> DEFINE m == Len(rest) - k
    <1>18. m \in Nat /\ \A j \in 1 .. m : j + k \in 1 .. Len(rest) /\ j + k \in k + 1 .. Len(rest)
        BY <1>2, <1>4
    <1>19. B = [j \in 1 .. m |-> IF chop /\ j = 1 THEN short ELSE rest[j + k]]
        <2>1. CASE chop
            <3>1. left \in Seq(Parts) /\ Len(left) = m /\ left # <<>>
                BY <2>1, <1>29
            <3>2. <<short>> \o Tail(left) = [j \in 1 .. m |-> IF j = 1 THEN short ELSE left[j]]
                <4> HIDE DEF short, left, m
                <4> QED
                    BY <3>1, OtherHead
            <3>3. \A j \in 1 .. m : left[j] = rest[j + k]
                BY <1>13
            <3> HIDE DEF short, left, m, chop
            <3> QED
                BY <3>2, <3>3, <2>1
        <2>2. CASE ~chop
            BY <2>2, <1>13
        <2> QED
            BY <2>1, <2>2
    <1>20. chop => /\ short \in Parts /\ short.addr = Stop(new) /\ short.user = rest[k + 1].user
                   /\ Stop(short) = Stop(rest[k + 1]) /\ 1 \in 1 .. m /\ k + 1 \in 1 .. Len(rest)
        <2> SUFFICES ASSUME chop
                     PROVE  /\ short \in Parts /\ short.addr = Stop(new) /\ short.user = rest[k + 1].user
                            /\ Stop(short) = Stop(rest[k + 1]) /\ 1 \in 1 .. m /\ k + 1 \in 1 .. Len(rest)
            OBVIOUS
        <2>1. k + 1 \in 1 .. Len(rest) /\ 1 \in 1 .. m
            BY <1>16, <1>4, <1>2
        <2>2. /\ Stop(rest[k + 1]) - Stop(new) \in Nat /\ Stop(new) \in Nat /\ Stop(rest[k + 1]) \in Nat
              /\ rest[k + 1].user \in Nat
            <3>1. Stop(new) < Stop(rest[k + 1])
                BY <1>16, <1>11
            <3>2. Stop(new) \in Nat /\ Stop(rest[k + 1]) \in Nat /\ rest[k + 1].user \in Nat
                BY <2>1, <1>5, <1>6
            <3> QED
                BY <3>1, <3>2
        <2>3. /\ short \in Parts /\ short.addr = Stop(new) /\ short.user = rest[k + 1].user
              /\ Stop(short) = Stop(new) + (Stop(rest[k + 1]) - Stop(new))
            <3> HIDE DEF short
            <3> QED
                BY <2>2, <1>16, PartIs
        <2> HIDE DEF short, chop, left, m
        <2>4. Stop(new) + (Stop(rest[k + 1]) - Stop(new)) = Stop(rest[k + 1])
            BY <2>2
        <2> QED
            BY <2>1, <2>3, <2>4
    <1> HIDE DEF short, chop, left, m
    <1>21. DOMAIN B = 1 .. m /\ B \in Seq(Parts)
        <2>1. B \in [1 .. m -> Parts]
            <3> HIDE DEF B
            <3> QED
                BY <1>18, <1>19, <1>20, <1>2
        <2> HIDE DEF B
        <2> QED
            BY <2>1, <1>18
    <1>22. \A j \in 1 .. m : /\ B[j].user = rest[j + k].user /\ Stop(B[j]) = Stop(rest[j + k])
                             /\ B[j].addr = IF chop /\ j = 1 THEN Stop(new) ELSE rest[j + k].addr
                             /\ B[j] \in Parts
        <2> SUFFICES ASSUME NEW j \in 1 .. m
                     PROVE  /\ B[j].user = rest[j + k].user /\ Stop(B[j]) = Stop(rest[j + k])
                            /\ B[j].addr = IF chop /\ j = 1 THEN Stop(new) ELSE rest[j + k].addr
                            /\ B[j] \in Parts
            OBVIOUS
        <2> HIDE DEF B
        <2>1. CASE chop /\ j = 1
            <3>1. B[j] = short /\ 1 + k = k + 1
                BY <2>1, <1>19, <1>4
            <3> QED
                BY <3>1, <2>1, <1>20
        <2>2. CASE ~(chop /\ j = 1)
            <3>1. B[j] = rest[j + k]
                BY <2>2, <1>19
            <3> QED
                BY <3>1, <2>2, <1>18, <1>2
        <2> QED
            BY <2>1, <2>2
    <1> HIDE DEF B
    <1>23. \A j \in 1 .. m : Stop(new) <= B[j].addr /\ rest[j + k].addr <= B[j].addr
        <2> SUFFICES ASSUME NEW j \in 1 .. m
                     PROVE  Stop(new) <= B[j].addr /\ rest[j + k].addr <= B[j].addr
            OBVIOUS
        <2>1. CASE j = 1
            <3>1. k < Len(rest) /\ j + k = k + 1 /\ k + 1 \in 1 .. Len(rest)
                BY <2>1, <1>18, <1>4
            <3> QED
                BY <3>1, <2>1, <1>16, <1>17, <1>22, <1>5, <1>6
        <2>2. CASE j > 1
            <3>1. j + k \in k + 2 .. Len(rest) /\ j + k \in 1 .. Len(rest)
                BY <2>2, <1>18, <1>4
            <3> QED
                <4>1. B[j].addr = rest[j + k].addr
                    BY <2>2, <1>22
                <4>2. Stop(new) <= rest[j + k].addr /\ rest[j + k].addr \in Int
                    BY <3>1, <1>12, <1>5, <1>6
                <4> QED
                    BY <4>1, <4>2
        <2> QED
            BY <2>1, <2>2
    <1>24. InOrder(B)
        <2> SUFFICES ASSUME NEW i \in 1 .. m, NEW j \in 1 .. m, i < j PROVE Stop(B[i]) <= B[j].addr
            BY <1>21 DEF InOrder
        <2>1. i + k < j + k /\ i + k \in 1 .. Len(rest) /\ j + k \in 1 .. Len(rest) /\ j # 1
            BY <1>18, <1>4
        <2> QED
            BY <2>1, <1>10, <1>22
    <1>25. \A j \in 1 .. m : Fit(B[j], L)
        <2> SUFFICES ASSUME NEW j \in 1 .. m PROVE Fit(B[j], L)
            OBVIOUS
        <2>1. j + k \in 1 .. Len(rest) /\ Fit(rest[j + k], L)
            BY <1>18, <1>2
        <2>2. CASE chop /\ j = 1
            <3>1. /\ rest[k + 1].addr < Stop(new) /\ Stop(new) # W /\ Stop(new) <= L /\ j + k = k + 1
                  /\ rest[k + 1].addr \in Nat
                BY <2>2, <1>16, <1>11, <1>4, <1>20, <1>6 DEF Fit
            <3> QED
                BY <3>1, <2>1, <1>22, <1>5 DEF Fit
        <2>3. CASE ~(chop /\ j = 1)
            BY <2>1, <2>3, <1>22 DEF Fit
        <2> QED
            BY <2>2, <2>3
    <1>26. Tidy(B, L)
        BY <1>21, <1>24, <1>25 DEF Tidy
    <1>27. ASSUME NEW a \in Nat, NEW u
           PROVE  Has(B, a, u) <=> a >= Stop(new) /\ Has(rest, a, u)
        <2>1. ASSUME NEW j \in 1 .. m PROVE Covers(B[j], a) <=> a >= Stop(new) /\ Covers(rest[j + k], a)
            <3>1. /\ j + k \in 1 .. Len(rest) /\ Stop(rest[j + k]) \in Nat /\ rest[j + k].addr \in Nat
                  /\ B[j].addr \in Nat
                BY <1>18, <1>6, <1>22, PartFacts
            <3>2. CASE chop /\ j = 1
                <4>1. rest[j + k].addr < Stop(new) /\ B[j].addr = Stop(new) /\ Stop(B[j]) = Stop(rest[j + k])
                    <5>1. j + k = k + 1
                        BY <3>2, <1>4
                    <5> QED
                        BY <5>1, <3>2, <1>16, <1>22
                <4> QED
                    BY <4>1, <3>1, <1>5 DEF Covers
            <3>3. CASE ~(chop /\ j = 1)
                <4>1. B[j].addr = rest[j + k].addr /\ Stop(B[j]) = Stop(rest[j + k]) /\ Stop(new) <= B[j].addr
                    BY <3>3, <1>22, <1>23
                <4> QED
                    BY <4>1, <3>1, <1>5 DEF Covers
            <3> QED
                BY <3>2, <3>3
        <2>2. ASSUME Has(B, a, u) PROVE a >= Stop(new) /\ Has(rest, a, u)
            <3>1. PICK j \in 1 .. m : Covers(B[j], a) /\ B[j].user = u
                BY <2>2, <1>21 DEF Has
            <3>2. j + k \in DOMAIN rest /\ rest[j + k].user = u
                BY <3>1, <1>18, <1>22, <1>2
            <3> QED
                BY <3>1, <3>2, <2>1 DEF Has
        <2>3. ASSUME a >= Stop(new), Has(rest, a, u) PROVE Has(B, a, u)
            <3>1. PICK i \in 1 .. Len(rest) : Covers(rest[i], a) /\ rest[i].user = u
                BY <2>3, <1>2 DEF Has
            <3>2. ~(i \in 1 .. k)
                BY <3>1, <2>3, <1>9, <1>5, <1>6 DEF Covers
            <3>3. i - k \in 1 .. m /\ (i - k) + k = i
                BY <3>2, <1>4, <1>2 DEF m
            <3>4. Covers(B[i - k], a) /\ B[i - k].user = u
                BY <3>1, <3>3, <2>1, <2>3, <1>22
            <3> QED
                BY <3>3, <3>4, <1>21 DEF Has
        <2> QED
            BY <2>2, <2>3
    <1>28. Pieces(B, rest)
        <2> SUFFICES ASSUME NEW j \in 1 .. m
                     PROVE  \E i \in DOMAIN rest : /\ B[j].user = rest[i].user
                                                   /\ rest[i].addr <= B[j].addr /\ Stop(B[j]) <= Stop(rest[i])
            BY <1>21 DEF Pieces
        <2>1. j + k \in DOMAIN rest /\ Stop(rest[j + k]) \in Nat
            BY <1>18, <1>2, <1>6
        <2>2. B[j].user = rest[j + k].user /\ rest[j + k].addr <= B[j].addr /\ Stop(B[j]) <= Stop(rest[j + k])
            BY <2>1, <1>22, <1>23
        <2> QED
            BY <2>1, <2>2
    <1> QED
        BY <1>1, <1>21, <1>23, <1>26, <1>27, <1>28
\* A set of numbers with each number below one of its own is an interval from 1.
LEMMA Prefix ==
    ASSUME NEW n \in Nat, NEW S \in SUBSET (1 .. n), \A i, j \in 1 .. n : i < j /\ j \in S => i \in S
    PROVE  \E p \in 0 .. n : S = 1 .. p
    <1>1. CASE S = {}
        <2>1. S = 1 .. 0
            BY <1>1
        <2> QED
            BY <2>1
    <1>2. CASE S # {}
        <2>1. S \in SUBSET (0 .. n)
            OBVIOUS
        <2>2. PICK p \in S : \A m \in S : m <= p
            BY <1>2, <2>1, Largest
        <2>3. p \in 1 .. n
            BY <2>2
        <2>4. S = 1 .. p
            <3>1. ASSUME NEW k \in S PROVE k \in 1 .. p
                BY <2>2, <2>3
            <3>2. ASSUME NEW k \in 1 .. p PROVE k \in S
                <4>1. k \in 1 .. n /\ p \in 1 .. n /\ (k < p \/ k = p)
                    BY <2>3
                <4> QED
                    BY <4>1, <2>2
            <3> QED
                BY <3>1, <3>2
        <2> QED
            BY <2>3, <2>4
    <1> QED
        BY <1>1, <1>2

\* A skyline of one part.
LEMMA OnePart ==
    ASSUME NEW L, NEW p \in Parts, Fit(p, L)
    PROVE  /\ Tidy(<<p>>, L) /\ DOMAIN <<p>> = {1} /\ <<p>>[1] = p
           /\ \A a, u : Has(<<p>>, a, u) <=> Covers(p, a) /\ p.user = u
    <1> DEFINE s == <<p>>
    <1>1. s \in Seq(Parts) /\ DOMAIN s = {1} /\ s[1] = p
        OBVIOUS
    <1> HIDE DEF s
    <1> QED
        BY <1>1 DEF Tidy, InOrder, Has, s

\* The last parts of a skyline.
LEMMA RestFacts ==
    ASSUME NEW L, NEW sky, Tidy(sky, L), NEW slot \in 0 .. Len(sky)
    PROVE  LET rest == SubSeq(sky, slot + 1, Len(sky))
           IN  /\ Tidy(rest, L) /\ Pieces(rest, sky)
               /\ \A k \in DOMAIN rest : k + slot \in slot + 1 .. Len(sky) /\ rest[k] = sky[k + slot]
               /\ \A a, u : Has(sky, a, u) <=> Upto(sky, slot, a, u) \/ Has(rest, a, u)
    <1> DEFINE rest == SubSeq(sky, slot + 1, Len(sky))
               n == Len(sky) - slot
    <1>1. /\ sky \in Seq(Parts) /\ DOMAIN sky = 1 .. Len(sky) /\ Len(sky) \in Nat
          /\ \A j \in 1 .. Len(sky) : sky[j] \in Parts /\ Fit(sky[j], L)
          /\ \A i, j \in 1 .. Len(sky) : i < j => Stop(sky[i]) <= sky[j].addr
        BY DEF Tidy, InOrder
    <1>2. n \in Nat /\ \A j \in 1 .. n : j + slot \in 1 .. Len(sky) /\ j + slot \in slot + 1 .. Len(sky)
        BY <1>1
    <1>3. rest = [j \in 1 .. n |-> sky[j + slot]]
        BY <1>1
    <1> HIDE DEF rest
    <1>4. rest \in Seq(Parts) /\ DOMAIN rest = 1 .. n
        <2>1. rest \in [1 .. n -> Parts]
            BY <1>1, <1>2, <1>3
        <2> QED
            BY <2>1, <1>2
    <1>5. \A k \in 1 .. n : rest[k] = sky[k + slot]
        BY <1>3
    <1>6. InOrder(rest)
        <2> SUFFICES ASSUME NEW i \in 1 .. n, NEW j \in 1 .. n, i < j PROVE Stop(rest[i]) <= rest[j].addr
            BY <1>4 DEF InOrder
        <2>1. i + slot \in 1 .. Len(sky) /\ j + slot \in 1 .. Len(sky) /\ i + slot < j + slot
            BY <1>2
        <2> QED
            BY <2>1, <1>1, <1>5
    <1>7. Tidy(rest, L)
        <2>1. \A k \in 1 .. n : Fit(rest[k], L)
            BY <1>1, <1>2, <1>5
        <2> QED
            BY <2>1, <1>4, <1>6 DEF Tidy
    <1>8. Pieces(rest, sky)
        <2> SUFFICES ASSUME NEW k \in 1 .. n
                     PROVE  \E j \in DOMAIN sky : /\ rest[k].user = sky[j].user
                                                  /\ sky[j].addr <= rest[k].addr /\ Stop(rest[k]) <= Stop(sky[j])
            BY <1>4 DEF Pieces
        <2>1. k + slot \in DOMAIN sky /\ rest[k] = sky[k + slot] /\ sky[k + slot] \in Parts
            BY <1>1, <1>2, <1>5
        <2>2. sky[k + slot].addr \in Nat /\ Stop(sky[k + slot]) \in Nat
            BY <2>1, PartFacts
        <2> QED
            BY <2>1, <2>2
    <1>9. ASSUME NEW a, NEW u PROVE Has(sky, a, u) <=> Upto(sky, slot, a, u) \/ Has(rest, a, u)
        <2>1. ASSUME Has(sky, a, u) PROVE Upto(sky, slot, a, u) \/ Has(rest, a, u)
            <3>1. PICK k \in 1 .. Len(sky) : Covers(sky[k], a) /\ sky[k].user = u
                BY <2>1, <1>1 DEF Has
            <3>2. CASE k <= slot
                BY <3>1, <3>2 DEF Upto
            <3>3. CASE k > slot
                <4>1. k - slot \in 1 .. n /\ (k - slot) + slot = k
                    BY <3>3
                <4>2. rest[k - slot] = sky[k]
                    BY <4>1, <1>5
                <4> QED
                    BY <4>1, <4>2, <3>1, <1>4 DEF Has
            <3> QED
                BY <3>2, <3>3
        <2>2. ASSUME Upto(sky, slot, a, u) PROVE Has(sky, a, u)
            BY <2>2, <1>1 DEF Upto, Has
        <2>3. ASSUME Has(rest, a, u) PROVE Has(sky, a, u)
            <3>1. PICK k \in 1 .. n : Covers(rest[k], a) /\ rest[k].user = u
                BY <2>3, <1>4 DEF Has
            <3>2. k + slot \in DOMAIN sky /\ rest[k] = sky[k + slot]
                BY <1>1, <1>2, <1>5
            <3> QED
                BY <3>1, <3>2 DEF Has
        <2> QED
            BY <2>1, <2>2, <2>3
    <1> QED
        BY <1>2, <1>4, <1>5, <1>7, <1>8, <1>9 DEF rest

\* A piece of a piece is one.
LEMMA PiecesOf ==
    ASSUME NEW s, NEW t, NEW r, Pieces(s, t), Pieces(t, r),
           s \in Seq(Parts), t \in Seq(Parts), r \in Seq(Parts)
    PROVE  Pieces(s, r)
    <1> SUFFICES ASSUME NEW k \in DOMAIN s
                 PROVE  \E i \in DOMAIN r : s[k].user = r[i].user /\ r[i].addr <= s[k].addr /\ Stop(s[k]) <= Stop(r[i])
        BY DEF Pieces
    <1>1. PICK j \in DOMAIN t : s[k].user = t[j].user /\ t[j].addr <= s[k].addr /\ Stop(s[k]) <= Stop(t[j])
        BY DEF Pieces
    <1>2. PICK i \in DOMAIN r : t[j].user = r[i].user /\ r[i].addr <= t[j].addr /\ Stop(t[j]) <= Stop(r[i])
        BY DEF Pieces
    <1>3. s[k] \in Parts /\ t[j] \in Parts /\ r[i] \in Parts
        OBVIOUS
    <1>4. /\ s[k].addr \in Nat /\ t[j].addr \in Nat /\ r[i].addr \in Nat
          /\ Stop(s[k]) \in Nat /\ Stop(t[j]) \in Nat /\ Stop(r[i]) \in Nat
        BY <1>3, PartFacts
    <1> QED
        BY <1>1, <1>2, <1>4, SMTT(30)

\* rz_skyline_add: the new part is on top of what was there.
LEMMA SkylineAddFacts ==
    ASSUME WAssumption, NEW L \in 0 .. W - 1, NEW sky, Tidy(sky, L),
           NEW itv, NEW user \in Nat, itv.addr \in Nat, itv.size \in Nat, Fit(itv, L)
    PROVE  /\ Tidy(SkylineAdd(sky, itv, user), L)
           /\ \A a \in Nat : \A u : Has(SkylineAdd(sky, itv, user), a, u) <=>
                                 IF Covers(itv, a) THEN u = user ELSE Has(sky, a, u)
           /\ \A k \in DOMAIN SkylineAdd(sky, itv, user) :
                LET p == SkylineAdd(sky, itv, user)[k]
                IN  \/ p.user = user /\ p.addr = itv.addr /\ p.size = itv.size
                    \/ \E j \in DOMAIN sky : /\ p.user = sky[j].user /\ sky[j].addr <= p.addr
                                             /\ Stop(p) <= Stop(sky[j])
    <1> DEFINE new == [addr |-> itv.addr, size |-> itv.size, user |-> user]
               slot == LowerBound(Len(sky), {j \in DOMAIN sky : new.addr > sky[j].addr})
               prev == sky[slot]
               cut == slot > 0 /\ End(prev) > new.addr
               inside == cut /\ End(prev) > End(new)
               rest == SubSeq(sky, slot + 1, Len(sky))
               tail == [addr |-> End(new), size |-> (End(prev) - End(new)) % W, user |-> prev.user]
               A == Front(sky, slot, new.addr)
               B == IF inside THEN <<tail>> \o rest ELSE Uncovered(new, rest)
    <1>1. SkylineAdd(sky, itv, user) = A \o <<new>> \o B
        BY DEF SkylineAdd, Front
    <1>2. /\ sky \in Seq(Parts) /\ DOMAIN sky = 1 .. Len(sky) /\ Len(sky) \in Nat
          /\ \A j \in 1 .. Len(sky) : sky[j] \in Parts /\ Fit(sky[j], L)
          /\ \A i, j \in 1 .. Len(sky) : i < j => Stop(sky[i]) <= sky[j].addr
        BY DEF Tidy, InOrder
    <1>3. \A j \in 1 .. Len(sky) : sky[j].addr \in Nat /\ Stop(sky[j]) \in Nat /\ sky[j].addr <= Stop(sky[j])
                                  /\ sky[j].user \in Nat
        BY <1>2, SMTT(40) DEF Parts, Stop
    <1>4. /\ new \in Parts /\ new.addr = itv.addr /\ new.size = itv.size /\ new.user = user /\ Stop(new) = Stop(itv)
          /\ Stop(new) \in Nat /\ new.addr <= Stop(new) /\ Fit(new, L) /\ new.addr <= L
        BY PartIs DEF Stop, Fit
    <1> HIDE DEF new
    <1>5. /\ slot \in 0 .. Len(sky) /\ \A k \in 1 .. slot : sky[k].addr < new.addr
          /\ \A k \in slot + 1 .. Len(sky) : new.addr <= sky[k].addr
        <2> DEFINE S == {j \in DOMAIN sky : new.addr > sky[j].addr}
        <2>1. S \in SUBSET (1 .. Len(sky)) /\ \A i, j \in 1 .. Len(sky) : i < j /\ j \in S => i \in S
            <3> SUFFICES ASSUME NEW i \in 1 .. Len(sky), NEW j \in 1 .. Len(sky), i < j, j \in S PROVE i \in S
                BY <1>2
            <3> QED
                BY <1>2, <1>3, <1>4
        <2>2. PICK p \in 0 .. Len(sky) : S = 1 .. p
            <3> HIDE DEF S
            <3> QED
                BY <2>1, <1>2, Prefix
        <2>3. slot = p
            BY <2>2, <1>2, LowerBoundIs
        <2>4. \A k \in 1 .. p : k \in S
            BY <2>2
        <2>5. \A k \in p + 1 .. Len(sky) : k \notin S /\ k \in 1 .. Len(sky)
            BY <2>2
        <2> HIDE DEF slot
        <2> QED
            BY <2>3, <2>4, <2>5, <1>2, <1>3, <1>4
    <1> HIDE DEF slot
    <1>6. /\ Tidy(A, L) /\ \A k \in DOMAIN A : Stop(A[k]) <= new.addr
          /\ \A a \in Nat : \A u : Has(A, a, u) <=> a < new.addr /\ Upto(sky, slot, a, u)
          /\ Pieces(A, sky)
          /\ slot > 0 => End(prev) = Stop(prev)
        <2>1. new.addr \in 0 .. L
            BY <1>4
        <2> QED
            BY <2>1, <1>5, BeforeFacts
    <1>7. /\ Tidy(rest, L) /\ Pieces(rest, sky)
          /\ \A k \in DOMAIN rest : k + slot \in slot + 1 .. Len(sky) /\ rest[k] = sky[k + slot]
          /\ \A a, u : Has(sky, a, u) <=> Upto(sky, slot, a, u) \/ Has(rest, a, u)
        BY <1>5, RestFacts
    <1>8. \A k \in DOMAIN rest : new.addr <= rest[k].addr /\ rest[k] \in Parts
        BY <1>5, <1>7 DEF Tidy
    <1>9. End(new) = IF Stop(new) = W THEN 0 ELSE Stop(new)
        BY <1>4, EndIs, PartFacts
    <1> HIDE DEF rest, A
    <1>10. slot > 0 => /\ prev \in Parts /\ Fit(prev, L) /\ prev.addr < new.addr /\ Stop(prev) <= L
                       /\ slot \in 1 .. Len(sky) /\ prev.addr \in Nat /\ Stop(prev) \in Nat /\ prev.user \in Nat
        <2> SUFFICES ASSUME slot > 0
                     PROVE  /\ prev \in Parts /\ Fit(prev, L) /\ prev.addr < new.addr /\ Stop(prev) <= L
                            /\ slot \in 1 .. Len(sky) /\ prev.addr \in Nat /\ Stop(prev) \in Nat /\ prev.user \in Nat
            OBVIOUS
        <2>1. slot \in 1 .. Len(sky) /\ slot \in 1 .. slot
            BY <1>5
        <2>2. prev \in Parts /\ Fit(prev, L) /\ prev.addr < new.addr
            BY <2>1, <1>2, <1>5
        <2>3. prev.addr \in Nat /\ Stop(prev) \in Nat /\ prev.user \in Nat
            BY <2>2, PartFacts
        <2>4. Stop(prev) <= L
            BY <2>2, <2>3, <1>4 DEF Fit
        <2> QED
            BY <2>1, <2>2, <2>3, <2>4
    <1> HIDE DEF prev
    <1>11. \A k \in 1 .. slot : k # slot => Stop(sky[k]) < new.addr
        <2> SUFFICES ASSUME NEW k \in 1 .. slot, k # slot PROVE Stop(sky[k]) < new.addr
            OBVIOUS
        <2>1. k \in 1 .. Len(sky) /\ slot \in 1 .. Len(sky) /\ k < slot /\ slot > 0
            BY <1>5
        <2>2. Stop(sky[k]) <= prev.addr /\ prev.addr < new.addr
            BY <2>1, <1>2, <1>10 DEF prev
        <2> QED
            BY <2>1, <2>2, <1>3, <1>4, <1>10, PartFacts
    <1>12. /\ Tidy(B, L) /\ \A k \in DOMAIN B : Stop(new) <= B[k].addr
           /\ \A a \in Nat : \A u : Has(B, a, u) <=> a >= Stop(new) /\ Has(sky, a, u)
           /\ Pieces(B, sky)
        <2>1. CASE inside
            <3> DEFINE T == <<tail>>
            <3>1. /\ slot > 0 /\ End(prev) = Stop(prev) /\ Stop(prev) > new.addr /\ Stop(prev) > End(new)
                BY <2>1, <1>6 DEF prev
            <3>2. Stop(new) # W
                BY <3>1, <1>4, <1>10 DEF Fit
            <3>3. End(new) = Stop(new)
                BY <3>2, <1>9
            <3>4. (Stop(prev) - Stop(new)) % W = Stop(prev) - Stop(new) /\ Stop(prev) - Stop(new) \in Nat
                <4>1. Stop(prev) - Stop(new) \in 0 .. W - 1
                    BY <3>1, <3>3, <1>10, <1>4 DEF WAssumption
                <4> QED
                    BY <4>1, ModIs DEF WAssumption
            <3>5. tail = [addr |-> Stop(new), size |-> Stop(prev) - Stop(new), user |-> prev.user]
                BY <3>1, <3>3, <3>4
            <3> HIDE DEF tail
            <3>6. /\ tail \in Parts /\ tail.addr = Stop(new) /\ tail.user = prev.user
                  /\ Stop(tail) = Stop(prev)
                <4>1. /\ tail \in Parts /\ tail.addr = Stop(new) /\ tail.user = prev.user
                      /\ Stop(tail) = Stop(new) + (Stop(prev) - Stop(new))
                    BY <3>1, <3>4, <3>5, <1>4, <1>10, PartIs
                <4> QED
                    BY <4>1, <3>1, <1>4, <1>10
            <3>7. Fit(tail, L)
                BY <3>1, <3>6, <1>10 DEF Fit
            <3>8. /\ Tidy(T, L) /\ DOMAIN T = {1} /\ T[1] = tail
                  /\ \A a, u : Has(T, a, u) <=> Covers(tail, a) /\ tail.user = u
                BY <3>6, <3>7, OnePart
            <3> HIDE DEF T
            <3>9. \A k \in DOMAIN rest : Stop(prev) <= rest[k].addr
                <4> SUFFICES ASSUME NEW k \in DOMAIN rest PROVE Stop(prev) <= rest[k].addr
                    OBVIOUS
                <4>1. k + slot \in 1 .. Len(sky) /\ slot \in 1 .. Len(sky) /\ slot < k + slot /\ rest[k] = sky[k + slot]
                    BY <1>7, <1>10, <3>1
                <4> QED
                    BY <4>1, <1>2 DEF prev
            <3>10. Pieces(T, sky)
                <4>1. /\ slot \in DOMAIN sky /\ tail.user = sky[slot].user
                      /\ sky[slot].addr <= tail.addr /\ Stop(tail) <= Stop(sky[slot])
                    BY <3>1, <3>6, <1>2, <1>4, <1>10, PartFacts DEF prev
                <4> QED
                    BY <4>1, <3>8 DEF Pieces
            <3>11. /\ Tidy(T \o rest, L) /\ \A a, u : Has(T \o rest, a, u) <=> Has(T, a, u) \/ Has(rest, a, u)
                   /\ Pieces(T \o rest, sky)
                BY <3>6, <3>8, <3>9, <3>10, <1>7, Joined
            <3>12. ASSUME NEW k \in DOMAIN (T \o rest) PROVE Stop(new) <= (T \o rest)[k].addr
                <4>1. T \in Seq(Parts) /\ Len(T) = 1 /\ rest \in Seq(Parts)
                    BY <3>8, <1>7 DEF Tidy, T
                <4>2. (T \o rest)[k] = tail \/ \E j \in DOMAIN rest : (T \o rest)[k] = rest[j]
                    BY <4>1, <3>8, Concatenated
                <4>3. CASE (T \o rest)[k] = tail
                    BY <4>3, <3>6, <1>4
                <4>4. ASSUME NEW j \in DOMAIN rest, (T \o rest)[k] = rest[j] PROVE Stop(new) <= (T \o rest)[k].addr
                    <5>1. Stop(prev) <= rest[j].addr /\ rest[j].addr \in Nat
                        BY <3>9, <1>8, PartFacts
                    <5> QED
                        BY <5>1, <4>4, <3>1, <3>3, <1>4, <1>10
                <4> QED
                    BY <4>2, <4>3, <4>4
            <3>13. ASSUME NEW a \in Nat, NEW u
                   PROVE  Has(T \o rest, a, u) <=> a >= Stop(new) /\ Has(sky, a, u)
                <4>1. Has(T, a, u) <=> a >= Stop(new) /\ a < Stop(prev) /\ prev.user = u
                    BY <3>6, <3>8, <1>4 DEF Covers
                <4>2. Has(sky, a, u) <=> Upto(sky, slot, a, u) \/ Has(rest, a, u)
                    BY <1>7
                <4>3. Has(rest, a, u) => a >= Stop(new)
                    <5> SUFFICES ASSUME NEW k \in DOMAIN rest, Covers(rest[k], a) PROVE a >= Stop(new)
                        BY DEF Has
                    <5>1. Stop(prev) <= rest[k].addr /\ rest[k].addr \in Nat
                        BY <3>9, <1>8, PartFacts
                    <5> QED
                        BY <5>1, <3>1, <3>3, <1>4, <1>10 DEF Covers
                <4>4. a >= Stop(new) => (Upto(sky, slot, a, u) <=> a < Stop(prev) /\ prev.user = u)
                    <5> SUFFICES ASSUME a >= Stop(new)
                                 PROVE  Upto(sky, slot, a, u) <=> a < Stop(prev) /\ prev.user = u
                        OBVIOUS
                    <5>1. Covers(prev, a) <=> a < Stop(prev)
                        BY <3>1, <1>4, <1>10, PartFacts DEF Covers
                    <5>2. \A k \in 1 .. slot : k # slot => ~Covers(sky[k], a)
                        <6> SUFFICES ASSUME NEW k \in 1 .. slot, k # slot PROVE ~Covers(sky[k], a)
                            OBVIOUS
                        <6>1. Stop(sky[k]) < new.addr /\ k \in 1 .. Len(sky)
                            BY <1>11, <1>5
                        <6> QED
                            BY <6>1, <1>3, <1>4, PartFacts DEF Covers
                    <5>3. slot \in 1 .. slot
                        BY <3>1, <1>5
                    <5> QED
                        BY <5>1, <5>2, <5>3 DEF Upto, prev
                <4> QED
                    BY <4>1, <4>2, <4>3, <4>4, <3>11
            <3>14. B = T \o rest
                BY <2>1 DEF T
            <3> HIDE DEF B
            <3> QED
                BY <3>11, <3>12, <3>13, <3>14
        <2>2. CASE ~inside
            <3>1. B = Uncovered(new, rest)
                BY <2>2
            <3> HIDE DEF B
            <3>2. /\ Tidy(B, L) /\ \A k \in DOMAIN B : Stop(new) <= B[k].addr
                  /\ \A a \in Nat : \A u : Has(B, a, u) <=> a >= Stop(new) /\ Has(rest, a, u)
                  /\ Pieces(B, rest)
                BY <3>1, <1>4, <1>7, <1>8, UncoveredFacts
            <3>3. Pieces(B, sky)
                BY <3>2, <1>7, <1>2, PiecesOf DEF Tidy
            <3>4. slot > 0 => Stop(prev) <= Stop(new)
                <4> SUFFICES ASSUME slot > 0 PROVE Stop(prev) <= Stop(new)
                    OBVIOUS
                <4>1. End(prev) = Stop(prev) /\ Stop(prev) \in Nat /\ Stop(prev) <= L
                    BY <1>6, <1>10 DEF prev
                <4>2. CASE Stop(prev) <= new.addr
                    BY <4>1, <4>2, <1>4, PartFacts
                <4>3. CASE Stop(prev) > new.addr
                    <5>1. ~(Stop(prev) > End(new))
                        BY <2>2, <4>1, <4>3
                    <5> QED
                        BY <5>1, <4>1, <1>4, <1>9, WAssumption DEF WAssumption
                <4> QED
                    BY <4>1, <4>2, <4>3, <1>4, PartFacts
            <3>5. ASSUME NEW a \in Nat, NEW u, a >= Stop(new) PROVE ~Upto(sky, slot, a, u)
                <4> SUFFICES ASSUME NEW k \in 1 .. slot, Covers(sky[k], a) PROVE FALSE
                    BY DEF Upto
                <4>1. k \in 1 .. Len(sky) /\ slot > 0
                    BY <1>5
                <4>2. CASE k = slot
                    BY <4>1, <4>2, <3>4, <3>5, <1>4, <1>10 DEF Covers, prev
                <4>3. CASE k # slot
                    BY <4>1, <4>3, <1>11, <3>5, <1>3, <1>4, PartFacts DEF Covers
                <4> QED
                    BY <4>2, <4>3
            <3> QED
                BY <3>2, <3>3, <3>5, <1>7
        <2> QED
            BY <2>1, <2>2
    <1> HIDE DEF B
    <1>13. Tidy(<<new>>, L) /\ DOMAIN <<new>> = {1} /\ <<new>>[1] = new
           /\ \A a, u : Has(<<new>>, a, u) <=> Covers(new, a) /\ new.user = u
        BY <1>4, OnePart
    <1> DEFINE C == <<new>>
               D == A \o C
               E == D \o B
    <1> HIDE DEF C
    <1>14. /\ Tidy(D, L) /\ \A a, u : Has(D, a, u) <=> Has(A, a, u) \/ Has(C, a, u)
        BY <1>6, <1>13, Joined DEF C
    <1>15. \A k \in DOMAIN D : \/ k \in DOMAIN A /\ D[k] = A[k]
                               \/ k = Len(A) + 1 /\ D[k] = new
        <2>1. A \in Seq(Parts) /\ C \in Seq(Parts) /\ Len(C) = 1 /\ C[1] = new
            BY <1>6, <1>13, <1>4 DEF Tidy, C
        <2>2. Len(A) \in Nat /\ DOMAIN C = {1}
            BY <2>1, <1>13 DEF C
        <2> SUFFICES ASSUME NEW k \in DOMAIN D, k - Len(A) \in DOMAIN C
                     PROVE  k = Len(A) + 1
            BY <2>1, <2>2, Concatenated
        <2>3. k \in Int
            BY <2>1
        <2> QED
            BY <2>2, <2>3
    <1>16. \A k \in DOMAIN D : Stop(D[k]) <= Stop(new)
        <2> SUFFICES ASSUME NEW k \in DOMAIN D PROVE Stop(D[k]) <= Stop(new)
            OBVIOUS
        <2>1. CASE D[k] = new
            BY <2>1, <1>4
        <2>2. CASE k \in DOMAIN A /\ D[k] = A[k]
            <3>1. Stop(A[k]) <= new.addr /\ A[k] \in Parts
                BY <2>2, <1>6 DEF Tidy
            <3> QED
                BY <3>1, <2>2, <1>4, PartFacts
        <2> QED
            BY <2>1, <2>2, <1>15
    <1>17. \A i \in DOMAIN D, j \in DOMAIN B : Stop(D[i]) <= B[j].addr
        <2> SUFFICES ASSUME NEW i \in DOMAIN D, NEW j \in DOMAIN B PROVE Stop(D[i]) <= B[j].addr
            OBVIOUS
        <2>1. D[i] \in Parts /\ B[j] \in Parts
            BY <1>14, <1>12 DEF Tidy
        <2> HIDE DEF D
        <2>2. Stop(D[i]) \in Nat /\ B[j].addr \in Nat
            BY <2>1, PartFacts
        <2> QED
            BY <2>2, <1>16, <1>12, <1>4
    <1> HIDE DEF D
    <1>18. Tidy(E, L) /\ \A a, u : Has(E, a, u) <=> Has(D, a, u) \/ Has(B, a, u)
        BY <1>14, <1>12, <1>17, Joined
    <1>19. ASSUME NEW a \in Nat, NEW u
           PROVE  Has(E, a, u) <=> IF Covers(itv, a) THEN u = user ELSE Has(sky, a, u)
        <2>1. Has(E, a, u) <=> \/ a < new.addr /\ Upto(sky, slot, a, u)
                               \/ Covers(new, a) /\ u = user
                               \/ a >= Stop(new) /\ Has(sky, a, u)
            BY <1>18, <1>14, <1>13, <1>12, <1>6, <1>4 DEF C
        <2>2. Covers(itv, a) <=> Covers(new, a)
            BY <1>4 DEF Covers
        <2>3. a < new.addr => ~Has(rest, a, u)
            <3> SUFFICES ASSUME a < new.addr, NEW k \in DOMAIN rest, Covers(rest[k], a) PROVE FALSE
                BY DEF Has
            <3>1. new.addr <= rest[k].addr /\ rest[k].addr \in Nat
                BY <1>8, PartFacts
            <3> QED
                BY <3>1, <1>4, PartFacts DEF Covers
        <2>4. Has(sky, a, u) <=> Upto(sky, slot, a, u) \/ Has(rest, a, u)
            BY <1>7
        <2>5. a < new.addr \/ Covers(new, a) \/ a >= Stop(new)
            BY <1>4, PartFacts DEF Covers
        <2>6. Covers(new, a) => ~(a < new.addr) /\ ~(a >= Stop(new))
            BY <1>4, PartFacts DEF Covers
        <2> QED
            BY <2>1, <2>2, <2>3, <2>4, <2>5, <2>6
    <1>20. ASSUME NEW k \in DOMAIN E
           PROVE  \/ E[k].user = user /\ E[k].addr = itv.addr /\ E[k].size = itv.size
                  \/ \E j \in DOMAIN sky : /\ E[k].user = sky[j].user /\ sky[j].addr <= E[k].addr
                                           /\ Stop(E[k]) <= Stop(sky[j])
        <2>1. D \in Seq(Parts) /\ B \in Seq(Parts)
            BY <1>12, <1>14 DEF Tidy
        <2>2. \/ k \in DOMAIN D /\ E[k] = D[k]
              \/ k - Len(D) \in DOMAIN B /\ E[k] = B[k - Len(D)]
            BY <2>1
        <2> HIDE DEF E
        <2>3. CASE k \in DOMAIN D /\ E[k] = D[k]
            <3>1. CASE D[k] = new
                BY <2>3, <3>1, <1>4
            <3>2. CASE k \in DOMAIN A /\ D[k] = A[k]
                BY <2>3, <3>2, <1>6 DEF Pieces
            <3> QED
                BY <3>1, <3>2, <2>3, <1>15
        <2>4. CASE k - Len(D) \in DOMAIN B /\ E[k] = B[k - Len(D)]
            BY <2>4, <1>12 DEF Pieces
        <2> QED
            BY <2>2, <2>3, <2>4
    <1>21. SkylineAdd(sky, itv, user) = E
        BY <1>1 DEF C, D
    <1> HIDE DEF E
    <1> QED
        BY <1>18, <1>19, <1>20, <1>21
\* The search for an address: the parts in front of the place found end before it, the others do not.
LEMMA FirstBeyond ==
    ASSUME WAssumption, NEW L \in 0 .. W - 1, NEW sky, Tidy(sky, L), NEW a \in Addr
    PROVE  LET i == LowerBound(Len(sky), {j \in DOMAIN sky : a >= End(sky[j]) /\ End(sky[j]) # 0})
           IN  /\ i \in 0 .. Len(sky)
               /\ \A k \in 1 .. i : Stop(sky[k]) <= a
               /\ \A k \in i + 1 .. Len(sky) : a < Stop(sky[k])
    <1> DEFINE S == {j \in DOMAIN sky : a >= End(sky[j]) /\ End(sky[j]) # 0}
    <1>1. /\ sky \in Seq(Parts) /\ DOMAIN sky = 1 .. Len(sky) /\ Len(sky) \in Nat
          /\ \A j \in 1 .. Len(sky) : sky[j] \in Parts /\ Fit(sky[j], L)
          /\ \A i, j \in 1 .. Len(sky) : i < j => Stop(sky[i]) <= sky[j].addr
        BY DEF Tidy, InOrder
    <1>2. \A j \in 1 .. Len(sky) : sky[j].addr \in Nat /\ Stop(sky[j]) \in Nat /\ sky[j].addr <= Stop(sky[j])
        BY <1>1 DEF Parts, Stop
    <1>3. \A j \in 1 .. Len(sky) : j \in S <=> Stop(sky[j]) <= a
        <2> SUFFICES ASSUME NEW j \in 1 .. Len(sky) PROVE j \in S <=> Stop(sky[j]) <= a
            OBVIOUS
        <2>1. Fit(sky[j], L) /\ sky[j].addr \in Nat /\ sky[j].size \in Nat /\ Stop(sky[j]) \in Nat
            BY <1>1, PartFacts
        <2>2. End(sky[j]) = IF Stop(sky[j]) = W THEN 0 ELSE Stop(sky[j])
            BY <2>1, EndIs
        <2>3. Stop(sky[j]) >= 1 /\ a < W /\ a \in Nat /\ W \in Nat
            BY <2>1 DEF Fit, Addr, WAssumption
        <2> QED
            BY <2>1, <2>2, <2>3, <1>1
    <1>4. S \in SUBSET (1 .. Len(sky)) /\ \A i, j \in 1 .. Len(sky) : i < j /\ j \in S => i \in S
        <2>1. S \in SUBSET (1 .. Len(sky))
            BY <1>1
        <2> HIDE DEF S
        <2>2. ASSUME NEW i \in 1 .. Len(sky), NEW j \in 1 .. Len(sky), i < j, j \in S PROVE i \in S
            <3>1. /\ Stop(sky[i]) <= sky[j].addr /\ sky[j].addr <= Stop(sky[j]) /\ Stop(sky[j]) <= a
                  /\ Stop(sky[i]) \in Nat /\ sky[j].addr \in Nat /\ Stop(sky[j]) \in Nat /\ a \in Nat
                BY <2>2, <1>1, <1>2, <1>3 DEF Addr, WAssumption
            <3>2. Stop(sky[i]) <= a
                BY <3>1
            <3> QED
                BY <3>2, <1>3
        <2> QED
            BY <2>1, <2>2
    <1> HIDE DEF S
    <1>5. PICK p \in 0 .. Len(sky) : S = 1 .. p
        BY <1>1, <1>4, Prefix
    <1>6. LowerBound(Len(sky), S) = p
        BY <1>5, <1>1, LowerBoundIs
    <1>7. \A k \in 1 .. p : Stop(sky[k]) <= a
        <2> SUFFICES ASSUME NEW k \in 1 .. p PROVE Stop(sky[k]) <= a
            OBVIOUS
        <2>1. k \in S /\ k \in 1 .. Len(sky)
            BY <1>5
        <2> QED
            BY <2>1, <1>3
    <1>8. \A k \in p + 1 .. Len(sky) : a < Stop(sky[k])
        <2> SUFFICES ASSUME NEW k \in p + 1 .. Len(sky) PROVE a < Stop(sky[k])
            OBVIOUS
        <2>1. k \notin S /\ k \in 1 .. Len(sky)
            BY <1>5
        <2>2. ~(Stop(sky[k]) <= a)
            BY <2>1, <1>3
        <2> QED
            BY <2>1, <2>2, <1>2 DEF Addr, WAssumption
    <1> QED
        BY <1>6, <1>7, <1>8 DEF S

\* No address belongs to two users.
LEMMA OneUser ==
    ASSUME NEW L, NEW sky, Tidy(sky, L), NEW a \in Nat,
           NEW i \in DOMAIN sky, NEW j \in DOMAIN sky, Covers(sky[i], a), Covers(sky[j], a)
    PROVE  i = j
    <1>1. i \in Nat /\ j \in Nat /\ sky[i] \in Parts /\ sky[j] \in Parts
        BY DEF Tidy
    <1>2. /\ sky[i].addr \in Nat /\ sky[j].addr \in Nat /\ Stop(sky[i]) \in Nat /\ Stop(sky[j]) \in Nat
        BY <1>1, PartFacts
    <1>3. ~(i < j)
        BY <1>2 DEF Tidy, InOrder, Covers
    <1>4. ~(j < i)
        BY <1>2 DEF Tidy, InOrder, Covers
    <1> QED
        BY <1>1, <1>3, <1>4

\* rz_skyline_get gives the user an address belongs to.
LEMMA SkylineGetFacts ==
    ASSUME WAssumption, NEW L \in 0 .. W - 1, NEW sky, Tidy(sky, L), NEW a \in Addr
    PROVE  /\ \A u : Has(sky, a, u) => SkylineGet(sky, a) = u
           /\ (\A u : ~Has(sky, a, u)) => SkylineGet(sky, a) = None
    <1> DEFINE i == LowerBound(Len(sky), {j \in DOMAIN sky : a >= End(sky[j]) /\ End(sky[j]) # 0})
               found == i < Len(sky) /\ ((a + 1) % W = 0 \/ sky[i + 1].addr < a + 1)
    <1>1. SkylineGet(sky, a) = IF found THEN sky[i + 1].user ELSE None
        BY DEF SkylineGet
    <1>2. /\ i \in 0 .. Len(sky) /\ \A k \in 1 .. i : Stop(sky[k]) <= a
          /\ \A k \in i + 1 .. Len(sky) : a < Stop(sky[k])
        BY FirstBeyond
    <1> HIDE DEF i
    <1>3. /\ sky \in Seq(Parts) /\ DOMAIN sky = 1 .. Len(sky) /\ Len(sky) \in Nat
          /\ \A j \in 1 .. Len(sky) : sky[j] \in Parts /\ Fit(sky[j], L)
          /\ \A k, j \in 1 .. Len(sky) : k < j => Stop(sky[k]) <= sky[j].addr
        BY DEF Tidy, InOrder
    <1>4. \A j \in 1 .. Len(sky) : sky[j].addr \in Nat /\ Stop(sky[j]) \in Nat /\ sky[j].addr <= Stop(sky[j])
        BY <1>3 DEF Parts, Stop
    <1>5. a \in Nat /\ a < W /\ W \in Nat
        BY DEF Addr, WAssumption
    <1>6. found => i + 1 \in DOMAIN sky /\ Covers(sky[i + 1], a)
        <2> SUFFICES ASSUME found PROVE i + 1 \in DOMAIN sky /\ Covers(sky[i + 1], a)
            OBVIOUS
        <2>1. i + 1 \in 1 .. Len(sky) /\ i + 1 \in i + 1 .. Len(sky)
            BY <1>2, <1>3
        <2>2. a < Stop(sky[i + 1]) /\ sky[i + 1].addr \in Nat /\ Stop(sky[i + 1]) \in Nat /\ Fit(sky[i + 1], L)
            BY <2>1, <1>2, <1>3, <1>4
        <2>3. CASE sky[i + 1].addr < a + 1
            BY <2>1, <2>2, <2>3, <1>3, <1>5 DEF Covers
        <2>4. CASE (a + 1) % W = 0
            <3>1. a = W - 1
                <4>1. a + 1 \in 0 .. W - 1 => (a + 1) % W = a + 1
                    BY ModIs DEF WAssumption
                <4> QED
                    BY <4>1, <2>4, <1>5
            <3>2. sky[i + 1].addr <= a
                BY <3>1, <2>2, <1>5 DEF Fit
            <3> QED
                BY <3>2, <2>1, <2>2, <1>3 DEF Covers
        <2> QED
            BY <2>3, <2>4
    <1>7. ASSUME NEW k \in DOMAIN sky, Covers(sky[k], a) PROVE found /\ k = i + 1
        <2>1. k \in 1 .. Len(sky) /\ sky[k].addr <= a /\ a < Stop(sky[k])
            BY <1>3, <1>7 DEF Covers
        <2>2. ~(k \in 1 .. i)
            BY <2>1, <1>2, <1>4, <1>5
        <2>3. i < Len(sky) /\ i + 1 \in 1 .. Len(sky) /\ i + 1 <= k /\ i + 1 \in i + 1 .. Len(sky)
            BY <2>1, <2>2, <1>2, <1>3
        <2>4. ~(i + 1 < k)
            <3> SUFFICES ASSUME i + 1 < k PROVE FALSE
                OBVIOUS
            <3>1. Stop(sky[i + 1]) <= sky[k].addr /\ a < Stop(sky[i + 1])
                BY <2>1, <2>3, <1>2, <1>3
            <3> QED
                BY <3>1, <2>1, <2>3, <1>4, <1>5
        <2>5. k = i + 1
            BY <2>1, <2>3, <2>4, <1>2
        <2> QED
            BY <2>1, <2>3, <2>5, <1>4, <1>5
    <1>8. ASSUME NEW u, Has(sky, a, u) PROVE SkylineGet(sky, a) = u
        <2>1. PICK k \in DOMAIN sky : Covers(sky[k], a) /\ sky[k].user = u
            BY <1>8 DEF Has
        <2> QED
            BY <2>1, <1>7, <1>1
    <1>9. ASSUME \A u : ~Has(sky, a, u) PROVE SkylineGet(sky, a) = None
        <2>1. ~found
            BY <1>9, <1>6 DEF Has
        <2> QED
            BY <2>1, <1>1
    <1> QED
        BY <1>8, <1>9
-----------------------------------------------------------------------------
(* Lists of intervals and the skyline that shows them.                     *)

\* The elements of t are those of s that are in S, in the same order: the k-th is at pos[k].
Chosen(t, s, S, pos) ==
    /\ pos \in [DOMAIN t -> DOMAIN s]
    /\ \A k \in DOMAIN t : t[k] = s[pos[k]] /\ s[pos[k]] \in S
    /\ \A j, k \in DOMAIN t : j < k => pos[j] < pos[k]
    /\ \A i \in DOMAIN s : s[i] \in S => \E k \in DOMAIN t : pos[k] = i

\* Deleting from a list leaves the others in their order.
LEMMA OnlyOrder ==
    ASSUME NEW T, NEW s \in Seq(T), NEW S
    PROVE  Only(s, S) \in Seq(T) /\ \E pos : Chosen(Only(s, S), s, S, pos)
    <1> DEFINE Kept == {p \in DOMAIN s : s[p] \in S}
               Below(p) == {j \in Kept : j <= p}
               Rank(p) == Cardinality(Below(p))
               n == Cardinality(Kept)
               rank == [p \in Kept |-> Rank(p)]
               At(k) == CHOOSE p \in Kept : Rank(p) = k
    <1>1. Kept \subseteq 1..Len(s) /\ Len(s) \in Nat /\ Kept \subseteq Int
        OBVIOUS
    <1>2. IsFiniteSet(Kept) /\ n \in Nat
        <2>1. IsFiniteSet(1..Len(s))
            BY <1>1, FS_Interval
        <2> QED
            BY <2>1, <1>1, FS_Subset, FS_CardinalityType
    <1>3. \A p \in Kept : IsFiniteSet(Below(p)) /\ Rank(p) \in 1..n /\ Rank(p) \in Nat
        <2> SUFFICES ASSUME NEW p \in Kept
                     PROVE  IsFiniteSet(Below(p)) /\ Rank(p) \in 1..n /\ Rank(p) \in Nat
            OBVIOUS
        <2>1. Below(p) \in SUBSET Kept
            OBVIOUS
        <2>2. IsFiniteSet(Below(p)) /\ Rank(p) <= n
            BY ONLY <2>1, <1>2, FS_Subset
        <2>3. Rank(p) \in Nat
            BY ONLY <2>2, FS_CardinalityType
        <2>4. p \in Below(p)
            BY <1>1
        <2>5. Below(p) # {}
            BY <2>4
        <2>6. Rank(p) # 0
            BY ONLY <2>2, <2>5, FS_EmptySet
        <2> HIDE DEF Rank, n
        <2> QED
            BY <2>2, <2>3, <2>6, <1>2
    <1>4. \A p, j \in Kept : p < j => Rank(p) < Rank(j)
        <2> SUFFICES ASSUME NEW p \in Kept, NEW j \in Kept, p < j
                     PROVE  Rank(p) < Rank(j)
            OBVIOUS
        <2>1. Below(p) \in SUBSET Below(j)
            BY <1>1
        <2>2. j \in Below(j) /\ j \notin Below(p)
            BY <1>1
        <2>3. Below(p) # Below(j)
            BY ONLY <2>2
        <2>4. IsFiniteSet(Below(j)) /\ Rank(p) \in Nat /\ Rank(j) \in Nat
            BY ONLY <1>3, p \in Kept, j \in Kept, <1>2
        <2>5. Rank(p) <= Rank(j) /\ Rank(p) # Rank(j)
            BY ONLY <2>1, <2>3, <2>4, FS_Subset
        <2> HIDE DEF Rank
        <2> QED
            BY ONLY <2>4, <2>5
    <1>5. \A p, j \in Kept : Rank(p) = Rank(j) => p = j
        <2> SUFFICES ASSUME NEW p \in Kept, NEW j \in Kept, Rank(p) = Rank(j), p # j
                     PROVE  FALSE
            OBVIOUS
        <2>1. p < j \/ j < p
            BY ONLY <1>1, p \in Kept, j \in Kept, p # j
        <2>2. Rank(p) \in Nat /\ Rank(j) \in Nat
            BY ONLY <1>2, <1>3, p \in Kept, j \in Kept
        <2> HIDE DEF Rank
        <2> QED
            BY ONLY <2>1, <2>2, <1>4, p \in Kept, j \in Kept, Rank(p) = Rank(j)
    <1>6. rank \in Injection(Kept, 1..n)
        <2> HIDE DEF Rank, Kept, n
        <2> QED
            BY <1>3, <1>5 DEF Injection, IsInjective
    <1>7. rank \in Surjection(Kept, 1..n)
        <2>1. IsFiniteSet(1..n) /\ Cardinality(1..n) = n
            BY ONLY <1>2, FS_Interval
        <2> HIDE DEF rank, Kept
        <2> QED
            BY <2>1, <1>6, FS_Injection
    <1>8. \A k \in 1..n : \E p \in Kept : Rank(p) = k
        <2> HIDE DEF Rank, Kept, n
        <2> QED
            BY <1>7 DEF Surjection
    <1>9. \A k \in 1..n : At(k) \in Kept /\ Rank(At(k)) = k
        <2> HIDE DEF Rank, Kept, n
        <2> QED
            BY <1>8
    <1>10. \A p \in Kept : Rank(p) \in 1..n /\ At(Rank(p)) = p
        <2> HIDE DEF Rank, Kept, n
        <2> QED
            BY <1>3, <1>5
    <1>11. Only(s, S) = [k \in 1..n |-> s[At(k)]]
        BY DEF Only
    <1>12. \A p \in Kept : s[p] \in T /\ s[p] \in S /\ p \in DOMAIN s
        BY <1>1
    <1>13. \A p \in DOMAIN s : s[p] \in S => p \in Kept
        OBVIOUS
    <1> HIDE DEF Rank, Kept, n, At
    <1> DEFINE r == [k \in 1..n |-> s[At(k)]]
    <1>14. r \in Seq(T) /\ DOMAIN r = 1 .. n
        BY <1>2, <1>9, <1>12
    <1> DEFINE pos == [k \in 1 .. n |-> At(k)]
    <1>15. pos \in [1 .. n -> DOMAIN s]
        BY <1>9, <1>12
    <1>16. \A k \in 1 .. n : r[k] = s[pos[k]] /\ s[pos[k]] \in S
        BY <1>9, <1>12
    <1>17. ASSUME NEW j \in 1 .. n, NEW k \in 1 .. n, j < k PROVE pos[j] < pos[k]
        <2>1. At(j) \in Kept /\ At(k) \in Kept /\ Rank(At(j)) = j /\ Rank(At(k)) = k
            BY <1>9
        <2>2. At(j) \in Int /\ At(k) \in Int /\ j \in Int /\ k \in Int
            <3>1. At(j) \in Int /\ At(k) \in Int
                BY <2>1, <1>1, Zenon
            <3>2. n \in Nat
                BY <1>2
            <3> QED
                BY <3>1, <3>2
        <2>3. ~(At(k) < At(j))
            BY <2>1, <2>2, <1>4, <1>17
        <2>4. At(k) # At(j)
            BY <2>1, <2>2, <1>17
        <2> QED
            BY <2>2, <2>3, <2>4
    <1>18. ASSUME NEW i \in DOMAIN s, s[i] \in S PROVE \E k \in 1 .. n : pos[k] = i
        <2>1. i \in Kept
            BY <1>18, <1>13
        <2> QED
            BY <2>1, <1>10
    <1>19. Only(s, S) = r
        BY <1>11
    <1> HIDE DEF r, pos
    <1>20. Chosen(r, s, S, pos)
        BY <1>14, <1>15, <1>16, <1>17, <1>18 DEF Chosen
    <1> QED
        BY <1>14, <1>19, <1>20
\* The last of the first n of a list that has address a.
IsLast(list, n, a, j) ==
    /\ j \in 1 .. n /\ Covers(list[j], a)
    /\ \A i \in 1 .. n : i > j => ~Covers(list[i], a)

\* The last there is.
LEMMA LastExists ==
    ASSUME NEW list, NEW n \in Nat, NEW a
    PROVE  (\E j : IsLast(list, n, a, j)) \/ \A j \in 1 .. n : ~Covers(list[j], a)
    <1> DEFINE T == {j \in 1 .. n : Covers(list[j], a)}
    <1>1. CASE T = {}
        BY <1>1
    <1>2. CASE T # {}
        <2>1. T \in SUBSET (0 .. n)
            OBVIOUS
        <2>2. PICK k \in T : \A m \in T : m <= k
            <3> HIDE DEF T
            <3> QED
                BY <1>2, <2>1, Largest
        <2>3. IsLast(list, n, a, k)
            BY <2>2 DEF IsLast
        <2> QED
            BY <2>3
    <1> QED
        BY <1>1, <1>2

\* It is the only one.
LEMMA LastIsOne ==
    ASSUME NEW list, NEW n \in Nat, NEW a, NEW i, NEW j, IsLast(list, n, a, i), IsLast(list, n, a, j)
    PROVE  i = j
    BY DEF IsLast

\* The last entry of an address once another is appended.
LEMMA LastAppended ==
    ASSUME NEW T, NEW c \in Seq(T), NEW e, NEW a
    PROVE  \A k : IsLast(Append(c, e), Len(c) + 1, a, k) <=>
                    IF Covers(e, a) THEN k = Len(c) + 1 ELSE IsLast(c, Len(c), a, k)
    <1> DEFINE d == Append(c, e)
               n == Len(c)
    <1>1. n \in Nat /\ d[n + 1] = e /\ \A k \in 1 .. n : d[k] = c[k]
        OBVIOUS
    <1> HIDE DEF d, n
    <1>2. \A k \in 1 .. n + 1 : k \in 1 .. n \/ k = n + 1
        BY <1>1
    <1>3. CASE Covers(e, a)
        <2>1. \A k : IsLast(d, n + 1, a, k) => k = n + 1
            BY <1>1, <1>3 DEF IsLast
        <2>2. IsLast(d, n + 1, a, n + 1)
            BY <1>1, <1>3 DEF IsLast
        <2> QED
            BY <2>1, <2>2, <1>3 DEF d, n
    <1>4. CASE ~Covers(e, a)
        <2>1. \A k : IsLast(d, n + 1, a, k) => IsLast(c, n, a, k)
            BY <1>1, <1>2, <1>4 DEF IsLast
        <2>2. \A k : IsLast(c, n, a, k) => IsLast(d, n + 1, a, k)
            BY <1>1, <1>2, <1>4 DEF IsLast
        <2> QED
            BY <2>1, <2>2, <1>4 DEF d, n
    <1> QED
        BY <1>3, <1>4


\* Something with an interval and an id to be in a skyline.
Ranged(e, L) == e.id \in Nat /\ e.addr \in Nat /\ e.size \in Nat /\ Fit(e, L)

\* The skyline shows the last of a list at each address, and its parts are within the intervals.
Shows(c, sky, L) ==
    /\ Tidy(sky, L)
    /\ \A a \in Nat : \A u : Has(sky, a, u) <=> \E k : IsLast(c, Len(c), a, k) /\ c[k].id = u
    /\ \A i \in DOMAIN sky : \E k \in DOMAIN c :
         c[k].id = sky[i].user /\ c[k].addr <= sky[i].addr /\ Stop(sky[i]) <= Stop(c[k])

\* The empty skyline shows the empty list.
LEMMA EmptyShows ==
    ASSUME NEW L
    PROVE  Shows(<<>>, <<>>, L)
    BY DEF Shows, Tidy, InOrder, Has, IsLast

\* The skyline shows a list to which one more is appended.
LEMMA ShownAdded ==
    ASSUME WAssumption, NEW L \in 0 .. W - 1, NEW T, NEW c \in Seq(T), \A k \in DOMAIN c : Ranged(c[k], L),
           NEW sky, Shows(c, sky, L), NEW e, Ranged(e, L)
    PROVE  Shows(Append(c, e), SkylineAdd(sky, e, e.id), L)
    <1> DEFINE d == Append(c, e)
               n == Len(c)
               new == SkylineAdd(sky, e, e.id)
    <1>1. /\ n \in Nat /\ DOMAIN c = 1 .. n /\ Len(d) = n + 1
          /\ DOMAIN d = 1 .. n + 1 /\ d[n + 1] = e /\ \A k \in 1 .. n : d[k] = c[k]
        OBVIOUS
    <1>2. e.id \in Nat /\ e.addr \in Nat /\ e.size \in Nat /\ Stop(e) \in Nat
        BY DEF Ranged, Stop
    <1>3. \A a : \A k : IsLast(d, n + 1, a, k) <=> IF Covers(e, a) THEN k = n + 1 ELSE IsLast(c, n, a, k)
        BY <1>1, LastAppended
    <1> HIDE DEF d, n
    <1>5. Tidy(sky, L) /\ Fit(e, L)
        BY DEF Shows, Ranged
    <1>6. /\ Tidy(new, L)
          /\ \A a \in Nat : \A u : Has(new, a, u) <=> IF Covers(e, a) THEN u = e.id ELSE Has(sky, a, u)
          /\ \A i \in DOMAIN new :
               \/ new[i].user = e.id /\ new[i].addr = e.addr /\ new[i].size = e.size
               \/ \E j \in DOMAIN sky : /\ new[i].user = sky[j].user /\ sky[j].addr <= new[i].addr
                                        /\ Stop(new[i]) <= Stop(sky[j])
        BY <1>2, <1>5, SkylineAddFacts
    <1> HIDE DEF new
    <1>7. ASSUME NEW a \in Nat, NEW u PROVE Has(new, a, u) <=> \E k : IsLast(d, Len(d), a, k) /\ d[k].id = u
        <2>1. CASE Covers(e, a)
            BY <2>1, <1>1, <1>3, <1>6
        <2>2. CASE ~Covers(e, a)
            <3>1. Has(new, a, u) <=> \E k : IsLast(c, n, a, k) /\ c[k].id = u
                BY <2>2, <1>6 DEF Shows, n
            <3>2. \A k : IsLast(c, n, a, k) => d[k] = c[k]
                BY <1>1 DEF IsLast
            <3> QED
                BY <2>2, <3>1, <3>2, <1>1, <1>3
        <2> QED
            BY <2>1, <2>2
    <1>8. ASSUME NEW i \in DOMAIN new
          PROVE  \E k \in DOMAIN d : d[k].id = new[i].user /\ d[k].addr <= new[i].addr /\ Stop(new[i]) <= Stop(d[k])
        <2>1. CASE new[i].user = e.id /\ new[i].addr = e.addr /\ new[i].size = e.size
            <3>1. Stop(new[i]) = Stop(e)
                BY <2>1 DEF Stop
            <3>2. n + 1 \in DOMAIN d
                BY <1>1
            <3> QED
                BY <2>1, <3>1, <3>2, <1>1, <1>2
        <2>2. CASE \E j \in DOMAIN sky : /\ new[i].user = sky[j].user /\ sky[j].addr <= new[i].addr
                                         /\ Stop(new[i]) <= Stop(sky[j])
            <3>1. PICK j \in DOMAIN sky : /\ new[i].user = sky[j].user /\ sky[j].addr <= new[i].addr
                                          /\ Stop(new[i]) <= Stop(sky[j])
                BY <2>2
            <3>2. PICK k \in DOMAIN c : /\ c[k].id = sky[j].user /\ c[k].addr <= sky[j].addr
                                        /\ Stop(sky[j]) <= Stop(c[k])
                BY DEF Shows
            <3>3. k \in DOMAIN d /\ d[k] = c[k] /\ c[k].addr \in Nat /\ c[k].size \in Nat
                BY <1>1 DEF Ranged
            <3>4. sky[j] \in Parts /\ new[i] \in Parts
                BY <1>5, <1>6 DEF Tidy
            <3>5. /\ c[k].addr \in Nat /\ Stop(c[k]) \in Nat /\ sky[j].addr \in Nat /\ Stop(sky[j]) \in Nat
                  /\ new[i].addr \in Nat /\ Stop(new[i]) \in Nat
                BY <3>3, <3>4, PartFacts, SMTT(40) DEF Stop
            <3> QED
                BY <3>1, <3>2, <3>3, <3>5
        <2> QED
            BY <1>6, <2>1, <2>2
    <1>9. Shows(d, new, L)
        BY <1>6, <1>7, <1>8 DEF Shows
    <1> QED
        BY <1>9 DEF d, new

\* The first n of a list.
LEMMA FirstOf ==
    ASSUME NEW T, NEW c \in Seq(T), NEW k \in 0 .. Len(c) - 1
    PROVE  SubSeq(c, 1, k + 1) = Append(SubSeq(c, 1, k), c[k + 1])
    OBVIOUS

\* The skyline built anew shows the list.
LEMMA SkylineOfFacts ==
    ASSUME WAssumption, NEW L \in 0 .. W - 1, NEW T, NEW c \in Seq(T), \A k \in DOMAIN c : Ranged(c[k], L)
    PROVE  Shows(c, SkylineOf(c), L)
    <1> DEFINE n == Len(c)
               V == {s \in Seq(Parts) : Tidy(s, L)}
               Add(k, s) == SkylineAdd(s, c[k], c[k].id)
               Is(h) == h = [k \in 0 .. n |-> IF k = 0 THEN <<>> ELSE Add(k, h[k - 1])]
               G == [b \in (1 .. n) \X V |-> Add(b[1], b[2])]
    <1>1. SkylineOf(c) = (CHOOSE h : Is(h))[n]
        BY DEF SkylineOf
    <1>2. n \in Nat /\ DOMAIN c = 1 .. n
        OBVIOUS
    <1>3. ASSUME NEW k \in 1 .. n
          PROVE  Ranged(c[k], L) /\ c[k].id \in Nat /\ c[k].addr \in Nat /\ c[k].size \in Nat /\ Fit(c[k], L)
        BY <1>2 DEF Ranged
    <1>4. ASSUME NEW k \in 1 .. n, NEW s \in V PROVE Add(k, s) \in V
        <2>1. Tidy(s, L)
            OBVIOUS
        <2>2. Tidy(Add(k, s), L)
            BY <2>1, <1>3, SkylineAddFacts
        <2> QED
            BY <2>2 DEF Tidy
    <1>5. \A k \in 1 .. n : \A s \in V : G[<<k, s>>] = Add(k, s)
        OBVIOUS
    <1>6. <<>> \in V
        BY EmptyShows DEF Shows, Tidy
    <1> HIDE DEF G, Add, V
    <1>7. PICK g \in [0 .. n -> V] : g[0] = <<>> /\ \A k \in 1 .. n : g[k] = G[<<k, g[k - 1]>>]
        <2>1. Loops(V, n, G)
            BY <1>4, <1>5 DEF Loops
        <2> HIDE DEF n
        <2> QED
            BY <2>1, <1>2, <1>6, LoopExists DEF IsLoop
    <1>8. Is(g)
        <2>1. ASSUME NEW k \in 0 .. n, k # 0 PROVE g[k] = Add(k, g[k - 1])
            <3>1. k \in 1 .. n /\ k - 1 \in 0 .. n
                BY <2>1, <1>2
            <3>2. g[k - 1] \in V
                BY <3>1, <1>7
            <3> QED
                BY <3>1, <3>2, <1>5, <1>7
        <2>2. \A k \in 0 .. n : g[k] = IF k = 0 THEN <<>> ELSE Add(k, g[k - 1])
            BY <2>1, <1>7
        <2> QED
            BY <1>7, <2>2
    <1> DEFINE h == CHOOSE x : Is(x)
    <1>9. Is(h)
        <2> HIDE DEF Is
        <2> QED
            BY <1>8
    <1> HIDE DEF h
    <1>10. h[0] = <<>>
        BY <1>9, <1>2
    <1>11. ASSUME NEW k \in 1 .. n PROVE h[k] = Add(k, h[k - 1])
        <2>1. k \in 0 .. n /\ k # 0
            BY <1>2
        <2> QED
            BY <2>1, <1>9
    <1> DEFINE S == {k \in 0 .. n : Shows(SubSeq(c, 1, k), h[k], L)}
    <1>12. 0 \in S
        <2>1. SubSeq(c, 1, 0) = <<>>
            BY <1>2
        <2> QED
            <3>1. Shows(<<>>, <<>>, L)
                BY EmptyShows
            <3> QED
                BY <3>1, <2>1, <1>2, <1>10
    <1>13. ASSUME NEW k \in 0 .. n - 1, k \in S PROVE k + 1 \in S
        <2>1. k + 1 \in 1 .. n /\ (k + 1) - 1 = k /\ k + 1 \in 0 .. n
            BY <1>2
        <2>2. h[k + 1] = SkylineAdd(h[k], c[k + 1], c[k + 1].id)
            BY <2>1, <1>11 DEF Add
        <2> DEFINE d == SubSeq(c, 1, k)
        <2>3. d \in Seq(T) /\ DOMAIN d = 1 .. k /\ \A i \in 1 .. k : d[i] = c[i] /\ i \in 1 .. n
            BY <1>2
        <2>4. Shows(d, h[k], L) /\ \A i \in DOMAIN d : Ranged(d[i], L)
            BY <1>13, <2>3, <1>3
        <2> HIDE DEF d
        <2>5. Shows(Append(d, c[k + 1]), h[k + 1], L)
            BY <2>1, <2>2, <2>3, <2>4, <1>3, ShownAdded
        <2>6. SubSeq(c, 1, k + 1) = Append(SubSeq(c, 1, k), c[k + 1])
            BY FirstOf
        <2> QED
            BY <2>1, <2>5, <2>6 DEF d
    <1>14. n \in S
        <2> HIDE DEF S, n
        <2>1. 0 .. n \subseteq S
            BY <1>12, <1>13, <1>2, Induction
        <2> QED
            BY <1>2, <2>1
    <1>15. SubSeq(c, 1, n) = c
        BY <1>2
    <1> QED
        BY <1>1, <1>14, <1>15 DEF h

\* The last of an address is the same in a list without some that do not have it.
LEMMA LastChosen ==
    ASSUME NEW T, NEW c \in Seq(T), NEW d \in Seq(T), NEW S, NEW pos, Chosen(d, c, S, pos), NEW a,
           \A i \in DOMAIN c : Covers(c[i], a) => c[i] \in S
    PROVE  \A k : IsLast(c, Len(c), a, k) <=> \E j : IsLast(d, Len(d), a, j) /\ k = pos[j]
    <1>1. /\ Len(c) \in Nat /\ Len(d) \in Nat /\ DOMAIN c = 1 .. Len(c) /\ DOMAIN d = 1 .. Len(d)
          /\ \A j \in 1 .. Len(d) : pos[j] \in 1 .. Len(c) /\ d[j] = c[pos[j]]
          /\ \A i, j \in 1 .. Len(d) : i < j => pos[i] < pos[j]
          /\ \A i \in 1 .. Len(c) : Covers(c[i], a) => \E j \in 1 .. Len(d) : pos[j] = i
        BY DEF Chosen
    <1>2. ASSUME NEW k, IsLast(c, Len(c), a, k) PROVE \E j : IsLast(d, Len(d), a, j) /\ k = pos[j]
        <2>1. k \in 1 .. Len(c) /\ Covers(c[k], a) /\ \A i \in 1 .. Len(c) : i > k => ~Covers(c[i], a)
            BY <1>2 DEF IsLast
        <2>2. PICK j \in 1 .. Len(d) : pos[j] = k
            BY <1>1, <2>1
        <2>3. ASSUME NEW i \in 1 .. Len(d), i > j PROVE ~Covers(d[i], a)
            <3>1. pos[i] \in 1 .. Len(c) /\ pos[i] > k /\ d[i] = c[pos[i]]
                BY <1>1, <2>2, <2>3
            <3> QED
                BY <3>1, <2>1
        <2>4. IsLast(d, Len(d), a, j)
            BY <1>1, <2>1, <2>2, <2>3 DEF IsLast
        <2> QED
            BY <2>2, <2>4
    <1>3. ASSUME NEW j, IsLast(d, Len(d), a, j) PROVE IsLast(c, Len(c), a, pos[j])
        <2>1. j \in 1 .. Len(d) /\ Covers(d[j], a) /\ \A i \in 1 .. Len(d) : i > j => ~Covers(d[i], a)
            BY <1>3 DEF IsLast
        <2>2. ASSUME NEW i \in 1 .. Len(c), i > pos[j], Covers(c[i], a) PROVE FALSE
            <3>1. PICK k \in 1 .. Len(d) : pos[k] = i
                BY <1>1, <2>2
            <3>2. ~(k > j) /\ k # j
                BY <1>1, <2>1, <2>2, <3>1
            <3>3. k < j
                BY <1>1, <2>1, <3>2
            <3>4. pos[k] < pos[j] /\ pos[j] \in Nat
                BY <1>1, <2>1, <3>3
            <3> QED
                BY <3>1, <3>4, <2>2
        <2> QED
            BY <1>1, <2>1, <2>2 DEF IsLast
    <1> QED
        BY <1>2, <1>3
-----------------------------------------------------------------------------
(* The write cache, librz/io/io_cache.c.                                   *)

\* The skyline of the cache is that of the module.
LEMMA CacheAddIs ==
    ASSUME NEW s, NEW e, NEW u
    PROVE  Cache!SkylineAdd(s, e, u) = SkylineAdd(s, e, u)
    BY Zenon DEF Cache!SkylineAdd, SkylineAdd, Cache!LowerBound, LowerBound, Cache!End, End,
       Cache!Uncovered, Uncovered, Cache!Include, Include, Cache!Overlap, Overlap

\* So is the skyline of a list,
LEMMA CacheOfIs ==
    ASSUME NEW c
    PROVE  Cache!SkylineOf(c) = SkylineOf(c)
    BY Zenon DEF Cache!SkylineOf, SkylineOf, Cache!SkylineAdd, SkylineAdd, Cache!LowerBound, LowerBound, Cache!End, End,
       Cache!Uncovered, Uncovered, Cache!Include, Include, Cache!Overlap, Overlap

\* the search in a skyline,
LEMMA CacheBoundIs ==
    ASSUME NEW n, NEW s
    PROVE  Cache!LowerBound(n, s) = LowerBound(n, s)
    BY DEF Cache!LowerBound, LowerBound

\* and what is left of a list.
LEMMA CacheOnlyIs ==
    ASSUME NEW s, NEW t
    PROVE  Cache!Only(s, t) = Only(s, t)
    BY Zenon DEF Cache!Only, Only, Cache!Cardinality, Cardinality

Bytes == [Addr -> Nat]

\* Something to write: no more bytes than there are addresses, all there.
Writable(e) == e.addr \in Nat /\ e.size \in Nat /\ e.data \in [0 .. e.size - 1 -> Nat]

\* A remainder is an address, and an address is its own remainder.
LEMMA ModFacts ==
    ASSUME NEW w \in Nat \ {0}
    PROVE  /\ \A x \in 0 .. w - 1 : x % w = x
           /\ \A x \in 1 .. w - 1 : (-x) % w = w - x
           /\ \A x \in Int : x % w \in 0 .. w - 1
           /\ w % w = 0 /\ (-w) % w = 0
    OBVIOUS

\* Bytes put into a file give a file.
LEMMA PutType ==
    ASSUME WAssumption, NEW f \in Bytes, NEW addr \in Nat, NEW size \in Nat, NEW data \in [0 .. size - 1 -> Nat]
    PROVE  Cache!Put(f, addr, size, data) \in Bytes
    <1>1. ASSUME NEW a \in Addr
          PROVE  (IF (a - addr) % W < size THEN data[(a - addr) % W] ELSE f[a]) \in Nat
        <2>1. a - addr \in Int /\ f[a] \in Nat
            BY DEF Addr, Bytes, WAssumption
        <2>2. (a - addr) % W \in 0 .. W - 1
            BY <2>1, ModFacts DEF WAssumption
        <2> DEFINE m == (a - addr) % W
        <2> HIDE DEF m
        <2>3. m \in Nat
            BY <2>2 DEF m, WAssumption
        <2>4. (IF m < size THEN data[m] ELSE f[a]) \in Nat
            BY <2>1, <2>3
        <2> QED
            BY <2>4 DEF m
    <1>2. Cache!Put(f, addr, size, data) = [a \in Addr |-> IF (a - addr) % W < size THEN data[(a - addr) % W] ELSE f[a]]
        BY DEF Cache!Put, Cache!At, Cache!Addr, Addr
    <1> QED
        BY <1>1, <1>2 DEF Bytes

\* Bytes put into a file are at the addresses of the range, and nothing else changes.
LEMMA PutFacts ==
    ASSUME WAssumption, NEW f \in Bytes, NEW e, Writable(e), Stop(e) <= W, NEW a \in Addr
    PROVE  Cache!Put(f, e.addr, e.size, e.data)[a] = IF Covers(e, a) THEN e.data[a - e.addr] ELSE f[a]
    <1>1. e.addr \in Nat /\ e.size \in Nat /\ e.addr + e.size <= W /\ W \in Nat \ {0} /\ a \in 0 .. W - 1
        BY DEF Writable, Stop, Addr, WAssumption
    <1> DEFINE m == (a - e.addr) % W
    <1>2. Cache!Put(f, e.addr, e.size, e.data)[a] = IF m < e.size THEN e.data[m] ELSE f[a]
        BY DEF Cache!Put, Cache!At, Cache!Addr, Addr
    <1>3. CASE e.addr <= a
        <2>1. a - e.addr \in 0 .. W - 1
            BY <1>1, <1>3
        <2>2. m = a - e.addr
            BY <1>1, <2>1, ModFacts
        <2> HIDE DEF m
        <2>3. m < e.size <=> Covers(e, a)
            BY <2>2, <1>1, <1>3 DEF Covers, Stop
        <2> QED
            BY <2>2, <2>3, <1>2
    <1>4. CASE a < e.addr
        <2>1. ~Covers(e, a)
            BY <1>1, <1>4 DEF Covers
        <2>2. ~(m < e.size)
            <3>1. CASE e.addr - a = W
                <4>1. a - e.addr = -W /\ e.size = 0
                    BY <3>1, <1>1
                <4>2. m = 0
                    BY <4>1, <1>1, ModFacts
                <4> QED
                    BY <4>1, <4>2
            <3>2. CASE e.addr - a # W
                <4>1. e.addr - a \in 1 .. W - 1 /\ a - e.addr = -(e.addr - a)
                    BY <3>2, <1>1, <1>4
                <4>2. m = W - (e.addr - a)
                    BY <4>1, <1>1, ModFacts
                <4> QED
                    BY <4>2, <1>1
            <3> QED
                BY <3>1, <3>2
        <2> HIDE DEF m
        <2> QED
            BY <1>2, <2>1, <2>2
    <1> QED
        BY <1>1, <1>3, <1>4

\* The steps of PutAll.
LEMMA PutAllSteps ==
    ASSUME WAssumption, NEW f \in Bytes, NEW list, Len(list) \in Nat, \A k \in 1 .. Len(list) : Writable(list[k])
    PROVE  \E h \in [0 .. Len(list) -> Bytes] :
             /\ h[0] = f /\ Cache!PutAll(f, list) = h[Len(list)]
             /\ \A k \in 1 .. Len(list) : h[k] = Cache!Put(h[k - 1], list[k].addr, list[k].size, list[k].data)
    <1> DEFINE n == Len(list)
               Is(h) == h = [k \in 0 .. n |-> IF k = 0 THEN f
                               ELSE Cache!Put(h[k - 1], list[k].addr, list[k].size, list[k].data)]
               G == [b \in (1 .. n) \X Bytes |-> Cache!Put(b[2], list[b[1]].addr, list[b[1]].size, list[b[1]].data)]
    <1>1. Cache!PutAll(f, list) = (CHOOSE h : Is(h))[n]
        BY DEF Cache!PutAll
    <1>2. \A k \in 1 .. n : \A x \in Bytes : Cache!Put(x, list[k].addr, list[k].size, list[k].data) \in Bytes
        BY PutType DEF Writable
    <1>3. \A k \in 1 .. n : \A x \in Bytes : G[<<k, x>>] = Cache!Put(x, list[k].addr, list[k].size, list[k].data)
        OBVIOUS
    <1> HIDE DEF G
    <1>4. PICK g \in [0 .. n -> Bytes] : g[0] = f /\ \A k \in 1 .. n : g[k] = G[<<k, g[k - 1]>>]
        <2>1. Loops(Bytes, n, G)
            BY <1>2, <1>3 DEF Loops
        <2>2. n \in Nat
            OBVIOUS
        <2> HIDE DEF n
        <2> QED
            BY <2>1, <2>2, LoopExists DEF IsLoop
    <1>5. Is(g)
        <2>1. ASSUME NEW k \in 0 .. n, k # 0
              PROVE  G[<<k, g[k - 1]>>] = Cache!Put(g[k - 1], list[k].addr, list[k].size, list[k].data)
            <3>1. k \in 1 .. n /\ k - 1 \in 0 .. n
                BY <2>1
            <3>2. g[k - 1] \in Bytes
                BY <3>1, <1>4
            <3> QED
                BY <3>1, <3>2, <1>3
        <2>2. \A k \in 0 .. n : g[k] = IF k = 0 THEN f
                               ELSE Cache!Put(g[k - 1], list[k].addr, list[k].size, list[k].data)
            <3> SUFFICES ASSUME NEW k \in 0 .. n, k # 0
                         PROVE  g[k] = Cache!Put(g[k - 1], list[k].addr, list[k].size, list[k].data)
                BY <1>4
            <3>1. k \in 1 .. n
                OBVIOUS
            <3> QED
                BY <3>1, <2>1, <1>4
        <2> QED
            BY <1>4, <2>2
    <1> DEFINE h == CHOOSE x : Is(x)
    <1>6. Is(h)
        <2> HIDE DEF Is
        <2> QED
            BY <1>5
    <1> HIDE DEF h
    <1>7. h[0] = f /\ DOMAIN h = 0 .. n
        BY <1>6
    <1>8. \A k \in 1 .. n : h[k] = Cache!Put(h[k - 1], list[k].addr, list[k].size, list[k].data)
        BY <1>6
    <1>9. h \in [0 .. n -> Bytes]
        <2> DEFINE S == {k \in 0 .. n : h[k] \in Bytes}
        <2>1. 0 \in S
            BY <1>7
        <2>2. \A k \in 0 .. n - 1 : k \in S => k + 1 \in S
            BY <1>8, <1>2
        <2> HIDE DEF S
        <2>3. 0 .. n \subseteq S
            BY <2>1, <2>2, Induction
        <2>4. \A k \in 0 .. n : h[k] \in Bytes
            BY <2>3 DEF S
        <2>5. h = [k \in 0 .. n |-> h[k]]
            BY <1>6
        <2> QED
            BY <2>4, <2>5
    <1> QED
        BY <1>1, <1>7, <1>8, <1>9 DEF h

\* After a list of writes a byte is that of the last write that covers it, or as before.
LEMMA PutAllFacts ==
    ASSUME WAssumption, NEW f \in Bytes, NEW list, Len(list) \in Nat,
           \A k \in 1 .. Len(list) : Writable(list[k]) /\ Stop(list[k]) <= W, NEW a \in Addr
    PROVE  /\ \A j : IsLast(list, Len(list), a, j) => Cache!PutAll(f, list)[a] = list[j].data[a - list[j].addr]
           /\ (\A j \in 1 .. Len(list) : ~Covers(list[j], a)) => Cache!PutAll(f, list)[a] = f[a]
    <1> DEFINE n == Len(list)
    <1>1. PICK h \in [0 .. n -> Bytes] :
             /\ h[0] = f /\ Cache!PutAll(f, list) = h[n]
             /\ \A k \in 1 .. n : h[k] = Cache!Put(h[k - 1], list[k].addr, list[k].size, list[k].data)
        BY PutAllSteps
    <1>2. \A k \in 1 .. n : h[k][a] = IF Covers(list[k], a) THEN list[k].data[a - list[k].addr] ELSE h[k - 1][a]
        <2> SUFFICES ASSUME NEW k \in 1 .. n
                     PROVE  h[k][a] = IF Covers(list[k], a) THEN list[k].data[a - list[k].addr] ELSE h[k - 1][a]
            OBVIOUS
        <2>1. h[k - 1] \in Bytes /\ Writable(list[k]) /\ Stop(list[k]) <= W
            OBVIOUS
        <2> QED
            BY <1>1, <2>1, PutFacts
    <1> DEFINE Good(k) == /\ \A j : IsLast(list, k, a, j) => h[k][a] = list[j].data[a - list[j].addr]
                          /\ (\A j \in 1 .. k : ~Covers(list[j], a)) => h[k][a] = f[a]
               S == {k \in 0 .. n : Good(k)}
    <1>3. 0 \in S
        BY <1>1 DEF IsLast
    <1>4. ASSUME NEW k \in 0 .. n - 1, k \in S PROVE k + 1 \in S
        <2>1. Good(k) /\ k + 1 \in 1 .. n /\ k \in Nat
            BY <1>4
        <2>2. h[k + 1][a] = IF Covers(list[k + 1], a) THEN list[k + 1].data[a - list[k + 1].addr] ELSE h[k][a]
            BY <1>2, <2>1
        <2>3. CASE Covers(list[k + 1], a)
            <3>1. \A j : IsLast(list, k + 1, a, j) => j = k + 1
                BY <2>1, <2>3 DEF IsLast
            <3>2. k + 1 \in 1 .. k + 1
                BY <2>1
            <3> QED
                BY <2>1, <2>2, <2>3, <3>1, <3>2
        <2>4. CASE ~Covers(list[k + 1], a)
            <3>1. \A j : IsLast(list, k + 1, a, j) => IsLast(list, k, a, j)
                BY <2>1, <2>4 DEF IsLast
            <3>2. \A j \in 1 .. k : j \in 1 .. k + 1
                BY <2>1
            <3>3. h[k + 1][a] = h[k][a]
                BY <2>2, <2>4
            <3> QED
                BY <2>1, <3>1, <3>2, <3>3
        <2> QED
            BY <2>3, <2>4
    <1>5. n \in S
        <2> HIDE DEF S, n
        <2>1. n \in Nat
            BY DEF n
        <2>2. 0 .. n \subseteq S
            BY <1>3, <1>4, <2>1, Induction
        <2> QED
            BY <2>1, <2>2
    <1> QED
        BY <1>1, <1>5
-----------------------------------------------------------------------------

Bufs == UNION {[0 .. n - 1 -> Nat] : n \in Nat}

Entries == [id : Nat, addr : Nat, size : Nat, data : Bufs, written : BOOLEAN, odata : Bufs]

\* An entry ends before the last address, and not at 0.
GoodEntry(e) ==
    /\ e.id \in Nat /\ Writable(e) /\ 1 <= Stop(e) /\ Stop(e) <= W - 1
    /\ e.odata \in [0 .. e.size - 1 -> Nat] /\ e.written \in BOOLEAN

\* The list of entries, with ids that go up and are below m.
GoodList(c, m) ==
    /\ c \in Seq(Entries)
    /\ \A k \in DOMAIN c : GoodEntry(c[k]) /\ c[k].id < m
    /\ \A j, k \in DOMAIN c : j < k => c[j].id < c[k].id

\* The skyline of the entries.
CacheShows(c, sky) == Shows(c, sky, W - 1)

\* The smaller of two numbers.
LEMMA MinIs ==
    ASSUME NEW x \in Int, NEW y \in Int
    PROVE  Cache!Min({x, y}) = IF x <= y THEN x ELSE y
    <1> DEFINE z == IF x <= y THEN x ELSE y
               S == {x, y}
    <1>1. z \in S /\ \A v \in S : z <= v
        OBVIOUS
    <1>2. \A v \in S : (\A w \in S : v <= w) => v = z
        OBVIOUS
    <1>3. (CHOOSE v \in S : \A w \in S : v <= w) = z
        <2> HIDE DEF z, S
        <2> QED
            BY <1>1, <1>2
    <1> QED
        BY <1>3 DEF Cache!Min

\* No two entries have the same id.
LEMMA OneEntry ==
    ASSUME NEW c, NEW m, GoodList(c, m), NEW j \in DOMAIN c, NEW k \in DOMAIN c, c[j].id = c[k].id
    PROVE  j = k
    <1>1. j \in Nat /\ k \in Nat /\ c[j].id \in Nat /\ c[k].id \in Nat
        BY DEF GoodList, GoodEntry
    <1> QED
        BY <1>1 DEF GoodList

\* The entry that an id names is the one that has it.
LEMMA EntryIs ==
    ASSUME NEW c, NEW m, GoodList(c, m), NEW k \in DOMAIN c
    PROVE  Cache!Entry(c, c[k].id) = c[k]
    <1> DEFINE T == Cache!ToSet(c)
    <1>1. c[k] \in T /\ \A e \in T : \E j \in DOMAIN c : e = c[j]
        BY DEF Cache!ToSet
    <1>2. \A e \in T : e.id = c[k].id => e = c[k]
        BY <1>1, OneEntry
    <1> HIDE DEF T
    <1> QED
        BY <1>1, <1>2 DEF Cache!Entry, T

\* A part of the skyline within its entry.
Piece(c, p) ==
    /\ p.addr \in Nat /\ p.size \in Nat /\ p.user \in Nat /\ Writable(Cache!Entry(c, p.user))
    /\ Cache!Entry(c, p.user).addr <= p.addr /\ Stop(p) <= Stop(Cache!Entry(c, p.user))

IsBuf(buf, len) == buf \in [0 .. len - 1 -> Nat]

\* The byte of the entry of a part at an address.
ByteOf(c, p, a) == Cache!Entry(c, p.user).data[a - Cache!Entry(c, p.user).addr]

\* A round of the loop copies the bytes of a part.
LEMMA CopyPartFacts ==
    ASSUME NEW c, NEW p, Piece(c, p), NEW addr \in Nat, NEW len \in Nat, NEW buf, IsBuf(buf, len)
    PROVE  /\ IsBuf(Cache!CopyPart(c, p, addr, len, buf), len)
           /\ \A i \in 0 .. len - 1 : Cache!CopyPart(c, p, addr, len, buf)[i]
                                        = IF Covers(p, addr + i) THEN ByteOf(c, p, addr + i) ELSE buf[i]
    <1> DEFINE e == Cache!Entry(c, p.user)
    <1>0. e = Cache!Entry(c, p.user) /\ DOMAIN buf = 0 .. len - 1 /\ \A i \in 0 .. len - 1 : buf[i] \in Nat
        BY DEF IsBuf
    <1>10. /\ p.addr \in Nat /\ p.size \in Nat /\ Writable(e) /\ e.addr <= p.addr /\ Stop(p) <= Stop(e)
        BY DEF Piece
    <1> DEFINE off == IF p.addr > addr THEN p.addr - addr ELSE 0
               shift == IF p.addr < addr THEN addr - p.addr ELSE 0
               n == Cache!Min({len - off, p.size - shift})
               from == (p.addr - e.addr) + shift
    <1>1. Cache!CopyPart(c, p, addr, len, buf)
            = [i \in 0 .. len - 1 |-> IF i >= off /\ i < off + n THEN e.data[(i - off) + from] ELSE buf[i]]
        BY <1>0 DEF Cache!CopyPart
    <1> HIDE DEF e
    <1>2. e.addr \in Nat /\ e.size \in Nat /\ e.data \in [0 .. e.size - 1 -> Nat]
        BY <1>10 DEF Writable
    <1>3. off \in Nat /\ shift \in Nat /\ len - off \in Int /\ p.size - shift \in Int /\ from \in Int
        <2>1. off \in Nat /\ shift \in Nat
            BY <1>10
        <2> HIDE DEF off, shift
        <2> QED
            BY <2>1, <1>2, <1>10
    <1>4. n = IF len - off <= p.size - shift THEN len - off ELSE p.size - shift
        <2> HIDE DEF off, shift
        <2> QED
            BY <1>3, MinIs
    <1> HIDE DEF n
    <1>5. ASSUME NEW i \in 0 .. len - 1
          PROVE  /\ (i >= off /\ i < off + n) <=> Covers(p, addr + i)
                 /\ (i - off) + from = (addr + i) - e.addr
        <2>2. /\ off = IF p.addr > addr THEN p.addr - addr ELSE 0
              /\ shift = IF p.addr < addr THEN addr - p.addr ELSE 0
            OBVIOUS
        <2> HIDE DEF off, shift
        <2> DEFINE pa == p.addr  ps == p.size  ea == e.addr
        <2>3. pa \in Nat /\ ps \in Nat /\ ea \in Nat /\ i \in Nat /\ i < len
            BY <1>2, <1>10
        <2>4. /\ off = IF pa > addr THEN pa - addr ELSE 0
              /\ shift = IF pa < addr THEN addr - pa ELSE 0
              /\ n = IF len - off <= ps - shift THEN len - off ELSE ps - shift
            BY <2>2, <1>4
        <2> HIDE DEF pa, ps, ea
        <2>5. /\ (i >= off /\ i < off + n) <=> (pa <= addr + i /\ addr + i < pa + ps)
              /\ (i - off) + ((pa - ea) + shift) = (addr + i) - ea
            BY ONLY <2>3, <2>4, addr \in Nat, len \in Nat
        <2> QED
            BY <2>5 DEF pa, ps, ea, Covers, Stop
    <1> HIDE DEF off, shift, from
    <1> DEFINE r == Cache!CopyPart(c, p, addr, len, buf)
    <1>6. DOMAIN r = 0 .. len - 1 /\ r = [i \in 0 .. len - 1 |-> r[i]]
        BY <1>1
    <1>7. ASSUME NEW i \in 0 .. len - 1
          PROVE  r[i] = IF Covers(p, addr + i) THEN e.data[(addr + i) - e.addr] ELSE buf[i]
        <2>1. r[i] = IF i >= off /\ i < off + n THEN e.data[(i - off) + from] ELSE buf[i]
            BY <1>1
        <2> HIDE DEF r
        <2> QED
            BY <2>1, <1>5
    <1> HIDE DEF r
    <1>8. ASSUME NEW i \in 0 .. len - 1, Covers(p, addr + i) PROVE e.data[(addr + i) - e.addr] \in Nat
        <2>3. p.addr <= addr + i /\ addr + i < p.addr + p.size /\ p.addr + p.size <= e.addr + e.size
            BY <1>8, <1>10 DEF Covers, Stop
        <2>4. addr + i \in Nat
            OBVIOUS
        <2>2. (addr + i) - e.addr \in 0 .. e.size - 1
            BY ONLY <1>2, <1>10, <2>3, <2>4
        <2> QED
            BY <1>2, <2>2
    <1>9. ASSUME NEW i \in 0 .. len - 1 PROVE r[i] \in Nat
        BY <1>7, <1>8, <1>0
    <1>11. r \in [0 .. len - 1 -> Nat]
        BY <1>6, <1>9
    <1> QED
        BY <1>7, <1>11 DEF r, e, ByteOf, IsBuf

\* A part of the skyline and the entry it is of.
LEMMA PartEntry ==
    ASSUME NEW c, NEW m, NEW sky, GoodList(c, m), CacheShows(c, sky), NEW i \in DOMAIN sky
    PROVE  Piece(c, sky[i]) /\ sky[i] \in Parts
    <1>1. PICK k \in DOMAIN c : c[k].id = sky[i].user /\ c[k].addr <= sky[i].addr /\ Stop(sky[i]) <= Stop(c[k])
        BY DEF CacheShows, Shows
    <1>2. Cache!Entry(c, sky[i].user) = c[k]
        BY <1>1, EntryIs
    <1>3. Writable(c[k])
        BY DEF GoodList, GoodEntry
    <1>4. sky[i] \in Parts
        BY DEF CacheShows, Shows, Tidy
    <1> QED
        BY <1>1, <1>2, <1>3, <1>4, PartFacts DEF Piece

ReadLoop(h, c, sky, addr, len, buf) ==
    /\ h \in [0 .. Len(sky) -> [0 .. len - 1 -> Nat]] /\ h[0] = buf
    /\ \A k \in 1 .. Len(sky) :
         h[k] = IF k >= Cache!FirstPart(sky, addr, len) /\ sky[k].addr <= addr + len
                THEN Cache!CopyPart(c, sky[k], addr, len, h[k - 1]) ELSE h[k - 1]

\* The rounds of the loop of rz_io_cache_read.
LEMMA ReadSteps ==
    ASSUME NEW c, NEW m, NEW sky, GoodList(c, m), CacheShows(c, sky), NEW addr \in Nat, NEW len \in Nat,
           NEW buf, IsBuf(buf, len),
           Cache!FirstPart(sky, addr, len) # 0
    PROVE  \E h : ReadLoop(h, c, sky, addr, len, buf) /\ Cache!CacheRead(c, sky, addr, len, buf).buf = h[Len(sky)]
    <1> DEFINE n == Len(sky)
               first == Cache!FirstPart(sky, addr, len)
               V == [0 .. len - 1 -> Nat]
               Round(k, x) == IF k >= first /\ sky[k].addr <= addr + len
                              THEN Cache!CopyPart(c, sky[k], addr, len, x) ELSE x
               Is(h) == h = [k \in 0 .. n |-> IF k = 0 THEN buf ELSE Round(k, h[k - 1])]
               G == [b \in (1 .. n) \X V |-> Round(b[1], b[2])]
    <1>1. Cache!CacheRead(c, sky, addr, len, buf).buf = (CHOOSE h : Is(h))[n]
        BY DEF Cache!CacheRead
    <1>0. n \in Nat /\ DOMAIN sky = 1 .. n
        BY DEF CacheShows, Shows, Tidy
    <1>2. ASSUME NEW k \in 1 .. n, NEW x \in V PROVE Round(k, x) \in V
        <2>1. Piece(c, sky[k])
            BY <1>0, PartEntry
        <2>3. IsBuf(Cache!CopyPart(c, sky[k], addr, len, x), len)
            BY <2>1, CopyPartFacts DEF IsBuf
        <2> QED
            BY <2>3 DEF IsBuf
    <1>3. \A k \in 1 .. n : \A x \in V : G[<<k, x>>] = Round(k, x)
        OBVIOUS
    <1> HIDE DEF G, Round, V
    <1>4. PICK g \in [0 .. n -> V] : g[0] = buf /\ \A k \in 1 .. n : g[k] = G[<<k, g[k - 1]>>]
        <2>1. Loops(V, n, G)
            BY <1>2, <1>3 DEF Loops
        <2>2. n \in Nat /\ buf \in V
            BY <1>0 DEF V, IsBuf
        <2> HIDE DEF n
        <2> QED
            BY <2>1, <2>2, LoopExists DEF IsLoop
    <1>5. Is(g)
        <2>1. ASSUME NEW k \in 0 .. n, k # 0 PROVE g[k] = Round(k, g[k - 1])
            <3>1. k \in 1 .. n /\ k - 1 \in 0 .. n
                BY <2>1, <1>0
            <3>2. g[k - 1] \in V
                BY <3>1, <1>4
            <3> QED
                BY <3>1, <3>2, <1>3, <1>4
        <2>2. \A k \in 0 .. n : g[k] = IF k = 0 THEN buf ELSE Round(k, g[k - 1])
            BY <2>1, <1>4
        <2> QED
            BY <1>4, <2>2
    <1> DEFINE h == CHOOSE x : Is(x)
    <1>6. Is(h)
        <2> HIDE DEF Is
        <2> QED
            BY <1>5
    <1> HIDE DEF h
    <1>7. h[0] = buf /\ DOMAIN h = 0 .. n
        BY <1>6, <1>0
    <1>8. ASSUME NEW k \in 1 .. n PROVE h[k] = Round(k, h[k - 1])
        <2>1. k \in 0 .. n /\ k # 0
            BY <1>0
        <2> QED
            BY <2>1, <1>6
    <1>9. h \in [0 .. n -> V]
        <2> DEFINE S == {k \in 0 .. n : h[k] \in V}
        <2>1. 0 \in S
            BY <1>7, <1>0 DEF V, IsBuf
        <2>2. \A k \in 0 .. n - 1 : k \in S => k + 1 \in S
            BY <1>8, <1>2, <1>0
        <2> HIDE DEF S
        <2>3. 0 .. n \subseteq S
            BY <2>1, <2>2, <1>0, Induction
        <2>4. \A k \in 0 .. n : h[k] \in V
            BY <2>3 DEF S
        <2>5. h = [k \in 0 .. n |-> h[k]]
            BY <1>6
        <2> QED
            BY <2>4, <2>5
    <1>10. Cache!CacheRead(c, sky, addr, len, buf).buf = h[n]
        BY <1>1 DEF h
    <1> QED
        BY <1>7, <1>8, <1>9, <1>10 DEF Round, V, ReadLoop

\* Where the reading begins.
LEMMA FirstPartFacts ==
    ASSUME WAssumption, NEW sky, Tidy(sky, W - 1), NEW addr \in Nat, NEW len \in Nat \ {0}, addr + len < W
    PROVE  LET first == Cache!FirstPart(sky, addr, len)
           IN  /\ first \in 0 .. Len(sky)
               /\ first = 0 => \A k \in DOMAIN sky : Stop(sky[k]) <= addr \/ addr + len <= sky[k].addr
               /\ \A k \in 1 .. first - 1 : Stop(sky[k]) <= addr
    <1> DEFINE i == LowerBound(Len(sky), {j \in DOMAIN sky : addr >= End(sky[j]) /\ End(sky[j]) # 0})
               first == Cache!FirstPart(sky, addr, len)
    <1>1. first = IF len # 0 /\ i < Len(sky) /\ ((addr + len) % W = 0 \/ sky[i + 1].addr < (addr + len) % W)
                  THEN i + 1 ELSE 0
        BY CacheBoundIs DEF Cache!FirstPart, Cache!End, End
    <1>2. addr \in Addr /\ W - 1 \in 0 .. W - 1 /\ W \in Nat \ {0}
        BY DEF Addr, WAssumption
    <1>3. /\ i \in 0 .. Len(sky) /\ \A k \in 1 .. i : Stop(sky[k]) <= addr
          /\ \A k \in i + 1 .. Len(sky) : addr < Stop(sky[k])
        BY <1>2, FirstBeyond
    <1>4. (addr + len) % W = addr + len
        <2>1. addr + len \in 0 .. W - 1
            BY <1>2
        <2> QED
            BY <2>1, <1>2, ModFacts
    <1> HIDE DEF i
    <1>5. first = IF i < Len(sky) /\ sky[i + 1].addr < addr + len THEN i + 1 ELSE 0
        BY <1>1, <1>4, <1>2
    <1> HIDE DEF first
    <1>6. Len(sky) \in Nat /\ DOMAIN sky = 1 .. Len(sky)
        BY DEF Tidy
    <1>7. \A j, k \in DOMAIN sky : j < k => sky[j].addr \in Nat /\ sky[k].addr \in Nat /\ sky[j].addr <= sky[k].addr
        <2> SUFFICES ASSUME NEW j \in DOMAIN sky, NEW k \in DOMAIN sky, j < k
                     PROVE  sky[j].addr \in Nat /\ sky[k].addr \in Nat /\ sky[j].addr <= sky[k].addr
            OBVIOUS
        <2>1. sky[j] \in Parts /\ sky[k] \in Parts /\ Stop(sky[j]) <= sky[k].addr
            BY DEF Tidy, InOrder
        <2> QED
            BY <2>1 DEF Parts, Stop
    <1>8. ASSUME first = 0, NEW k \in DOMAIN sky PROVE Stop(sky[k]) <= addr \/ addr + len <= sky[k].addr
        <2>1. CASE k <= i
            BY <2>1, <1>3, <1>6
        <2>2. CASE k > i
            <3>1. i + 1 \in DOMAIN sky /\ ~(sky[i + 1].addr < addr + len) /\ (k = i + 1 \/ i + 1 < k)
                BY <2>2, <1>3, <1>5, <1>6, <1>8
            <3>2. sky[k] \in Parts /\ sky[i + 1] \in Parts
                BY <3>1 DEF Tidy
            <3>3. sky[k].addr \in Nat /\ sky[i + 1].addr \in Nat
                BY <3>2, PartFacts
            <3> QED
                BY <3>1, <3>3, <1>7
        <2> QED
            BY <2>1, <2>2, <1>3, <1>6
    <1>9. first \in 0 .. Len(sky) /\ \A k \in 1 .. first - 1 : Stop(sky[k]) <= addr
        BY <1>3, <1>5, <1>6
    <1> QED
        BY <1>8, <1>9 DEF first

\* Reading a byte below.
LEMMA FileReadIs ==
    ASSUME WAssumption, NEW f \in Bytes, NEW addr \in Nat, NEW len \in Nat, addr + len < W
    PROVE  /\ Cache!FileRead(f, addr, len) \in [0 .. len - 1 -> Nat]
           /\ \A i \in 0 .. len - 1 : Cache!FileRead(f, addr, len)[i] = f[addr + i] /\ addr + i \in Addr
    <1>1. ASSUME NEW i \in 0 .. len - 1 PROVE f[(addr + i) % W] = f[addr + i] /\ f[addr + i] \in Nat /\ addr + i \in Addr
        <2>1. addr + i \in 0 .. W - 1
            BY DEF WAssumption
        <2>2. (addr + i) % W = addr + i
            BY <2>1, ModFacts DEF WAssumption
        <2> QED
            BY <2>1, <2>2 DEF Bytes, Addr
    <1> QED
        BY <1>1 DEF Cache!FileRead

\* A read through the cache gives the bytes that the entries leave.
LEMMA ReadFacts ==
    ASSUME WAssumption, NEW c, NEW m, NEW sky, GoodList(c, m), CacheShows(c, sky), NEW f \in Bytes,
           NEW addr \in Nat, NEW len \in Nat \ {0}, addr + len < W
    PROVE  LET buf == Cache!CacheRead(c, sky, addr, len, Cache!FileRead(f, addr, len)).buf
           IN  buf \in [0 .. len - 1 -> Nat] /\ buf = Cache!FileRead(Cache!PutAll(f, c), addr, len)
    <1> DEFINE below == Cache!FileRead(f, addr, len)
               first == Cache!FirstPart(sky, addr, len)
               buf == Cache!CacheRead(c, sky, addr, len, below).buf
               D(j, i) == ByteOf(c, sky[j], addr + i)
               V == [0 .. len - 1 -> Nat]
               n == Len(sky)
    <1>1. /\ n \in Nat /\ DOMAIN sky = 1 .. n /\ len \in Nat
          /\ \A k \in 1 .. n : sky[k] \in Parts
        BY DEF CacheShows, Shows, Tidy
    <1>2. below \in V /\ \A i \in 0 .. len - 1 : below[i] = f[addr + i] /\ addr + i \in Addr
        BY <1>1, FileReadIs
    <1>3. /\ first \in 0 .. n
          /\ first = 0 => \A k \in DOMAIN sky : Stop(sky[k]) <= addr \/ addr + len <= sky[k].addr
          /\ \A k \in 1 .. first - 1 : Stop(sky[k]) <= addr
        BY FirstPartFacts DEF CacheShows, Shows
    <1>13. first = Cache!FirstPart(sky, addr, len) /\ (first = 0 => buf = below)
        BY DEF Cache!CacheRead
    <1> HIDE DEF first
    <1>4. \A j, k \in 1 .. n, i \in 0 .. len - 1 :
             Covers(sky[j], addr + i) /\ Covers(sky[k], addr + i) => j = k
        <2> SUFFICES ASSUME NEW j \in 1 .. n, NEW k \in 1 .. n, NEW i \in 0 .. len - 1,
                            Covers(sky[j], addr + i), Covers(sky[k], addr + i)
                     PROVE  j = k
            OBVIOUS
        <2>1. addr + i \in Nat /\ j \in DOMAIN sky /\ k \in DOMAIN sky
            BY <1>1
        <2> QED
            BY <2>1, OneUser DEF CacheShows, Shows
    <1>5. /\ buf \in V
          /\ \A i \in 0 .. len - 1 :
               /\ \A j \in 1 .. n : Covers(sky[j], addr + i) => buf[i] = D(j, i)
               /\ (\A j \in 1 .. n : ~Covers(sky[j], addr + i)) => buf[i] = below[i]
        <2>1. CASE first = 0
            <3>1. buf = below
                BY <2>1, <1>13
            <3>2. ASSUME NEW k \in 1 .. n, NEW i \in 0 .. len - 1 PROVE ~Covers(sky[k], addr + i)
                <4>1. sky[k].addr \in Nat /\ Stop(sky[k]) \in Nat
                    BY <1>1, PartFacts
                <4>2. Stop(sky[k]) <= addr \/ addr + len <= sky[k].addr
                    BY <2>1, <1>3, <1>1
                <4> QED
                    BY <4>1, <4>2, <1>1 DEF Covers
            <3> HIDE DEF buf, below, D
            <3> QED
                BY <3>1, <3>2, <1>2
        <2>2. CASE first # 0
            <3>1. PICK h \in [0 .. n -> V] :
                     /\ h[0] = below /\ buf = h[n]
                     /\ \A k \in 1 .. n : h[k] = IF k >= first /\ sky[k].addr <= addr + len
                                                 THEN Cache!CopyPart(c, sky[k], addr, len, h[k - 1]) ELSE h[k - 1]
                <4> HIDE DEF below
                <4>1. IsBuf(below, len)
                    BY <1>2 DEF IsBuf
                <4>2. PICK h : ReadLoop(h, c, sky, addr, len, below) /\ buf = h[n]
                    BY <2>2, <1>1, <1>13, <4>1, ReadSteps
                <4> QED
                    BY <4>2, <1>13 DEF ReadLoop
            <3> HIDE DEF buf, below
            <3>2. ASSUME NEW k \in 1 .. n, NEW i \in 0 .. len - 1
                  PROVE  h[k][i] = IF Covers(sky[k], addr + i) THEN D(k, i) ELSE h[k - 1][i]
                <4>1. Piece(c, sky[k]) /\ sky[k].addr \in Nat
                    BY <1>1, PartEntry, PartFacts
                <4>2. IsBuf(h[k - 1], len)
                    <5>1. k - 1 \in 0 .. n
                        BY <1>1
                    <5> QED
                        BY <5>1 DEF IsBuf
                <4>3. CASE k >= first /\ sky[k].addr <= addr + len
                    <5>1. h[k] = Cache!CopyPart(c, sky[k], addr, len, h[k - 1])
                        BY <4>3, <3>1
                    <5> QED
                        BY <5>1, <4>1, <4>2, <1>1, CopyPartFacts
                <4>4. CASE ~(k >= first /\ sky[k].addr <= addr + len)
                    <5>1. h[k] = h[k - 1]
                        BY <4>4, <3>1
                    <5>2. Stop(sky[k]) \in Nat /\ first \in Nat
                        BY <1>1, <1>3, PartFacts
                    <5>3. Stop(sky[k]) <= addr \/ addr + len < sky[k].addr
                        BY <4>1, <4>4, <1>1, <1>3, <5>2
                    <5>4. ~Covers(sky[k], addr + i)
                        BY <5>2, <5>3, <4>1, <1>1 DEF Covers
                    <5> QED
                        BY <5>1, <5>4
                <4> QED
                    BY <4>3, <4>4
            <3> HIDE DEF D
            <3> DEFINE Good(k) == \A i \in 0 .. len - 1 :
                                    /\ \A j \in 1 .. k : Covers(sky[j], addr + i) => h[k][i] = D(j, i)
                                    /\ (\A j \in 1 .. k : ~Covers(sky[j], addr + i)) => h[k][i] = below[i]
                       S == {k \in 0 .. n : Good(k)}
            <3>3. 0 \in S
                BY <3>1, <1>1
            <3>4. ASSUME NEW k \in 0 .. n - 1, k \in S PROVE k + 1 \in S
                <4>1. Good(k) /\ k + 1 \in 1 .. n /\ k \in Nat /\ (k + 1) - 1 = k
                    BY <3>4, <1>1
                <4> SUFFICES ASSUME NEW i \in 0 .. len - 1
                             PROVE  /\ \A j \in 1 .. k + 1 : Covers(sky[j], addr + i) => h[k + 1][i] = D(j, i)
                                    /\ (\A j \in 1 .. k + 1 : ~Covers(sky[j], addr + i)) => h[k + 1][i] = below[i]
                    BY <1>1
                <4>2. h[k + 1][i] = IF Covers(sky[k + 1], addr + i) THEN D(k + 1, i) ELSE h[k][i]
                    BY <3>2, <4>1
                <4>3. \A j \in 1 .. k + 1 : j \in 1 .. n /\ (j = k + 1 \/ j \in 1 .. k)
                    BY <4>1, <1>1
                <4>4. \A j \in 1 .. k : j \in 1 .. k + 1
                    BY <4>1
                <4>6. k + 1 \in 1 .. k + 1
                    BY <4>1
                <4>5. CASE Covers(sky[k + 1], addr + i)
                    BY <4>5, <4>1, <4>2, <4>3, <4>6, <1>4
                <4>7. CASE ~Covers(sky[k + 1], addr + i)
                    <5>1. h[k + 1][i] = h[k][i]
                        BY <4>7, <4>2
                    <5>2. /\ \A j \in 1 .. k : Covers(sky[j], addr + i) => h[k][i] = D(j, i)
                          /\ (\A j \in 1 .. k : ~Covers(sky[j], addr + i)) => h[k][i] = below[i]
                        BY <4>1
                    <5> QED
                        BY <5>1, <5>2, <4>7, <4>3, <4>4
                <4> QED
                    BY <4>5, <4>7
            <3>5. n \in S
                <4> HIDE DEF S, n
                <4>1. 0 .. n \subseteq S
                    BY <3>3, <3>4, <1>1, Induction
                <4> QED
                    BY <1>1, <4>1
            <3>6. h[n] \in V
                BY <1>1
            <3> QED
                BY <3>1, <3>5, <3>6
        <2> QED
            BY <2>1, <2>2
    <1> DEFINE g == Cache!PutAll(f, c)
    <1>6. Len(c) \in Nat /\ \A k \in 1 .. Len(c) : Writable(c[k]) /\ Stop(c[k]) <= W
        <2>1. Len(c) \in Nat /\ DOMAIN c = 1 .. Len(c)
            BY DEF GoodList
        <2>2. ASSUME NEW k \in 1 .. Len(c) PROVE Writable(c[k]) /\ Stop(c[k]) <= W
            <3>1. Writable(c[k]) /\ Stop(c[k]) <= W - 1 /\ c[k].addr \in Nat /\ c[k].size \in Nat
                BY <2>1 DEF GoodList, GoodEntry, Writable
            <3>2. Stop(c[k]) \in Nat
                BY <3>1 DEF Stop
            <3> QED
                BY <3>1, <3>2 DEF WAssumption
        <2> QED
            BY <2>1, <2>2
    <1>7. g \in Bytes
        BY <1>6, PutAllSteps
    <1>8. \A i \in 0 .. len - 1 : Cache!FileRead(g, addr, len)[i] = g[addr + i]
        BY <1>7, <1>1, FileReadIs
    <1>9. Cache!FileRead(g, addr, len) \in V
        BY <1>7, <1>1, FileReadIs
    <1>10. ASSUME NEW i \in 0 .. len - 1 PROVE buf[i] = g[addr + i]
        <2> DEFINE a == addr + i
        <2>1. a \in Addr /\ a \in Nat /\ below[i] = f[a]
            BY <1>1, <1>2
        <2>2. /\ \A j : IsLast(c, Len(c), a, j) => g[a] = c[j].data[a - c[j].addr]
              /\ (\A j \in 1 .. Len(c) : ~Covers(c[j], a)) => g[a] = f[a]
            BY <1>6, <2>1, PutAllFacts
        <2> HIDE DEF g, buf, below
        <2>3. CASE \E j \in 1 .. n : Covers(sky[j], a)
            <3>1. PICK j \in 1 .. n : Covers(sky[j], a)
                BY <2>3
            <3>2. Has(sky, a, sky[j].user)
                BY <3>1, <1>1 DEF Has
            <3>3. PICK k : IsLast(c, Len(c), a, k) /\ c[k].id = sky[j].user
                BY <3>2, <2>1 DEF CacheShows, Shows
            <3>4. k \in DOMAIN c
                BY <3>3 DEF IsLast, GoodList
            <3>5. Cache!Entry(c, sky[j].user) = c[k]
                BY <3>3, <3>4, EntryIs
            <3>6. D(j, i) = c[k].data[a - c[k].addr]
                BY <3>5 DEF ByteOf
            <3> HIDE DEF D
            <3> QED
                BY <3>1, <3>3, <3>6, <2>2, <1>5
        <2>4. CASE \A j \in 1 .. n : ~Covers(sky[j], a)
            <3>1. \A u : ~Has(sky, a, u)
                BY <2>4, <1>1 DEF Has
            <3>2. \A k : ~IsLast(c, Len(c), a, k)
                BY <3>1, <2>1 DEF CacheShows, Shows
            <3>3. \A j \in 1 .. Len(c) : ~Covers(c[j], a)
                BY <3>2, <1>6, LastExists
            <3> QED
                BY <3>3, <2>1, <2>2, <2>4, <1>5
        <2> QED
            BY <2>3, <2>4
    <1>11. buf \in V
        BY <1>5
    <1> HIDE DEF buf, below, g
    <1>12. buf = Cache!FileRead(g, addr, len)
        <2> DEFINE r == Cache!FileRead(g, addr, len)
        <2>1. r \in V /\ \A i \in 0 .. len - 1 : buf[i] = r[i]
            BY <1>8, <1>9, <1>10
        <2> HIDE DEF r
        <2>2. buf = r
            BY <2>1, <1>11
        <2> QED
            BY <2>2 DEF r
    <1> QED
        BY <1>11, <1>12 DEF buf, below, g

\* An empty cache.
LEMMA EmptyCache ==
    ASSUME NEW m
    PROVE  GoodList(<<>>, m) /\ CacheShows(<<>>, <<>>)
    BY EmptyShows DEF GoodList, CacheShows

\* A list of entries below m is one below a greater bound.
LEMMA MoreIds ==
    ASSUME NEW c, NEW m \in Nat, GoodList(c, m), NEW k \in Nat, m <= k
    PROVE  GoodList(c, k)
    <1>1. \A i \in DOMAIN c : c[i].id \in Nat
        BY DEF GoodList, GoodEntry
    <1> QED
        BY <1>1 DEF GoodList

\* An entry goes to the top.
LEMMA EntryAdded ==
    ASSUME WAssumption, NEW c, NEW sky, NEW m \in Nat, GoodList(c, m), CacheShows(c, sky),
           NEW e \in Entries, GoodEntry(e), m <= e.id
    PROVE  /\ GoodList(Append(c, e), e.id + 1)
           /\ CacheShows(Append(c, e), SkylineAdd(sky, e, e.id))
    <1> DEFINE d == Append(c, e)
               n == Len(c)
    <1>1. /\ c \in Seq(Entries) /\ n \in Nat /\ DOMAIN c = 1 .. n /\ d \in Seq(Entries) /\ Len(d) = n + 1
          /\ DOMAIN d = 1 .. n + 1 /\ d[n + 1] = e /\ \A k \in 1 .. n : d[k] = c[k]
        BY DEF GoodList
    <1>2. e.id \in Nat /\ e.addr \in Nat /\ e.size \in Nat /\ Stop(e) \in Nat
        BY DEF Entries, Stop
    <1> HIDE DEF d, n
    <1>4. GoodList(d, e.id + 1)
        <2>1. \A k \in 1 .. n : GoodEntry(c[k]) /\ c[k].id < m /\ c[k].id \in Nat
            BY <1>1 DEF GoodList, GoodEntry
        <2>2. ASSUME NEW k \in 1 .. n + 1 PROVE GoodEntry(d[k]) /\ d[k].id < e.id + 1
            <3>1. CASE k \in 1 .. n
                <4>1. d[k] = c[k] /\ GoodEntry(c[k]) /\ c[k].id < m /\ c[k].id \in Nat
                    BY <3>1, <1>1, <2>1
                <4> QED
                    BY <4>1, <1>2
            <3>2. CASE k = n + 1
                BY <3>2, <1>1, <1>2
            <3> QED
                BY <3>1, <3>2, <1>1
        <2>3. ASSUME NEW j \in 1 .. n + 1, NEW k \in 1 .. n + 1, j < k PROVE d[j].id < d[k].id
            <3>1. CASE k = n + 1
                <4>1. j \in 1 .. n /\ d[j] = c[j] /\ d[k] = e
                    BY <3>1, <2>3, <1>1
                <4>2. c[j].id < m /\ c[j].id \in Nat
                    BY <4>1, <2>1
                <4> QED
                    BY <4>1, <4>2, <1>2
            <3>2. CASE k # n + 1
                BY <3>2, <2>3, <1>1 DEF GoodList
            <3> QED
                BY <3>1, <3>2
        <2> QED
            BY <1>1, <2>2, <2>3 DEF GoodList
    <1>5. /\ \A k \in DOMAIN c : Ranged(c[k], W - 1)
          /\ Ranged(e, W - 1) /\ W - 1 \in 0 .. W - 1
        BY DEF GoodList, GoodEntry, Writable, Ranged, Fit, WAssumption
    <1>6. Shows(Append(c, e), SkylineAdd(sky, e, e.id), W - 1)
        BY <1>1, <1>5, ShownAdded DEF CacheShows
    <1> QED
        BY <1>4, <1>6 DEF d, CacheShows

\* The end of rz_io_cache_write.
LEMMA AddEntryFacts ==
    ASSUME WAssumption, file \in Bytes, NEW s, NEW m \in Nat, GoodList(s.cache, m), CacheShows(s.cache, s.skyline),
           NEW id \in Nat, m <= id, NEW addr \in Nat, NEW len \in Nat, 1 <= addr + len, addr + len <= W - 1,
           NEW data, IsBuf(data, len)
    PROVE  /\ GoodList(Cache!AddEntry(s, id, addr, len, data).cache, id + 1)
           /\ CacheShows(Cache!AddEntry(s, id, addr, len, data).cache, Cache!AddEntry(s, id, addr, len, data).skyline)
           /\ \E odata : /\ IsBuf(odata, len)
                         /\ Cache!AddEntry(s, id, addr, len, data).cache =
                            Append(s.cache, [id |-> id, addr |-> addr, size |-> len, data |-> data,
                                             written |-> FALSE, odata |-> odata])
    <1> DEFINE odata == IF len = 0 THEN data ELSE Cache!ReadAtMapped(cached, file, s.cache, s.skyline, addr, len)
               e == [id |-> id, addr |-> addr, size |-> len, data |-> data, written |-> FALSE, odata |-> odata]
    <1>1. /\ Cache!AddEntry(s, id, addr, len, data).cache = Append(s.cache, e)
          /\ Cache!AddEntry(s, id, addr, len, data).skyline = SkylineAdd(s.skyline, e, id)
        BY CacheAddIs DEF Cache!AddEntry
    <1>2. IsBuf(odata, len)
        <2>1. CASE len = 0
            BY <2>1
        <2>2. CASE len # 0
            <3>1. len \in Nat \ {0} /\ addr + len < W
                BY <2>2 DEF WAssumption
            <3>2. Cache!FileRead(file, addr, len) \in [0 .. len - 1 -> Nat]
                BY <3>1, FileReadIs
            <3>3. Cache!CacheRead(s.cache, s.skyline, addr, len, Cache!FileRead(file, addr, len)).buf
                    \in [0 .. len - 1 -> Nat]
                BY <3>1, ReadFacts
            <3> QED
                BY <2>2, <3>2, <3>3 DEF Cache!ReadAtMapped, IsBuf
        <2> QED
            BY <2>1, <2>2
    <1> HIDE DEF odata
    <1>3. data \in Bufs /\ odata \in Bufs
        BY <1>2 DEF IsBuf, Bufs
    <1>4. e \in Entries
        BY <1>3 DEF Entries
    <1>5. GoodEntry(e)
        BY <1>2 DEF GoodEntry, Writable, Stop, IsBuf
    <1>6. e.id = id
        OBVIOUS
    <1> HIDE DEF e
    <1>7. GoodList(Append(s.cache, e), id + 1) /\ CacheShows(Append(s.cache, e), SkylineAdd(s.skyline, e, id))
        BY <1>4, <1>5, <1>6, EntryAdded
    <1> QED
        BY <1>1, <1>2, <1>7 DEF e

\* rz_io_cache_write: what goes past the last address is an entry of its own.
LEMMA CacheWriteFacts ==
    ASSUME WAssumption, file \in Bytes, NEW s, NEW n \in Nat, GoodList(s.cache, 2 * n), CacheShows(s.cache, s.skyline),
           NEW addr \in Addr, NEW len \in Addr \ {0}, NEW data, IsBuf(data, len)
    PROVE  /\ GoodList(Cache!CacheWrite(s, n, addr, len, data).cache, 2 * (n + 1))
           /\ CacheShows(Cache!CacheWrite(s, n, addr, len, data).cache, Cache!CacheWrite(s, n, addr, len, data).skyline)
    <1>1. /\ addr \in Nat /\ len \in Nat /\ 1 <= len /\ addr <= W - 1 /\ len <= W - 1 /\ W \in Nat
          /\ 2 * n \in Nat /\ (2 * n) + 1 \in Nat /\ 2 * (n + 1) = (2 * n) + 2
        BY DEF Addr, WAssumption
    <1>2. CASE W - 1 - addr < len
        <2> DEFINE first == W - 1 - addr
                   lowdata == [i \in 0 .. (len - first) - 1 |-> data[first + i]]
                   highdata == [i \in 0 .. first - 1 |-> data[i]]
                   low == Cache!AddEntry(s, 2 * n, 0, len - first, lowdata)
                   high == Cache!AddEntry(low, (2 * n) + 1, addr, first, highdata)
        <2>1. Cache!CacheWrite(s, n, addr, len, data) = high
            BY <1>2 DEF Cache!CacheWrite
        <2>2. first \in Nat /\ len - first \in Nat /\ 1 <= len - first /\ len - first <= W - 1 /\ addr + first = W - 1
            BY <1>1, <1>2
        <2> HIDE DEF first
        <2>3. IsBuf(lowdata, len - first)
            <3>1. \A i \in 0 .. (len - first) - 1 : first + i \in 0 .. len - 1
                BY <1>1, <2>2
            <3> QED
                BY <3>1 DEF IsBuf
        <2>4. IsBuf(highdata, first)
            <3>1. \A i \in 0 .. first - 1 : i \in 0 .. len - 1
                BY <1>1, <1>2, <2>2 DEF first
            <3> QED
                BY <3>1 DEF IsBuf
        <2> HIDE DEF lowdata, highdata
        <2>5. GoodList(low.cache, (2 * n) + 1) /\ CacheShows(low.cache, low.skyline)
            <3>1. 1 <= 0 + (len - first) /\ 0 + (len - first) <= W - 1 /\ 0 \in Nat /\ 2 * n <= 2 * n
                BY <1>1, <2>2
            <3> QED
                BY <3>1, <1>1, <2>2, <2>3, AddEntryFacts
        <2> HIDE DEF low
        <2>7. 1 <= addr + first /\ addr + first <= W - 1
            BY <1>1, <2>2
        <2>8. GoodList(high.cache, ((2 * n) + 1) + 1) /\ CacheShows(high.cache, high.skyline)
            <3>1. (2 * n) + 1 <= (2 * n) + 1
                BY <1>1
            <3> QED
                BY <3>1, <1>1, <2>2, <2>4, <2>5, <2>7, AddEntryFacts
        <2>9. ((2 * n) + 1) + 1 = 2 * (n + 1)
            BY <1>1
        <2> QED
            BY <2>1, <2>8, <2>9
    <1>3. CASE ~(W - 1 - addr < len)
        <2> DEFINE one == Cache!AddEntry(s, 2 * n, addr, len, data)
        <2>1. Cache!CacheWrite(s, n, addr, len, data) = one
            BY <1>3 DEF Cache!CacheWrite
        <2>2. 1 <= addr + len /\ addr + len <= W - 1 /\ 2 * n <= 2 * n
            BY <1>1, <1>3
        <2>3. GoodList(one.cache, (2 * n) + 1) /\ CacheShows(one.cache, one.skyline)
            BY <1>1, <2>2, AddEntryFacts
        <2> HIDE DEF one
        <2>4. GoodList(one.cache, 2 * (n + 1))
            <3>1. (2 * n) + 1 <= 2 * (n + 1) /\ 2 * (n + 1) \in Nat
                BY <1>1
            <3> QED
                BY <3>1, <2>3, <1>1, MoreIds
        <2> QED
            BY <2>1, <2>3, <2>4
    <1> QED
        BY <1>2, <1>3

\* Some entries of a list.
LEMMA OnlyEntries ==
    ASSUME NEW c, NEW m, GoodList(c, m), NEW S
    PROVE  GoodList(Only(c, S), m) /\ \A k \in DOMAIN Only(c, S) : \E i \in DOMAIN c : Only(c, S)[k] = c[i]
    <1> DEFINE d == Only(c, S)
    <1>1. c \in Seq(Entries)
        BY DEF GoodList
    <1>2. PICK pos : Chosen(d, c, S, pos)
        BY <1>1, OnlyOrder
    <1>3. d \in Seq(Entries)
        BY <1>1, OnlyOrder
    <1> HIDE DEF d
    <1>4. \A k \in DOMAIN d : pos[k] \in DOMAIN c /\ d[k] = c[pos[k]] /\ k \in Nat
        BY <1>2, <1>3 DEF Chosen
    <1>5. ASSUME NEW j \in DOMAIN d, NEW k \in DOMAIN d, j < k PROVE d[j].id < d[k].id
        BY <1>2, <1>4, <1>5 DEF GoodList, Chosen
    <1>6. GoodList(d, m)
        BY <1>3, <1>4, <1>5 DEF GoodList
    <1> QED
        BY <1>4, <1>6 DEF d

\* The skyline built anew shows the entries.
LEMMA RebuiltFacts ==
    ASSUME WAssumption, NEW c, NEW m, GoodList(c, m)
    PROVE  CacheShows(c, Cache!SkylineOf(c))
    <1>1. c \in Seq(Entries) /\ W - 1 \in 0 .. W - 1 /\ \A k \in DOMAIN c : Ranged(c[k], W - 1)
        BY DEF GoodList, GoodEntry, Writable, Ranged, Fit, WAssumption
    <1> QED
        BY <1>1, CacheOfIs, SkylineOfFacts DEF CacheShows

CacheInv ==
    /\ cached \in SUBSET {"R", "W"} /\ writable \in BOOLEAN /\ i_writes \in 0 .. MaxCached
    /\ file \in Bytes
    /\ GoodList(i_cache, 2 * i_writes) /\ CacheShows(i_cache, skyline)

\* What the assumptions on the constants say.
LEMMA CacheConstants ==
    /\ WAssumption /\ W \in Nat \ {0} /\ MaxCached \in Nat /\ Cache!Addr = Addr
    /\ CacheIntervals \subseteq [addr : Addr, size : Addr \ {0}]
    /\ Modes \subseteq SUBSET {"R", "W"} /\ Perms \subseteq BOOLEAN
    BY CacheAssumption DEF Cache!IoCacheAssumption, Cache!WAssumption, WAssumption, Cache!Addr, Addr

\* The bytes of the entries of a list can be written.
LEMMA EntriesWritable ==
    ASSUME NEW c, NEW m, GoodList(c, m)
    PROVE  Len(c) \in Nat /\ \A k \in 1 .. Len(c) : Writable(c[k])
    BY DEF GoodList, GoodEntry

\* So can what they replaced.
LEMMA ReplacedWritable ==
    ASSUME NEW c, NEW m, GoodList(c, m)
    PROVE  /\ Len(Cache!Replaced(c)) = Len(c) /\ Len(c) \in Nat
           /\ \A k \in 1 .. Len(c) : /\ Writable(Cache!Replaced(c)[k])
                                     /\ Cache!Replaced(c)[k] = [addr |-> c[(Len(c) - k) + 1].addr,
                                                                size |-> c[(Len(c) - k) + 1].size,
                                                                data |-> c[(Len(c) - k) + 1].odata]
    <1>1. Len(c) \in Nat /\ DOMAIN c = 1 .. Len(c)
        BY DEF GoodList
    <1> DEFINE r == Cache!Replaced(c)
    <1>2. r = [k \in 1 .. Len(c) |-> [addr |-> c[(Len(c) - k) + 1].addr, size |-> c[(Len(c) - k) + 1].size,
                                      data |-> c[(Len(c) - k) + 1].odata]]
        BY <1>1 DEF Cache!Replaced
    <1>3. Len(r) = Len(c)
        BY <1>1, <1>2
    <1>4. ASSUME NEW k \in 1 .. Len(c) PROVE Writable(r[k])
        <2> DEFINE j == (Len(c) - k) + 1
        <2>1. j \in DOMAIN c
            BY <1>1
        <2>2. c[j].addr \in Nat /\ c[j].size \in Nat /\ c[j].odata \in [0 .. c[j].size - 1 -> Nat]
            BY <2>1 DEF GoodList, GoodEntry, Writable
        <2>3. r[k].addr = c[j].addr /\ r[k].size = c[j].size /\ r[k].data = c[j].odata
            BY <1>2
        <2> HIDE DEF r, j
        <2> QED
            BY <2>2, <2>3 DEF Writable
    <1> QED
        BY <1>1, <1>2, <1>3, <1>4

\* Writing entries to the file gives a file.
LEMMA FileWritesType ==
    ASSUME WAssumption, NEW f \in Bytes, NEW list, Len(list) \in Nat, \A k \in 1 .. Len(list) : Writable(list[k])
    PROVE  Cache!FileWrites(f, list) \in Bytes
    <1>1. Cache!PutAll(f, list) \in Bytes
        BY PutAllSteps
    <1> QED
        BY <1>1 DEF Cache!FileWrites

\* A list with the same intervals and ids shows in the same skyline.
LEMMA SameIntervals ==
    ASSUME NEW c, NEW d, NEW m, NEW sky, GoodList(c, m), CacheShows(c, sky), d \in Seq(Entries), DOMAIN d = DOMAIN c,
           \A k \in DOMAIN c : GoodEntry(d[k]) /\ d[k].id = c[k].id /\ d[k].addr = c[k].addr /\ d[k].size = c[k].size
    PROVE  GoodList(d, m) /\ CacheShows(d, sky)
    <1>1. Len(d) = Len(c) /\ DOMAIN c = 1 .. Len(c)
        BY DEF GoodList
    <1>2. \A k \in DOMAIN c : \A a : Covers(d[k], a) <=> Covers(c[k], a)
        BY DEF Covers, Stop
    <1>3. \A a, k : IsLast(d, Len(d), a, k) <=> IsLast(c, Len(c), a, k)
        BY <1>1, <1>2 DEF IsLast
    <1>4. \A a, k : IsLast(c, Len(c), a, k) => k \in DOMAIN c
        BY <1>1 DEF IsLast
    <1>5. \A k \in DOMAIN c : Stop(d[k]) = Stop(c[k])
        BY DEF Stop
    <1>6. GoodList(d, m)
        BY DEF GoodList
    <1>7. CacheShows(d, sky)
        BY <1>3, <1>4, <1>5 DEF CacheShows, Shows
    <1> QED
        BY <1>6, <1>7

\* Nothing is cached at first.
LEMMA CacheInvInit == Cache!Init => CacheInv
    <1> SUFFICES ASSUME Cache!Init PROVE CacheInv
        OBVIOUS
    <1>1. file \in Bytes
        BY CacheConstants DEF Cache!Init, Cache!Original, Bytes, Addr
    <1>2. i_cache = <<>> /\ skyline = <<>> /\ i_writes = 0 /\ cached \in Modes /\ writable \in Perms
        BY DEF Cache!Init
    <1>3. GoodList(i_cache, 2 * i_writes) /\ CacheShows(i_cache, skyline)
        BY <1>2, EmptyCache
    <1> QED
        BY <1>1, <1>2, <1>3, CacheConstants DEF CacheInv

\* rz_io_cache_write keeps the invariant.
LEMMA WriteAtInv ==
    ASSUME CacheInv, NEW r \in CacheIntervals, Cache!WriteAt(r)
    PROVE  CacheInv'
    <1> DEFINE data == Cache!Bytes(i_writes + 1, r.size)
               s == Cache!CacheWrite([cache |-> i_cache, skyline |-> skyline], i_writes, r.addr, r.size, data)
    <1>1. /\ i_writes < MaxCached /\ i_writes' = i_writes + 1 /\ cached' = cached /\ writable' = writable
          /\ IF "W" \in cached
             THEN i_cache' = s.cache /\ skyline' = s.skyline /\ file' = file
             ELSE /\ file' = Cache!FileWrites(file, <<[addr |-> r.addr, size |-> r.size, data |-> data]>>)
                  /\ i_cache' = i_cache /\ skyline' = skyline
        BY DEF Cache!WriteAt
    <1>2. /\ cached \in SUBSET {"R", "W"} /\ writable \in BOOLEAN /\ i_writes \in Nat /\ file \in Bytes
          /\ GoodList(i_cache, 2 * i_writes) /\ CacheShows(i_cache, skyline) /\ WAssumption /\ W \in Nat /\ MaxCached \in Nat
        BY CacheConstants DEF CacheInv
    <1>3. r.addr \in Addr /\ r.size \in Addr \ {0} /\ r.addr \in Nat /\ r.size \in Nat
        BY CacheConstants DEF Addr
    <1>4. IsBuf(data, r.size)
        <2>1. \A i \in 0 .. r.size - 1 : ((i_writes + 1) * W) + i \in Nat
            BY <1>2, <1>3
        <2> QED
            BY <2>1 DEF Cache!Bytes, IsBuf
    <1> HIDE DEF data
    <1>5. CASE "W" \in cached
        <2>1. GoodList(s.cache, 2 * (i_writes + 1)) /\ CacheShows(s.cache, s.skyline)
            <3> DEFINE t == [cache |-> i_cache, skyline |-> skyline]
            <3>1. t.cache = i_cache /\ t.skyline = skyline
                OBVIOUS
            <3> HIDE DEF t
            <3>2. GoodList(t.cache, 2 * i_writes) /\ CacheShows(t.cache, t.skyline)
                BY <3>1, <1>2
            <3> QED
                BY <3>2, <1>2, <1>3, <1>4, CacheWriteFacts DEF t
        <2> HIDE DEF s
        <2> QED
            BY <2>1, <1>1, <1>2, <1>5 DEF CacheInv
    <1>6. CASE "W" \notin cached
        <2> DEFINE w == [addr |-> r.addr, size |-> r.size, data |-> data]
                   list == <<w>>
        <2>1. Len(list) = 1 /\ list[1] = w
            OBVIOUS
        <2>2. Writable(w)
            BY <1>3, <1>4 DEF Writable, IsBuf
        <2> HIDE DEF w, list
        <2>3. Cache!FileWrites(file, list) \in Bytes
            BY <1>2, <2>1, <2>2, FileWritesType
        <2>4. file' \in Bytes /\ i_cache' = i_cache /\ skyline' = skyline
            BY <2>3, <1>1, <1>6 DEF w, list
        <2>5. GoodList(i_cache, 2 * (i_writes + 1))
            <3>1. 2 * i_writes \in Nat /\ 2 * (i_writes + 1) \in Nat /\ 2 * i_writes <= 2 * (i_writes + 1)
                BY <1>2
            <3> QED
                BY <3>1, <1>2, MoreIds
        <2> QED
            BY <2>4, <2>5, <1>1, <1>2 DEF CacheInv
    <1> QED
        BY <1>5, <1>6

\* rz_io_cache_commit keeps the invariant.
LEMMA CommitInv2 ==
    ASSUME CacheInv, NEW r, Cache!Commit(r)
    PROVE  CacheInv'
    <1> DEFINE hits == Cache!Only(i_cache, Cache!Hit(r))
               d == [k \in DOMAIN i_cache |-> IF i_cache[k] \in Cache!Hit(r) /\ writable
                                              THEN [i_cache[k] EXCEPT !.written = TRUE] ELSE i_cache[k]]
    <1>1. /\ file' = Cache!FileWrites(file, hits) /\ i_cache' = d /\ skyline' = skyline
          /\ cached' = cached /\ writable' = writable /\ i_writes' = i_writes
        BY DEF Cache!Commit
    <1>2. /\ file \in Bytes /\ GoodList(i_cache, 2 * i_writes) /\ CacheShows(i_cache, skyline) /\ WAssumption
        BY CacheConstants DEF CacheInv
    <1>3. file' \in Bytes
        <2>1. GoodList(hits, 2 * i_writes)
            BY <1>2, OnlyEntries, CacheOnlyIs
        <2> HIDE DEF hits
        <2> QED
            BY <2>1, <1>1, <1>2, EntriesWritable, FileWritesType
    <1>4. i_cache \in Seq(Entries) /\ Len(i_cache) \in Nat /\ DOMAIN i_cache = 1 .. Len(i_cache)
        BY <1>2 DEF GoodList
    <1>5. ASSUME NEW k \in DOMAIN i_cache
          PROVE  /\ d[k] \in Entries /\ GoodEntry(d[k]) /\ d[k].id = i_cache[k].id /\ d[k].addr = i_cache[k].addr
                 /\ d[k].size = i_cache[k].size
        <2> DEFINE e == i_cache[k]
        <2>1. e \in Entries /\ GoodEntry(e)
            BY <1>2, <1>4 DEF GoodList
        <2>2. d[k] = e \/ d[k] = [e EXCEPT !.written = TRUE]
            OBVIOUS
        <2> HIDE DEF d, e
        <2>3. [e EXCEPT !.written = TRUE] \in Entries /\ GoodEntry([e EXCEPT !.written = TRUE])
            BY <2>1 DEF Entries, GoodEntry, Writable, Stop
        <2>4. /\ [e EXCEPT !.written = TRUE].id = e.id /\ [e EXCEPT !.written = TRUE].addr = e.addr
              /\ [e EXCEPT !.written = TRUE].size = e.size
            BY <2>1 DEF Entries
        <2>5. /\ d[k] \in Entries /\ GoodEntry(d[k]) /\ d[k].id = e.id /\ d[k].addr = e.addr /\ d[k].size = e.size
            BY <2>1, <2>2, <2>3, <2>4
        <2> QED
            BY <2>5 DEF e
    <1>6. d \in Seq(Entries) /\ DOMAIN d = DOMAIN i_cache
        <2>1. d \in [1 .. Len(i_cache) -> Entries]
            BY <1>4, <1>5
        <2> QED
            BY <2>1, <1>4
    <1> HIDE DEF d
    <1>7. GoodList(d, 2 * i_writes) /\ CacheShows(d, skyline)
        BY <1>2, <1>5, <1>6, SameIntervals
    <1> QED
        BY <1>1, <1>3, <1>7 DEF CacheInv

\* rz_io_cache_invalidate keeps the invariant.
LEMMA InvalidateInv ==
    ASSUME CacheInv, NEW r, Cache!Invalidate(r)
    PROVE  CacheInv'
    <1> DEFINE hits == Cache!Only(i_cache, Cache!Hit(r))
               kept == Cache!Only(i_cache, Cache!ToSet(i_cache) \ Cache!Hit(r))
    <1>1. /\ file' = Cache!FileWrites(file, Cache!Replaced(hits)) /\ i_cache' = kept /\ skyline' = Cache!SkylineOf(kept)
          /\ cached' = cached /\ writable' = writable /\ i_writes' = i_writes
        BY DEF Cache!Invalidate
    <1>2. /\ file \in Bytes /\ GoodList(i_cache, 2 * i_writes) /\ WAssumption /\ i_writes \in Nat
        BY CacheConstants DEF CacheInv
    <1>3. GoodList(hits, 2 * i_writes) /\ GoodList(kept, 2 * i_writes)
        BY <1>2, OnlyEntries, CacheOnlyIs
    <1> HIDE DEF hits, kept
    <1>4. file' \in Bytes
        BY <1>1, <1>2, <1>3, ReplacedWritable, FileWritesType
    <1>5. CacheShows(kept, Cache!SkylineOf(kept))
        <2>1. 2 * i_writes \in Nat
            BY <1>2
        <2> QED
            BY <2>1, <1>2, <1>3, RebuiltFacts
    <1> QED
        BY <1>1, <1>3, <1>4, <1>5 DEF CacheInv

\* Every step of the cache keeps the invariant.
LEMMA CacheInvNext ==
    ASSUME CacheInv, [Cache!Next]_Cache!vars
    PROVE  CacheInv'
    <1>1. CASE UNCHANGED Cache!vars
        BY <1>1 DEF Cache!vars, CacheInv
    <1>2. ASSUME NEW r \in CacheIntervals, Cache!WriteAt(r) PROVE CacheInv'
        BY <1>2, WriteAtInv
    <1>3. ASSUME NEW r, Cache!CommitRange(r) PROVE CacheInv'
        BY <1>3, CommitInv2 DEF Cache!CommitRange
    <1>4. CASE Cache!CommitAll
        BY <1>4, CommitInv2 DEF Cache!CommitAll
    <1>5. ASSUME NEW r, Cache!RemoveRange(r) PROVE CacheInv'
        BY <1>5, InvalidateInv DEF Cache!RemoveRange
    <1>6. CASE Cache!RemoveAll
        BY <1>6, InvalidateInv DEF Cache!RemoveAll
    <1>7. CASE Cache!Reset
        BY <1>7, EmptyCache DEF Cache!Reset, CacheInv
    <1>8. CASE Cache!SetCached
        BY <1>8 DEF Cache!SetCached, CacheInv
    <1> QED
        BY <1>1, <1>2, <1>3, <1>4, <1>5, <1>6, <1>7, <1>8 DEF Cache!Next

\* Under the invariant a read gives what the list of entries says.
LEMMA CacheInvReads == CacheInv => Cache!CacheReads
    <1> SUFFICES ASSUME CacheInv PROVE Cache!CacheReads
        OBVIOUS
    <1>1. /\ cached \in SUBSET {"R", "W"} /\ i_writes \in 0 .. MaxCached /\ file \in Bytes
          /\ GoodList(i_cache, 2 * i_writes) /\ CacheShows(i_cache, skyline) /\ WAssumption /\ W \in Nat \ {0}
          /\ Cache!Addr = Addr
        BY CacheConstants DEF CacheInv
    <1>2. ASSUME NEW k \in DOMAIN i_cache
          PROVE  LET e == i_cache[k]
                 IN  /\ e.addr \in Addr /\ e.size \in Addr /\ e.written \in BOOLEAN /\ DOMAIN e.data = 0 .. e.size - 1
                     /\ Stop(e) \in 1 .. W - 1 /\ e.addr \in Nat /\ e.size \in Nat
        <2>1. GoodEntry(i_cache[k])
            BY <1>1 DEF GoodList
        <2> QED
            BY <2>1, <1>1 DEF GoodEntry, Writable, Stop, Addr
    <1>3. ASSUME NEW i \in DOMAIN skyline
          PROVE  /\ \E k \in DOMAIN i_cache : i_cache[k].id = skyline[i].user /\ Cache!Include(i_cache[k], skyline[i])
                 /\ skyline[i].addr \in Addr /\ skyline[i].size \in Addr
        <2>1. PICK k \in DOMAIN i_cache : /\ i_cache[k].id = skyline[i].user /\ i_cache[k].addr <= skyline[i].addr
                                          /\ Stop(skyline[i]) <= Stop(i_cache[k])
            BY <1>1 DEF CacheShows, Shows
        <2>2. skyline[i].addr \in Nat /\ skyline[i].size \in Nat /\ Fit(skyline[i], W - 1)
            <3>1. Tidy(skyline, W - 1)
                BY <1>1 DEF CacheShows, Shows
            <3>2. skyline[i] \in Parts /\ Fit(skyline[i], W - 1)
                BY <3>1 DEF Tidy
            <3> QED
                BY <3>2, PartFacts
        <2>3. Stop(skyline[i]) \in 1 .. W - 1 /\ Stop(i_cache[k]) \in 1 .. W - 1
            BY <1>1, <1>2, <2>1, <2>2 DEF Fit, Stop
        <2>4. (skyline[i].addr + skyline[i].size) % W = Stop(skyline[i])
            <3>1. \A x \in 1 .. W - 1 : x % W = x
                BY <1>1, ModFacts
            <3>2. Stop(skyline[i]) % W = Stop(skyline[i])
                BY <3>1, <2>3
            <3> QED
                BY <3>2 DEF Stop
        <2>5. (i_cache[k].addr + i_cache[k].size) % W = Stop(i_cache[k])
            <3>1. \A x \in 1 .. W - 1 : x % W = x
                BY <1>1, ModFacts
            <3>2. Stop(i_cache[k]) % W = Stop(i_cache[k])
                BY <3>1, <2>3
            <3> QED
                BY <3>2 DEF Stop
        <2>6. Cache!Include(i_cache[k], skyline[i])
            BY <2>1, <2>3, <2>4, <2>5, <1>1 DEF Cache!Include, Cache!End
        <2>7. skyline[i].addr \in Addr /\ skyline[i].size \in Addr
            BY <2>2, <2>3, <1>1 DEF Addr, Stop
        <2> QED
            BY <2>1, <2>6, <2>7
    <1>4. Cache!TypeOK
        BY <1>1, <1>2, <1>3 DEF Cache!TypeOK, Bytes
    <1>5. Cache!PartsHaveEntries
        BY <1>3 DEF Cache!PartsHaveEntries, Cache!ToSet
    <1>6. Cache!ReadsNewest
        <2> SUFFICES ASSUME NEW r \in Cache!Ranges
                     PROVE  Cache!ReadAtMapped({"R"}, file, i_cache, skyline, r.addr, r.size)
                              = Cache!FileRead(Cache!Shown(i_cache, file), r.addr, r.size)
            BY DEF Cache!ReadsNewest
        <2>1. r.addr \in Nat /\ r.size \in Nat \ {0} /\ r.addr + r.size < W
            BY <1>1 DEF Cache!Ranges, Addr
        <2>2. Cache!CacheRead(i_cache, skyline, r.addr, r.size, Cache!FileRead(file, r.addr, r.size)).buf
                = Cache!FileRead(Cache!PutAll(file, i_cache), r.addr, r.size)
            BY <1>1, <2>1, ReadFacts
        <2> QED
            BY <2>2 DEF Cache!ReadAtMapped, Cache!Shown
    <1> QED
        BY <1>4, <1>5, <1>6 DEF Cache!CacheReads

\* rz_io_cache_read, which goes through the skyline, always gives the newest cached byte
\* of each address or that of the file, whatever was written, committed and invalidated.
THEOREM CacheAlwaysReads == Cache!Spec => []Cache!CacheReads
    <1>1. Cache!Init => CacheInv
        BY CacheInvInit
    <1>2. CacheInv /\ [Cache!Next]_Cache!vars => CacheInv'
        BY CacheInvNext
    <1>3. CacheInv => Cache!CacheReads
        BY CacheInvReads
    <1> QED
        BY <1>1, <1>2, <1>3, PTL DEF Cache!Spec

\* The invariant holds in the composition too.
LEMMA CacheInvRun == MCSpec => []CacheInv
    <1>1. MCInit => CacheInv
        BY CacheInvInit DEF MCInit
    <1>2. CacheInv /\ [MCNext]_<<part, vars, maps, iocache>> => CacheInv'
        <2> SUFFICES ASSUME CacheInv, [MCNext]_<<part, vars, maps, iocache>> PROVE CacheInv'
            OBVIOUS
        <2>1. ASSUME UNCHANGED iocache PROVE CacheInv'
            BY <2>1 DEF iocache, CacheInv
        <2>2. CASE Cache!Next
            BY <2>2, CacheInvNext
        <2> QED
            BY <2>1, <2>2 DEF MCNext
    <1> QED
        BY <1>1, <1>2, PTL DEF MCSpec

\* The same in the composition that the run checks: CacheReads is always true.
THEOREM ReadsAgree == MCSpec => []CacheReads
    <1>1. CacheInv => CacheReads
        BY CacheInvReads DEF CacheReads
    <1> QED
        BY <1>1, CacheInvRun, PTL
-----------------------------------------------------------------------------
(* The maps, librz/io/io_map.c.                                            *)

\* The operators of the maps are those of the modules.
LEMMA MapAddIs ==
    ASSUME NEW s, NEW e, NEW u
    PROVE  Map!SkylineAdd(s, e, u) = SkylineAdd(s, e, u)
    BY Zenon DEF Map!SkylineAdd, SkylineAdd, Map!LowerBound, LowerBound, Map!End, End,
       Map!Uncovered, Uncovered, Map!Include, Include, Map!Overlap, Overlap

\* So is the skyline of a list,
LEMMA MapOfIs ==
    ASSUME NEW c
    PROVE  Map!SkylineOf(c) = SkylineOf(c)
    BY Zenon DEF Map!SkylineOf, SkylineOf, Map!SkylineAdd, SkylineAdd, Map!LowerBound, LowerBound, Map!End, End,
       Map!Uncovered, Uncovered, Map!Include, Include, Map!Overlap, Overlap

\* what is on top at an address,
LEMMA MapGetIs ==
    ASSUME NEW s, NEW a
    PROVE  Map!SkylineGet(s, a) = SkylineGet(s, a)
    BY Zenon DEF Map!SkylineGet, SkylineGet, Map!LowerBound, LowerBound, Map!End, End

\* and what is left of a list.
LEMMA MapOnlyIs ==
    ASSUME NEW s, NEW t
    PROVE  Map!Only(s, t) = Only(s, t)
    BY Zenon DEF Map!Only, Only, Map!Cardinality, Cardinality
-----------------------------------------------------------------------------
(* The pool of ids.                                                        *)

MapRecs == [id : Nat, fd : Fds, delta : Addr, addr : Addr, size : Addr]

IoRecs == [maps : Seq(MapRecs), skyline : Seq(Parts), next_id : Nat, freed_ids : Seq(Nat)]

\* The ids in S are taken: none is free, and no id is free twice.
Pool(s, S) ==
    /\ S \subseteq Nat
    /\ \A i \in S : i < s.next_id /\ \A k \in DOMAIN s.freed_ids : s.freed_ids[k] # i
    /\ \A j, k \in DOMAIN s.freed_ids : s.freed_ids[j] = s.freed_ids[k] => j = k
    /\ \A k \in DOMAIN s.freed_ids : s.freed_ids[k] < s.next_id

\* rz_id_pool_grab_id gives an id that is not taken.
LEMMA GrabFacts ==
    ASSUME NEW s \in IoRecs, NEW S, Pool(s, S)
    PROVE  /\ Map!GrabId(s) \in IoRecs /\ Map!GrabId(s).maps = s.maps /\ Map!GrabId(s).skyline = s.skyline
           /\ Map!NextId(s) \in Nat /\ Map!NextId(s) \notin S
           /\ Pool(Map!GrabId(s), S \cup {Map!NextId(s)})
    <1> DEFINE f == s.freed_ids
               t == Map!GrabId(s)
    <1>1. f \in Seq(Nat) /\ s.next_id \in Nat /\ DOMAIN f = 1 .. Len(f) /\ Len(f) \in Nat
        BY DEF IoRecs
    <1>2. CASE f # <<>>
        <2>1. t = [s EXCEPT !.freed_ids = Tail(f)] /\ Map!NextId(s) = f[1] /\ Len(f) >= 1 /\ 1 \in DOMAIN f
            BY <1>1, <1>2 DEF Map!GrabId, Map!NextId
        <2>2. /\ Tail(f) \in Seq(Nat) /\ DOMAIN Tail(f) = 1 .. Len(f) - 1
              /\ \A k \in 1 .. Len(f) - 1 : Tail(f)[k] = f[k + 1] /\ k + 1 \in DOMAIN f
            BY <1>1, <1>2
        <2>3. /\ t \in IoRecs /\ t.maps = s.maps /\ t.skyline = s.skyline /\ t.next_id = s.next_id
              /\ t.freed_ids = Tail(f)
            BY <2>1, <2>2 DEF IoRecs
        <2>4. f[1] \in Nat /\ f[1] \notin S /\ f[1] < s.next_id
            BY <1>1, <2>1 DEF Pool
        <2>5. Pool(t, S \cup {f[1]})
            <3>1. \A i \in S \cup {f[1]} : i \in Nat /\ i < t.next_id
                BY <2>3, <2>4 DEF Pool
            <3>2. \A i \in S : \A k \in DOMAIN t.freed_ids : t.freed_ids[k] # i
                BY <2>2, <2>3 DEF Pool
            <3>3. \A k \in DOMAIN t.freed_ids : t.freed_ids[k] # f[1] /\ t.freed_ids[k] < t.next_id
                BY <2>1, <2>2, <2>3 DEF Pool
            <3>4. ASSUME NEW j \in DOMAIN t.freed_ids, NEW k \in DOMAIN t.freed_ids, t.freed_ids[j] = t.freed_ids[k]
                  PROVE  j = k
                <4>1. j \in 1 .. Len(f) - 1 /\ k \in 1 .. Len(f) - 1 /\ Tail(f)[j] = Tail(f)[k]
                    BY <2>2, <2>3, <3>4
                <4>2. f[j + 1] = f[k + 1] /\ j + 1 \in DOMAIN f /\ k + 1 \in DOMAIN f
                    BY <4>1, <2>2
                <4>3. j + 1 = k + 1
                    BY <4>2 DEF Pool
                <4> QED
                    BY <4>1, <4>3, <1>1
            <3> QED
                BY <3>1, <3>2, <3>3, <3>4 DEF Pool
        <2> QED
            BY <2>1, <2>3, <2>4, <2>5
    <1>3. CASE f = <<>>
        <2> DEFINE up == s.next_id + 1
        <2>7. up \in Nat /\ up = s.next_id + 1
            BY <1>1
        <2>1. t = [s EXCEPT !.next_id = up] /\ Map!NextId(s) = s.next_id
            BY <1>3 DEF Map!GrabId, Map!NextId
        <2> HIDE DEF t, up
        <2>2. /\ t \in IoRecs /\ t.maps = s.maps /\ t.skyline = s.skyline /\ t.next_id = up
              /\ t.freed_ids = f
            BY <2>1, <2>7 DEF IoRecs
        <2>3. \A i \in S : i \in Nat /\ i < s.next_id
            BY DEF Pool
        <2>4. DOMAIN f = {}
            BY <1>3
        <2>5. s.next_id \notin S
            BY <2>3, <1>1
        <2>6. Pool(t, S \cup {s.next_id})
            <3>1. \A i \in S \cup {s.next_id} : i \in Nat /\ i < up
                BY <2>3, <2>7, <1>1
            <3> QED
                BY <3>1, <2>2, <2>4 DEF Pool
        <2> QED
            BY <2>1, <2>2, <2>5, <2>6, <1>1 DEF t
    <1> QED
        BY <1>2, <1>3

\* rz_id_pool_kick_id gives an id back.
LEMMA KickFacts ==
    ASSUME NEW s \in IoRecs, NEW id \in Nat
    PROVE  /\ Map!KickId(s, id) \in IoRecs /\ Map!KickId(s, id).maps = s.maps
           /\ Map!KickId(s, id).skyline = s.skyline
           /\ \A S : Pool(s, S) /\ id \in S => Pool(Map!KickId(s, id), S \ {id})
    <1> DEFINE f == s.freed_ids
               t == Map!KickId(s, id)
    <1>1. f \in Seq(Nat) /\ s.next_id \in Nat /\ DOMAIN f = 1 .. Len(f) /\ Len(f) \in Nat
        BY DEF IoRecs
    <1>2. CASE id = s.next_id - 1
        <2>1. t = [s EXCEPT !.next_id = s.next_id - 1]
            BY <1>2 DEF Map!KickId
        <2>2. t \in IoRecs /\ t.maps = s.maps /\ t.skyline = s.skyline /\ t.next_id = s.next_id - 1 /\ t.freed_ids = f
            BY <2>1, <1>1, <1>2 DEF IoRecs
        <2>3. ASSUME NEW S, Pool(s, S), id \in S PROVE Pool(t, S \ {id})
            <3>1. \A k \in DOMAIN f : f[k] \in Nat /\ f[k] < s.next_id /\ f[k] # id
                BY <1>1, <2>3 DEF Pool
            <3>2. \A k \in DOMAIN f : f[k] < s.next_id - 1
                BY <3>1, <1>1, <1>2
            <3>3. \A i \in S \ {id} : i \in Nat /\ i < s.next_id /\ i # id
                BY <2>3 DEF Pool
            <3>4. \A i \in S \ {id} : i < s.next_id - 1
                BY <3>3, <1>1, <1>2
            <3> QED
                BY <2>2, <2>3, <3>2, <3>3, <3>4 DEF Pool
        <2> QED
            BY <2>2, <2>3
    <1>3. CASE id # s.next_id - 1
        <2>1. t = [s EXCEPT !.freed_ids = Append(f, id)]
            BY <1>3 DEF Map!KickId
        <2>2. /\ Append(f, id) \in Seq(Nat) /\ DOMAIN Append(f, id) = 1 .. Len(f) + 1
              /\ Append(f, id)[Len(f) + 1] = id /\ \A k \in 1 .. Len(f) : Append(f, id)[k] = f[k]
            BY <1>1
        <2>3. t \in IoRecs /\ t.maps = s.maps /\ t.skyline = s.skyline /\ t.next_id = s.next_id /\ t.freed_ids = Append(f, id)
            BY <2>1, <2>2 DEF IoRecs
        <2>4. ASSUME NEW S, Pool(s, S), id \in S PROVE Pool(t, S \ {id})
            <3> DEFINE g == Append(f, id)
            <3> HIDE DEF g
            <3>1. \A k \in 1 .. Len(f) + 1 : (k = Len(f) + 1 /\ g[k] = id) \/ (k \in 1 .. Len(f) /\ g[k] = f[k])
                BY <1>1, <2>2 DEF g
            <3>2. \A k \in 1 .. Len(f) : f[k] # id /\ f[k] < s.next_id
                BY <1>1, <2>4 DEF Pool
            <3>3. id < s.next_id
                BY <2>4 DEF Pool
            <3>4. \A j, k \in 1 .. Len(f) + 1 : g[j] = g[k] => j = k
                BY <3>1, <3>2, <1>1, <2>4 DEF Pool
            <3>5. \A i \in S \ {id} : i \in Nat /\ i < s.next_id /\ \A k \in 1 .. Len(f) + 1 : g[k] # i
                BY <3>1, <1>1, <2>4 DEF Pool
            <3>6. \A k \in 1 .. Len(f) + 1 : g[k] < s.next_id
                BY <3>1, <3>2, <3>3
            <3>7. t.freed_ids = g /\ DOMAIN g = 1 .. Len(f) + 1
                BY <2>2, <2>3 DEF g
            <3> QED
                BY <2>3, <3>4, <3>5, <3>6, <3>7 DEF Pool
        <2> QED
            BY <2>3, <2>4
    <1> QED
        BY <1>2, <1>3

\* Fewer ids are taken.
LEMMA LessPool ==
    ASSUME NEW s, NEW S, Pool(s, S), NEW R \in SUBSET S
    PROVE  Pool(s, R)
    BY DEF Pool

IdsOf(c) == {c[k].id : k \in DOMAIN c}

\* No two maps have the same id.
Distinct(c) == \A j, k \in DOMAIN c : c[j].id = c[k].id => j = k

\* An interval before L, or the one from L to the last address.
Placed(e, L) ==
    \/ e.addr # L /\ 1 <= Stop(e) /\ Stop(e) <= L
    \/ e.addr = L /\ Stop(e) = W

\* Maps of open descriptors with ids of their own, those in S being taken.
Good(s, F, L, S) ==
    /\ s \in IoRecs /\ Tidy(s.skyline, L)
    /\ \A k \in DOMAIN s.maps : Placed(s.maps[k], L) /\ s.maps[k].fd \in F
    /\ Distinct(s.maps) /\ IdsOf(s.maps) \subseteq S /\ Pool(s, S)

\* What is placed has a range.
LEMMA PlacedRanged ==
    ASSUME NEW L, NEW e \in MapRecs, Placed(e, L)
    PROVE  Ranged(e, L)
    BY DEF Placed, Ranged, Fit, MapRecs, Addr

\* The maps of a good record.
LEMMA GoodFacts ==
    ASSUME NEW s, NEW F, NEW L, NEW S, Good(s, F, L, S)
    PROVE  /\ s.maps \in Seq(MapRecs) /\ Len(s.maps) \in Nat /\ DOMAIN s.maps = 1 .. Len(s.maps)
           /\ \A k \in DOMAIN s.maps : s.maps[k] \in MapRecs /\ Ranged(s.maps[k], L)
    <1>1. s.maps \in Seq(MapRecs) /\ \A k \in DOMAIN s.maps : Placed(s.maps[k], L)
        BY DEF Good, IoRecs
    <1>2. \A k \in DOMAIN s.maps : s.maps[k] \in MapRecs
        BY <1>1
    <1>3. \A k \in DOMAIN s.maps : Ranged(s.maps[k], L)
        BY <1>1, <1>2, PlacedRanged
    <1> QED
        BY <1>1, <1>2, <1>3

\* Only the ids of the maps need to be taken.
LEMMA OwnIds ==
    ASSUME NEW s, NEW F, NEW L, NEW S, Good(s, F, L, S)
    PROVE  Good(s, F, L, IdsOf(s.maps))
    BY LessPool DEF Good

\* io_map_calculate_skyline.
LEMMA CalculatedFacts ==
    ASSUME WAssumption, NEW L \in 0 .. W - 1, NEW s, NEW F, NEW S, Good(s, F, L, S)
    PROVE  /\ Good(Map!Calculated(s), F, L, S) /\ Map!Calculated(s).maps = s.maps
           /\ Shows(s.maps, Map!Calculated(s).skyline, L)
    <1> DEFINE sky == SkylineOf(s.maps)
               t == Map!Calculated(s)
    <1>1. Shows(s.maps, sky, L)
        <2>1. s.maps \in Seq(MapRecs) /\ \A k \in DOMAIN s.maps : Ranged(s.maps[k], L)
            BY GoodFacts
        <2> QED
            BY <2>1, SkylineOfFacts
    <1>2. t = [s EXCEPT !.skyline = sky]
        BY MapOfIs DEF Map!Calculated
    <1>3. Tidy(sky, L) /\ sky \in Seq(Parts)
        BY <1>1 DEF Shows, Tidy
    <1> HIDE DEF sky, t
    <1>4. /\ t \in IoRecs /\ t.maps = s.maps /\ t.skyline = sky /\ t.next_id = s.next_id
          /\ t.freed_ids = s.freed_ids
        BY <1>2, <1>3 DEF Good, IoRecs
    <1>5. Pool(t, S)
        BY <1>4 DEF Good, Pool
    <1>6. Good(t, F, L, S)
        BY <1>3, <1>4, <1>5 DEF Good
    <1> QED
        BY <1>1, <1>4, <1>6 DEF t

\* An id is taken from the pool.
LEMMA GrabGood ==
    ASSUME NEW s, NEW F, NEW L, NEW S, Good(s, F, L, S)
    PROVE  /\ Good(Map!GrabId(s), F, L, S \cup {Map!NextId(s)})
           /\ Map!NextId(s) \in Nat /\ Map!NextId(s) \notin S
           /\ Map!GrabId(s).maps = s.maps /\ Map!GrabId(s).skyline = s.skyline
    <1>1. s \in IoRecs /\ Pool(s, S)
        BY DEF Good
    <1>2. /\ Map!GrabId(s) \in IoRecs /\ Map!GrabId(s).maps = s.maps /\ Map!GrabId(s).skyline = s.skyline
          /\ Map!NextId(s) \in Nat /\ Map!NextId(s) \notin S
          /\ Pool(Map!GrabId(s), S \cup {Map!NextId(s)})
        BY <1>1, GrabFacts
    <1> QED
        BY <1>2 DEF Good

NewMap(id, fd, delta, addr, size) == [id |-> id, fd |-> fd, delta |-> delta, addr |-> addr, size |-> size]

\* A map with an id of S went to the top of the maps of s, and of the skyline.
Pushed(t, s, F, L, S, m) ==
    /\ Good(t, F, L, S) /\ t.maps = Append(s.maps, m) /\ IdsOf(t.maps) = IdsOf(s.maps) \cup {m.id}
    /\ Shows(s.maps, s.skyline, L) => Shows(t.maps, t.skyline, L)

\* The end of io_map_new: a map with an id that is taken goes to the top.
LEMMA PushGood ==
    ASSUME WAssumption, NEW L \in 0 .. W - 1, NEW s, NEW F \in SUBSET Fds, NEW S, Good(s, F, L, S),
           NEW id \in S, id \notin IdsOf(s.maps), NEW fd \in F, NEW delta \in Addr, NEW addr \in Addr,
           NEW size \in Addr, Placed(NewMap(id, fd, delta, addr, size), L)
    PROVE  Pushed(Map!PushMap(s, id, fd, delta, addr, size), s, F, L, S, NewMap(id, fd, delta, addr, size))
    <1> DEFINE m == NewMap(id, fd, delta, addr, size)
               t == Map!PushMap(s, id, fd, delta, addr, size)
               c == s.maps
               d == Append(c, m)
               itv == [addr |-> addr, size |-> size]
               sky == SkylineAdd(s.skyline, itv, id)
               n == Len(c)
    <1>1. /\ c \in Seq(MapRecs) /\ n \in Nat /\ DOMAIN c = 1 .. n
          /\ \A k \in 1 .. n : c[k] \in MapRecs /\ Ranged(c[k], L)
        BY GoodFacts
    <1>2. id \in Nat /\ m \in MapRecs /\ m.id = id /\ m.addr = addr /\ m.size = size /\ m.fd = fd
        BY DEF Good, Pool, MapRecs, NewMap
    <1>3. Ranged(m, L)
        BY <1>2, PlacedRanged
    <1>4. sky = SkylineAdd(s.skyline, m, id)
        BY <1>2 DEF SkylineAdd
    <1>5. Tidy(sky, L) /\ sky \in Seq(Parts)
        <2>1. itv.addr \in Nat /\ itv.size \in Nat /\ Fit(itv, L) /\ Tidy(s.skyline, L)
            BY <1>3, <1>2 DEF Ranged, Fit, Stop, Good
        <2>2. Tidy(sky, L)
            BY <2>1, <1>2, SkylineAddFacts
        <2> QED
            BY <2>2 DEF Tidy
    <1>6. t = [s EXCEPT !.maps = d, !.skyline = sky]
        BY MapAddIs DEF Map!PushMap, NewMap
    <1>7. /\ d \in Seq(MapRecs) /\ DOMAIN d = 1 .. n + 1 /\ d[n + 1] = m /\ \A k \in 1 .. n : d[k] = c[k]
        BY <1>1, <1>2
    <1>8. Shows(c, s.skyline, L) => Shows(d, sky, L)
        <2> SUFFICES ASSUME Shows(c, s.skyline, L) PROVE Shows(d, sky, L)
            OBVIOUS
        <2>1. Shows(d, SkylineAdd(s.skyline, m, m.id), L)
            <3> HIDE DEF m, c
            <3> QED
                BY <1>1, <1>3, ShownAdded
        <2> QED
            BY <2>1, <1>4, <1>2
    <1> HIDE DEF m, t, d, sky, n
    <1>9. /\ t \in IoRecs /\ t.maps = d /\ t.skyline = sky /\ t.next_id = s.next_id
          /\ t.freed_ids = s.freed_ids
        BY <1>6, <1>5, <1>7 DEF Good, IoRecs
    <1>10. IdsOf(d) = IdsOf(c) \cup {id}
        <2>1. \A k \in 1 .. n + 1 : k \in 1 .. n \/ k = n + 1
            BY <1>1
        <2>2. 1 .. n \subseteq 1 .. n + 1 /\ n + 1 \in 1 .. n + 1
            BY <1>1
        <2>3. ASSUME NEW x \in IdsOf(d) PROVE x \in IdsOf(c) \cup {id}
            BY <2>1, <1>1, <1>7, <1>2 DEF IdsOf
        <2>4. ASSUME NEW x \in IdsOf(c) PROVE x \in IdsOf(d)
            <3>1. PICK k \in 1 .. n : x = c[k].id
                BY <1>1 DEF IdsOf
            <3>2. k \in DOMAIN d /\ d[k].id = x
                BY <3>1, <2>2, <1>7
            <3> QED
                BY <3>2 DEF IdsOf
        <2>5. id \in IdsOf(d)
            BY <2>2, <1>7, <1>2 DEF IdsOf
        <2> QED
            BY <2>3, <2>4, <2>5
    <1>11. Distinct(d)
        <2>1. \A k \in 1 .. n + 1 : k \in 1 .. n \/ k = n + 1
            BY <1>1
        <2>2. \A k \in 1 .. n : c[k].id # id
            BY <1>1 DEF IdsOf
        <2> QED
            BY <2>1, <2>2, <1>1, <1>2, <1>7 DEF Good, Distinct
    <1>12. \A k \in DOMAIN d : Placed(d[k], L) /\ d[k].fd \in F
        <2>1. \A k \in 1 .. n + 1 : k \in 1 .. n \/ k = n + 1
            BY <1>1
        <2> QED
            BY <2>1, <1>1, <1>2, <1>7 DEF Good, m
    <1>13. Pool(t, S)
        BY <1>9 DEF Good, Pool
    <1>14. Good(t, F, L, S)
        BY <1>5, <1>9, <1>10, <1>11, <1>12, <1>13 DEF Good
    <1> QED
        BY <1>2, <1>8, <1>9, <1>10, <1>14 DEF m, t, d, Pushed

\* io_map_new of an interval that does not wrap: a map with a new id goes to the top.
LEMMA NewPlainGood ==
    ASSUME WAssumption, NEW L \in 0 .. W - 1, NEW s, NEW F \in SUBSET Fds, NEW S, Good(s, F, L, S),
           NEW fd \in F, NEW delta \in Addr, NEW addr \in Addr, NEW size \in Addr,
           \A id : Placed(NewMap(id, fd, delta, addr, size), L)
    PROVE  LET t == Map!MapNewPlain(s, fd, delta, addr, size)
               id == Map!NextId(s)
           IN  /\ id \in Nat /\ id \notin S
               /\ Pushed(t, s, F, L, S \cup {id}, NewMap(id, fd, delta, addr, size))
    <1> DEFINE id == Map!NextId(s)
               g == Map!GrabId(s)
               R == S \cup {id}
    <1>1. /\ Good(g, F, L, R) /\ id \in Nat /\ id \notin S
          /\ g.maps = s.maps /\ g.skyline = s.skyline
        BY GrabGood
    <1>2. id \in R /\ id \notin IdsOf(g.maps)
        BY <1>1 DEF Good
    <1>3. Map!MapNewPlain(s, fd, delta, addr, size) = Map!PushMap(g, id, fd, delta, addr, size)
        BY DEF Map!MapNewPlain
    <1> HIDE DEF id, g, R
    <1> DEFINE m == NewMap(id, fd, delta, addr, size)
               t == Map!PushMap(g, id, fd, delta, addr, size)
    <1>4. Pushed(t, g, F, L, R, m)
        BY <1>1, <1>2, PushGood
    <1> HIDE DEF m, t
    <1>5. Pushed(t, s, F, L, R, m)
        BY <1>1, <1>4 DEF Pushed
    <1> QED
        BY <1>1, <1>3, <1>5 DEF id, R, m, t

\* A map changes its interval.
LEMMA ReplaceGood ==
    ASSUME NEW s, NEW F, NEW L, NEW S, Good(s, F, L, S), NEW k \in DOMAIN s.maps, NEW m \in MapRecs,
           m.id = s.maps[k].id, m.fd = s.maps[k].fd, Placed(m, L),
           NEW t, t = [s EXCEPT !.maps = [s.maps EXCEPT ![k] = m]]
    PROVE  /\ Good(t, F, L, S) /\ t.skyline = s.skyline
    <1> DEFINE c == s.maps
               d == [c EXCEPT ![k] = m]
    <1>1. c \in Seq(MapRecs) /\ DOMAIN c = 1 .. Len(c)
        BY GoodFacts
    <1>2. d \in Seq(MapRecs) /\ DOMAIN d = DOMAIN c /\ \A j \in DOMAIN c : d[j] = IF j = k THEN m ELSE c[j]
        BY <1>1
    <1> HIDE DEF d
    <1>3. /\ t \in IoRecs /\ t.maps = d /\ t.skyline = s.skyline /\ t.next_id = s.next_id
          /\ t.freed_ids = s.freed_ids
        BY <1>2 DEF Good, IoRecs, d
    <1>4. \A j \in DOMAIN c : d[j].id = c[j].id /\ d[j].fd = c[j].fd
        BY <1>2
    <1>5. IdsOf(d) = IdsOf(c)
        BY <1>2, <1>4 DEF IdsOf
    <1>6. Distinct(d)
        BY <1>2, <1>4 DEF Good, Distinct
    <1>7. \A j \in DOMAIN d : Placed(d[j], L) /\ d[j].fd \in F
        BY <1>2, <1>4 DEF Good
    <1>8. Pool(t, S)
        BY <1>3 DEF Good, Pool
    <1> QED
        BY <1>3, <1>5, <1>6, <1>7, <1>8 DEF Good

\* The maps of d are maps of c, each once.
DrawnAt(d, c, pos) ==
    /\ pos \in [DOMAIN d -> DOMAIN c] /\ \A k \in DOMAIN d : d[k] = c[pos[k]]
    /\ \A j, k \in DOMAIN d : pos[j] = pos[k] => j = k

Drawn(d, c) == \E pos : DrawnAt(d, c, pos)

\* Maps are deleted or change places.
LEMMA DrawnGood ==
    ASSUME NEW s, NEW F, NEW L, NEW S, Good(s, F, L, S), NEW G,
           NEW t \in IoRecs, Tidy(t.skyline, L), Drawn(t.maps, s.maps), Pool(t, IdsOf(t.maps)),
           \A k \in DOMAIN t.maps : t.maps[k].fd \in G
    PROVE  Good(t, G, L, IdsOf(t.maps))
    <1> DEFINE c == s.maps
               d == t.maps
    <1>1. PICK pos \in [DOMAIN d -> DOMAIN c] :
            /\ \A k \in DOMAIN d : d[k] = c[pos[k]]
            /\ \A j, k \in DOMAIN d : pos[j] = pos[k] => j = k
        BY DEF DrawnAt, Drawn
    <1>2. Distinct(d)
        <2> SUFFICES ASSUME NEW j \in DOMAIN d, NEW k \in DOMAIN d, d[j].id = d[k].id PROVE j = k
            BY DEF Distinct
        <2>1. c[pos[j]].id = c[pos[k]].id /\ pos[j] \in DOMAIN c /\ pos[k] \in DOMAIN c
            BY <1>1
        <2>2. pos[j] = pos[k]
            BY <2>1 DEF Good, Distinct
        <2> QED
            BY <2>2, <1>1
    <1>3. \A k \in DOMAIN d : Placed(d[k], L)
        BY <1>1 DEF Good
    <1> QED
        BY <1>2, <1>3 DEF Good

\* What is drawn has no other ids.
LEMMA DrawnIds ==
    ASSUME NEW d, NEW c, Drawn(d, c)
    PROVE  IdsOf(d) \subseteq IdsOf(c)
    BY DEF DrawnAt, Drawn, IdsOf

\* What Only leaves of a list is drawn from it.
LEMMA ChosenDrawn ==
    ASSUME NEW d, NEW c, NEW S, NEW pos, DOMAIN d \subseteq Int, Chosen(d, c, S, pos), DOMAIN c \subseteq Int
    PROVE  Drawn(d, c)
    <1>1. /\ pos \in [DOMAIN d -> DOMAIN c] /\ \A k \in DOMAIN d : d[k] = c[pos[k]]
          /\ \A j, k \in DOMAIN d : j < k => pos[j] < pos[k]
        BY DEF Chosen
    <1>2. ASSUME NEW j \in DOMAIN d, NEW k \in DOMAIN d, pos[j] = pos[k] PROVE j = k
        <2>1. j \in Int /\ k \in Int /\ pos[j] \in Int /\ pos[k] \in Int
            BY <1>1
        <2>2. ~(j < k) /\ ~(k < j)
            BY <1>1, <1>2, <2>1
        <2> QED
            BY <2>1, <2>2
    <1> QED
        <2>1. DrawnAt(d, c, pos)
            BY <1>1, <1>2 DEF DrawnAt
        <2> QED
            BY <2>1 DEF Drawn

\* The same pool, fewer maps or the same in another order.
LEMMA MovedGood ==
    ASSUME NEW s, NEW F, NEW L, NEW S, Good(s, F, L, S), NEW d \in Seq(MapRecs), Drawn(d, s.maps),
           NEW sky, Tidy(sky, L), NEW t, t = [s EXCEPT !.maps = d, !.skyline = sky]
    PROVE  Good(t, F, L, IdsOf(t.maps)) /\ t.maps = d /\ t.skyline = sky
    <1>1. sky \in Seq(Parts)
        BY DEF Tidy
    <1>2. /\ t \in IoRecs /\ t.maps = d /\ t.skyline = sky /\ t.next_id = s.next_id
          /\ t.freed_ids = s.freed_ids
        BY <1>1 DEF Good, IoRecs
    <1>3. IdsOf(d) \subseteq S
        BY DrawnIds DEF Good
    <1>4. Pool(t, S)
        BY <1>2 DEF Good, Pool
    <1>5. Pool(t, IdsOf(d))
        BY <1>3, <1>4, LessPool
    <1>6. \A k \in DOMAIN d : d[k].fd \in F
        BY DEF DrawnAt, Drawn, Good
    <1> QED
        BY <1>2, <1>5, <1>6, DrawnGood

\* The fields of a list of maps.
LEMMA ListOfMaps ==
    ASSUME NEW c \in Seq(MapRecs)
    PROVE  /\ Len(c) \in Nat /\ DOMAIN c = 1 .. Len(c) /\ DOMAIN c \subseteq Int
           /\ \A k \in 1 .. Len(c) : c[k] \in MapRecs /\ c[k].id \in Nat
    <1>1. Len(c) \in Nat /\ DOMAIN c = 1 .. Len(c) /\ \A k \in 1 .. Len(c) : c[k] \in MapRecs
        OBVIOUS
    <1>2. \A m \in MapRecs : m.id \in Nat
        BY DEF MapRecs
    <1> QED
        BY <1>1, <1>2

\* The ids of some maps are given back one after the other.
LEMMA PoolSteps ==
    ASSUME NEW s \in IoRecs, NEW dead \in Seq(MapRecs), NEW pools,
           pools = [k \in 0 .. Len(dead) |-> IF k = 0 THEN s ELSE Map!KickId(pools[k - 1], dead[k].id)],
           Distinct(dead), Pool(s, IdsOf(s.maps)), IdsOf(dead) \subseteq IdsOf(s.maps)
    PROVE  /\ pools[Len(dead)] \in IoRecs /\ pools[Len(dead)].maps = s.maps /\ pools[Len(dead)].skyline = s.skyline
           /\ Pool(pools[Len(dead)], IdsOf(s.maps) \ IdsOf(dead))
    <1> DEFINE n == Len(dead)
               Left(k) == IdsOf(s.maps) \ {dead[j].id : j \in 1 .. k}
               Fine(h, k) == h \in IoRecs /\ h.maps = s.maps /\ h.skyline = s.skyline /\ Pool(h, Left(k))
               T == {k \in 0 .. n : Fine(pools[k], k)}
    <1>1. n \in Nat /\ DOMAIN dead = 1 .. n /\ \A k \in 1 .. n : dead[k] \in MapRecs /\ dead[k].id \in Nat
        BY ListOfMaps
    <1>2. pools[0] = s /\ \A k \in 0 .. n : k # 0 => pools[k] = Map!KickId(pools[k - 1], dead[k].id)
        BY <1>1
    <1>3. 0 \in T
        <2>1. Left(0) = IdsOf(s.maps)
            OBVIOUS
        <2> QED
            <3>1. Fine(pools[0], 0)
                BY <2>1, <1>2
            <3> QED
                BY <3>1, <1>1
    <1>4. ASSUME NEW k \in 0 .. n - 1, k \in T PROVE k + 1 \in T
        <2> DEFINE h == pools[k]
                   id == dead[k + 1].id
        <2>1. k + 1 \in 1 .. n /\ k + 1 \in 0 .. n /\ k + 1 # 0 /\ (k + 1) - 1 = k
            BY <1>1
        <2>2. pools[k + 1] = Map!KickId(h, id)
            BY <2>1, <1>2
        <2>3. h \in IoRecs /\ h.maps = s.maps /\ h.skyline = s.skyline /\ Pool(h, Left(k))
            BY <1>4
        <2>4. id \in Left(k)
            <3>1. id \in IdsOf(s.maps)
                BY <1>1, <2>1 DEF IdsOf
            <3>2. \A j \in 1 .. k : j \in 1 .. n /\ j # k + 1
                BY <1>1
            <3>3. \A j \in 1 .. k : dead[j].id # id
                BY <3>2, <2>1, <1>1 DEF Distinct
            <3> QED
                BY <3>1, <3>3
        <2>5. Left(k) \ {id} = Left(k + 1)
            <3>1. \A j \in 1 .. k + 1 : j \in 1 .. k \/ j = k + 1
                BY <1>1
            <3>2. 1 .. k \subseteq 1 .. k + 1 /\ k + 1 \in 1 .. k + 1
                BY <1>1
            <3>3. {dead[j].id : j \in 1 .. k + 1} = {dead[j].id : j \in 1 .. k} \cup {id}
                BY <3>1, <3>2
            <3> QED
                BY <3>3
        <2> HIDE DEF h, id, Left
        <2>6. id \in Nat
            BY <1>1, <2>1 DEF id
        <2>7. /\ Map!KickId(h, id) \in IoRecs /\ Map!KickId(h, id).maps = h.maps
              /\ Map!KickId(h, id).skyline = h.skyline /\ Pool(Map!KickId(h, id), Left(k) \ {id})
            BY <2>3, <2>4, <2>6, KickFacts
        <2>8. Fine(pools[k + 1], k + 1)
            BY <2>2, <2>3, <2>5, <2>7
        <2> QED
            BY <2>1, <2>8
    <1> HIDE DEF T
    <1>5. n \in T
        <2>1. 0 .. n \subseteq T
            BY <1>1, <1>3, <1>4, Induction
        <2> QED
            BY <2>1, <1>1
    <1>6. Fine(pools[n], n)
        BY <1>5 DEF T
    <1>7. Left(n) = IdsOf(s.maps) \ IdsOf(dead)
        BY <1>1 DEF IdsOf
    <1> QED
        BY <1>6, <1>7

\* The loop over them has values.
LEMMA PoolLoop ==
    ASSUME NEW s \in IoRecs, NEW dead \in Seq(MapRecs)
    PROVE  \E h : h = [k \in 0 .. Len(dead) |-> IF k = 0 THEN s ELSE Map!KickId(h[k - 1], dead[k].id)]
    <1> DEFINE n == Len(dead)
               G == [b \in (1 .. n) \X IoRecs |-> Map!KickId(b[2], dead[b[1]].id)]
    <1>1. n \in Nat /\ \A k \in 1 .. n : dead[k].id \in Nat
        BY ListOfMaps
    <1>2. \A k \in 1 .. n : \A x \in IoRecs : Map!KickId(x, dead[k].id) \in IoRecs
        BY <1>1, KickFacts
    <1>3. \A k \in 1 .. n : \A x \in IoRecs : G[<<k, x>>] = Map!KickId(x, dead[k].id)
        OBVIOUS
    <1> HIDE DEF G
    <1>4. PICK g \in [0 .. n -> IoRecs] : g[0] = s /\ \A k \in 1 .. n : g[k] = G[<<k, g[k - 1]>>]
        <2>1. Loops(IoRecs, n, G)
            BY <1>2, <1>3 DEF Loops
        <2> HIDE DEF n
        <2> QED
            BY <2>1, <1>1, LoopExists DEF IsLoop
    <1>5. ASSUME NEW k \in 0 .. n, k # 0 PROVE g[k] = Map!KickId(g[k - 1], dead[k].id)
        <2>1. k \in 1 .. n /\ k - 1 \in 0 .. n
            BY <1>5, <1>1
        <2>2. g[k - 1] \in IoRecs
            BY <2>1, <1>4
        <2> QED
            BY <2>1, <2>2, <1>3, <1>4
    <1>6. g = [k \in 0 .. n |-> IF k = 0 THEN s ELSE Map!KickId(g[k - 1], dead[k].id)]
        <2>1. \A k \in 0 .. n : g[k] = IF k = 0 THEN s ELSE Map!KickId(g[k - 1], dead[k].id)
            BY <1>4, <1>5
        <2> QED
            BY <1>4, <2>1
    <1> QED
        BY <1>6

\* map_del of some maps: the others stay, in their order, and no id in use is free.
LEMMA MapsDelGood ==
    ASSUME NEW s, NEW F, NEW L, Good(s, F, L, IdsOf(s.maps)), NEW gone, NEW G,
           \A k \in DOMAIN s.maps : s.maps[k] \notin gone => s.maps[k].fd \in G
    PROVE  LET t == Map!MapsDel(s, gone) IN Good(t, G, L, IdsOf(t.maps))
    <1> DEFINE c == s.maps
               dead == Only(c, gone)
               Is(h) == h = [k \in 0 .. Len(dead) |-> IF k = 0 THEN s ELSE Map!KickId(h[k - 1], dead[k].id)]
               pools == CHOOSE h : Is(h)
               p == pools[Len(dead)]
               kept == Only(c, Map!ToSet(c) \ gone)
               t == Map!MapsDel(s, gone)
    <1>1. t = [p EXCEPT !.maps = Only(p.maps, Map!ToSet(p.maps) \ gone)]
        BY MapOnlyIs DEF Map!MapsDel
    <1>2. c \in Seq(MapRecs) /\ DOMAIN c \subseteq Int /\ s \in IoRecs
        <2>1. c \in Seq(MapRecs) /\ s \in IoRecs
            BY GoodFacts DEF Good
        <2> QED
            BY <2>1, ListOfMaps
    <1>3. dead \in Seq(MapRecs) /\ kept \in Seq(MapRecs) /\ DOMAIN dead \subseteq Int /\ DOMAIN kept \subseteq Int
        <2>1. dead \in Seq(MapRecs) /\ kept \in Seq(MapRecs)
            BY <1>2, OnlyOrder
        <2> QED
            BY <2>1, ListOfMaps
    <1>4. PICK dpos : Chosen(dead, c, gone, dpos)
        BY <1>2, OnlyOrder
    <1>5. PICK kpos : Chosen(kept, c, Map!ToSet(c) \ gone, kpos)
        BY <1>2, OnlyOrder
    <1> HIDE DEF c, dead, kept
    <1>6. Drawn(dead, c) /\ Drawn(kept, c)
        BY <1>2, <1>3, <1>4, <1>5, ChosenDrawn
    <1>7. Is(pools)
        <2>1. \E h : Is(h)
            BY <1>2, <1>3, PoolLoop
        <2> HIDE DEF Is
        <2> QED
            BY <2>1
    <1> HIDE DEF pools
    <1>8. Distinct(dead)
        <2> SUFFICES ASSUME NEW j \in DOMAIN dead, NEW k \in DOMAIN dead, dead[j].id = dead[k].id PROVE j = k
            BY DEF Distinct
        <2>1. PICK pos \in [DOMAIN dead -> DOMAIN c] :
                /\ \A i \in DOMAIN dead : dead[i] = c[pos[i]]
                /\ \A i, l \in DOMAIN dead : pos[i] = pos[l] => i = l
            BY <1>6 DEF DrawnAt, Drawn
        <2>2. c[pos[j]].id = c[pos[k]].id /\ pos[j] \in DOMAIN c /\ pos[k] \in DOMAIN c
            BY <2>1
        <2>3. pos[j] = pos[k]
            BY <2>2 DEF Good, Distinct, c
        <2> QED
            BY <2>1, <2>3
    <1>9. Pool(s, IdsOf(c)) /\ IdsOf(dead) \subseteq IdsOf(c)
        BY <1>6, DrawnIds DEF Good, c
    <1>10. p \in IoRecs /\ p.maps = c /\ p.skyline = s.skyline /\ Pool(p, IdsOf(c) \ IdsOf(dead))
        BY <1>2, <1>3, <1>7, <1>8, <1>9, PoolSteps DEF c
    <1> HIDE DEF p, t
    <1>11. t = [p EXCEPT !.maps = kept]
        BY <1>1, <1>10 DEF kept
    <1>12. /\ t \in IoRecs /\ t.maps = kept /\ t.skyline = s.skyline
           /\ t.next_id = p.next_id /\ t.freed_ids = p.freed_ids
        BY <1>3, <1>10, <1>11 DEF IoRecs
    <1>13. IdsOf(kept) \subseteq IdsOf(c) \ IdsOf(dead)
        <2>0. IdsOf(kept) \subseteq IdsOf(c)
            BY <1>6, DrawnIds
        <2> SUFFICES ASSUME NEW i \in DOMAIN kept, NEW j \in DOMAIN dead, kept[i].id = dead[j].id PROVE FALSE
            BY <2>0, Zenon DEF IdsOf
        <2>1. kpos[i] \in DOMAIN c /\ kept[i] = c[kpos[i]] /\ c[kpos[i]] \notin gone
            BY <1>5 DEF Chosen
        <2>2. dpos[j] \in DOMAIN c /\ dead[j] = c[dpos[j]] /\ c[dpos[j]] \in gone
            BY <1>4 DEF Chosen
        <2>3. kpos[i] = dpos[j]
            BY <2>1, <2>2 DEF Good, Distinct, c
        <2> QED
            BY <2>1, <2>2, <2>3
    <1>14. Pool(t, IdsOf(kept))
        <2>1. Pool(p, IdsOf(kept))
            BY <1>10, <1>13, LessPool
        <2> QED
            BY <2>1, <1>12 DEF Pool
    <1>15. \A k \in DOMAIN kept : kept[k].fd \in G
        <2> SUFFICES ASSUME NEW k \in DOMAIN kept PROVE kept[k].fd \in G
            OBVIOUS
        <2>1. kpos[k] \in DOMAIN c /\ kept[k] = c[kpos[k]] /\ c[kpos[k]] \notin gone
            BY <1>5 DEF Chosen
        <2> QED
            BY <2>1 DEF c
    <1>16. Tidy(t.skyline, L)
        BY <1>12 DEF Good
    <1>17. Good(t, G, L, IdsOf(t.maps))
        BY <1>6, <1>12, <1>14, <1>15, <1>16, DrawnGood DEF c
    <1> QED
        BY <1>17 DEF t

\* Remainders of what is one round too much or too little.
LEMMA ModRound ==
    ASSUME NEW w \in Nat \ {0}
    PROVE  /\ \A x \in w .. 2 * w - 1 : x % w = x - w
           /\ \A x \in -w .. -1 : x % w = x + w
    OBVIOUS

\* The sums in an interval that wraps.
Rounds(w, addr, size, delta) ==
    /\ (-addr) % w = w - addr /\ (size + addr) % w = (size + addr) - w /\ (delta - addr) % w \in 0 .. w - 1
    /\ \A j \in 0 .. size - 1 :
         /\ j < w - addr => (addr + j) % w = addr + j
         /\ j >= w - addr => /\ (addr + j) % w = (addr + j) - w
                             /\ (((delta - addr) % w) + ((addr + j) - w)) % w = (delta + j) % w

\* The arithmetic of an interval that wraps.
LEMMA WrapArith ==
    ASSUME NEW w \in Nat \ {0}, NEW addr \in 1 .. w - 1, NEW size \in 0 .. w - 1, addr + size > w,
           NEW delta \in 0 .. w - 1
    PROVE  Rounds(w, addr, size, delta)
    <1>1. /\ \A x \in 0 .. w - 1 : x % w = x
          /\ \A x \in 1 .. w - 1 : (-x) % w = w - x
          /\ \A x \in Int : x % w \in 0 .. w - 1
        BY ModFacts
    <1>2. /\ \A x \in w .. 2 * w - 1 : x % w = x - w
          /\ \A x \in -w .. -1 : x % w = x + w
        BY ModRound
    <1>3. (-addr) % w = w - addr
        BY <1>1
    <1>4. (size + addr) % w = (size + addr) - w
        <2>1. size + addr \in w .. 2 * w - 1
            OBVIOUS
        <2> QED
            BY <2>1, <1>2
    <1>5. (delta - addr) % w \in 0 .. w - 1
        <2>1. delta - addr \in Int
            OBVIOUS
        <2> QED
            BY <2>1, <1>1
    <1>6. ASSUME NEW j \in 0 .. size - 1, j < w - addr PROVE (addr + j) % w = addr + j
        <2>1. addr + j \in 0 .. w - 1
            BY <1>6
        <2> QED
            BY <2>1, <1>1
    <1>7. ASSUME NEW j \in 0 .. size - 1, j >= w - addr
          PROVE  /\ (addr + j) % w = (addr + j) - w
                 /\ (((delta - addr) % w) + ((addr + j) - w)) % w = (delta + j) % w
        <2>1. addr + j \in w .. 2 * w - 1
            BY <1>7
        <2>2. (addr + j) % w = (addr + j) - w
            BY <2>1, <1>2
        <2>3. CASE delta < addr
            <3>1. delta - addr \in -w .. -1
                BY <2>3
            <3>2. (delta - addr) % w = (delta - addr) + w
                BY <3>1, <1>2
            <3>3. (((delta - addr) % w) + ((addr + j) - w)) = delta + j
                BY <3>2
            <3> QED
                BY <2>2, <3>3
        <2>4. CASE delta >= addr
            <3>1. delta - addr \in 0 .. w - 1
                BY <2>4
            <3>2. (delta - addr) % w = delta - addr
                BY <3>1, <1>1
            <3>3. (((delta - addr) % w) + ((addr + j) - w)) = (delta + j) - w
                BY <3>2
            <3>4. delta + j \in w .. 2 * w - 1 /\ (delta + j) - w \in 0 .. w - 1
                BY <2>4, <1>7
            <3>5. (delta + j) % w = (delta + j) - w /\ ((delta + j) - w) % w = (delta + j) - w
                BY <3>4, <1>1, <1>2
            <3> QED
                BY <2>2, <3>3, <3>5
        <2> QED
            BY <2>3, <2>4
    <1> QED
        BY <1>3, <1>4, <1>5, <1>6, <1>7 DEF Rounds

\* Some map shows the j-th byte of what was asked for, and no later one covers it.
ShownAll(c, fd, delta, addr, size) ==
    \A j \in 0 .. size - 1 : \E k \in DOMAIN c :
      /\ IsLast(c, Len(c), (addr + j) % W, k) /\ c[k].fd = fd
      /\ (c[k].delta + (((addr + j) % W) - c[k].addr)) % W = (delta + j) % W

\* io_map_new of an interval that does not wrap shows it all.
LEMMA PlainShows ==
    ASSUME WAssumption, NEW c \in Seq(MapRecs), NEW id \in Nat, NEW fd, NEW delta \in Addr, NEW addr \in Addr,
           NEW size \in Addr, addr + size <= W
    PROVE  ShownAll(Append(c, NewMap(id, fd, delta, addr, size)), fd, delta, addr, size)
    <1> DEFINE m == NewMap(id, fd, delta, addr, size)
               d == Append(c, m)
               n == Len(c)
    <1>1. n \in Nat /\ DOMAIN d = 1 .. n + 1 /\ Len(d) = n + 1 /\ d[n + 1] = m
        OBVIOUS
    <1>2. m.addr = addr /\ m.size = size /\ m.delta = delta /\ m.fd = fd
        BY DEF NewMap
    <1>3. \A a : \A k : IsLast(d, n + 1, a, k) <=> IF Covers(m, a) THEN k = n + 1 ELSE IsLast(c, n, a, k)
        BY LastAppended
    <1> HIDE DEF m, d, n
    <1>4. ASSUME NEW j \in 0 .. size - 1
          PROVE  \E k \in DOMAIN d : /\ IsLast(d, Len(d), (addr + j) % W, k) /\ d[k].fd = fd
                                     /\ (d[k].delta + (((addr + j) % W) - d[k].addr)) % W = (delta + j) % W
        <2>1. addr + j \in 0 .. W - 1 /\ addr \in Nat /\ size \in Nat /\ j \in Nat /\ W \in Nat \ {0} /\ delta \in Nat
            BY DEF Addr, WAssumption
        <2>2. (addr + j) % W = addr + j
            BY <2>1, ModFacts
        <2>3. Covers(m, addr + j)
            BY <2>1, <1>2 DEF Covers, Stop
        <2>4. IsLast(d, n + 1, addr + j, n + 1) /\ n + 1 \in DOMAIN d
            BY <1>1, <1>3, <2>3
        <2>5. delta + ((addr + j) - addr) = delta + j
            BY <2>1
        <2> QED
            BY <2>2, <2>4, <2>5, <1>1, <1>2
    <1>5. ShownAll(d, fd, delta, addr, size)
        BY <1>4 DEF ShownAll
    <1> QED
        BY <1>5 DEF d, m

\* So do the two maps of one that wraps.
LEMMA WrapShows ==
    ASSUME WAssumption, NEW c \in Seq(MapRecs), NEW id \in Nat, NEW low \in Nat, NEW fd, NEW delta \in Addr,
           NEW addr \in Addr \ {0}, NEW size \in Addr, addr + size > W
    PROVE  ShownAll(Append(Append(c, NewMap(low, fd, (delta - addr) % W, 0, (size + addr) % W)),
                           NewMap(id, fd, delta, addr, (-addr) % W)),
                    fd, delta, addr, size)
    <1> DEFINE l == NewMap(low, fd, (delta - addr) % W, 0, (size + addr) % W)
               h == NewMap(id, fd, delta, addr, (-addr) % W)
               b == Append(c, l)
               d == Append(b, h)
               n == Len(c)
    <1>0. /\ W \in Nat \ {0} /\ addr \in 1 .. W - 1 /\ size \in 0 .. W - 1 /\ delta \in 0 .. W - 1
        BY DEF Addr, WAssumption
    <1>a. /\ (-addr) % W = W - addr /\ (size + addr) % W = (size + addr) - W /\ (delta - addr) % W \in 0 .. W - 1
          /\ \A j \in 0 .. size - 1 :
                /\ j < W - addr => (addr + j) % W = addr + j
                /\ j >= W - addr => /\ (addr + j) % W = (addr + j) - W
                                    /\ (((delta - addr) % W) + ((addr + j) - W)) % W = (delta + j) % W
        <2>1. Rounds(W, addr, size, delta)
            BY <1>0, WrapArith
        <2> QED
            BY <2>1 DEF Rounds
    <1>1. /\ n \in Nat /\ DOMAIN d = 1 .. n + 2 /\ Len(d) = n + 2 /\ d[n + 2] = h /\ d[n + 1] = l
          /\ Len(b) = n + 1 /\ b \in Seq(MapRecs \cup {l}) /\ (n + 1) + 1 = n + 2
        OBVIOUS
    <1>2. /\ h.addr = addr /\ h.size = W - addr /\ h.delta = delta /\ h.fd = fd
          /\ l.addr = 0 /\ l.size = (size + addr) - W /\ l.delta = (delta - addr) % W /\ l.fd = fd
        BY <1>a DEF NewMap
    <1>3. \A a : \A k : IsLast(b, n + 1, a, k) <=> IF Covers(l, a) THEN k = n + 1 ELSE IsLast(c, n, a, k)
        BY LastAppended
    <1>4. \A a : \A k : IsLast(d, n + 2, a, k) <=> IF Covers(h, a) THEN k = n + 2 ELSE IsLast(b, n + 1, a, k)
        <2> DEFINE T == MapRecs \cup {l}
        <2>1. b \in Seq(T)
            BY <1>1
        <2> HIDE DEF T, b, l, h
        <2> QED
            BY <2>1, <1>1, LastAppended
    <1> HIDE DEF l, h, b, d, n
    <1>5. ASSUME NEW j \in 0 .. size - 1
          PROVE  \E k \in DOMAIN d : /\ IsLast(d, Len(d), (addr + j) % W, k) /\ d[k].fd = fd
                                     /\ (d[k].delta + (((addr + j) % W) - d[k].addr)) % W = (delta + j) % W
        <2>1. CASE j < W - addr
            <3>1. (addr + j) % W = addr + j
                BY <2>1, <1>a
            <3>2. Covers(h, addr + j)
                BY <1>0, <2>1, <1>2 DEF Covers, Stop
            <3>3. IsLast(d, n + 2, addr + j, n + 2) /\ n + 2 \in DOMAIN d
                BY <1>1, <1>4, <3>2
            <3>4. delta + ((addr + j) - addr) = delta + j
                BY <1>0
            <3> QED
                BY <3>1, <3>3, <3>4, <1>1, <1>2
        <2>2. CASE j >= W - addr
            <3> DEFINE a == (addr + j) - W
            <3>1. (addr + j) % W = a /\ (((delta - addr) % W) + a) % W = (delta + j) % W
                BY <2>2, <1>a
            <3>2. a \in Nat /\ a < addr /\ a < (size + addr) - W
                BY <1>0, <2>2
            <3> HIDE DEF a
            <3>3. Covers(l, a) /\ ~Covers(h, a)
                BY <1>0, <3>2, <1>2 DEF Covers, Stop
            <3>4. IsLast(d, n + 2, a, n + 1) /\ n + 1 \in DOMAIN d
                BY <1>1, <1>3, <1>4, <3>3
            <3>5. a - 0 = a
                BY <3>2
            <3> QED
                BY <3>1, <3>4, <3>5, <1>1, <1>2
        <2> QED
            BY <1>0, <2>1, <2>2
    <1>6. ShownAll(d, fd, delta, addr, size)
        BY <1>5 DEF ShownAll
    <1> QED
        BY <1>6 DEF d, b, l, h

\* The test of io_map_new for an interval that goes past the last address.
LEMMA WrapsIs ==
    ASSUME WAssumption, NEW addr \in Addr, NEW size \in Addr
    PROVE  Map!Wraps(addr, size) <=> addr + size > W
    BY DEF Map!Wraps, Addr, WAssumption

\* io_map_new: both maps of an interval that wraps have ids of their own, and all of the interval is shown.
LEMMA NewWrapGood ==
    ASSUME WAssumption, NEW L \in 1 .. W - 1, NEW s, NEW F \in SUBSET Fds, Good(s, F, L, IdsOf(s.maps)),
           Shows(s.maps, s.skyline, L), NEW fd \in F, NEW delta \in Addr, NEW size \in Addr, L + size > W
    PROVE  LET t == Map!MapNew(s, fd, delta, L, size)
           IN  /\ Good(t, F, L, IdsOf(t.maps)) /\ Shows(t.maps, t.skyline, L)
               /\ ShownAll(t.maps, fd, delta, L, size)
    <1> DEFINE id == Map!NextId(s)
               s1 == Map!GrabId(s)
               S1 == IdsOf(s.maps) \cup {id}
               low == Map!NextId(s1)
               dl == (delta - L) % W
               zl == (size + L) % W
               zh == (-L) % W
               t1 == Map!MapNewPlain(s1, fd, dl, 0, zl)
               S2 == S1 \cup {low}
               t == Map!MapNew(s, fd, delta, L, size)
    <1>0. /\ W \in Nat \ {0} /\ L \in Addr \ {0} /\ L \in 0 .. W - 1 /\ size \in 0 .. W - 1 /\ delta \in 0 .. W - 1
        BY DEF Addr, WAssumption
    <1>1. /\ zh = W - L /\ zl = (size + L) - W /\ dl \in 0 .. W - 1
        <2>1. Rounds(W, L, size, delta)
            BY <1>0, WrapArith
        <2> QED
            BY <2>1 DEF Rounds
    <1>2. t = Map!PushMap(t1, id, fd, delta, L, zh)
        <2>1. Map!Wraps(L, size)
            BY <1>0, WrapsIs
        <2> QED
            BY <2>1 DEF Map!MapNew
    <1>3. /\ Good(s1, F, L, S1) /\ id \in Nat /\ id \notin IdsOf(s.maps)
          /\ s1.maps = s.maps /\ s1.skyline = s.skyline
        BY GrabGood
    <1> HIDE DEF id, s1, S1, dl, zl, zh
    <1>4. dl \in Addr /\ zl \in Addr /\ zh \in Addr /\ 0 \in Addr
        BY <1>0, <1>1 DEF Addr
    <1>5. \A i : Placed(NewMap(i, fd, dl, 0, zl), L)
        <2>1. 1 <= 0 + zl /\ 0 + zl <= L
            BY <1>0, <1>1
        <2> QED
            BY <2>1 DEF NewMap, Placed, Stop
    <1>6. Placed(NewMap(id, fd, delta, L, zh), L)
        <2>1. L + zh = W
            BY <1>0, <1>1
        <2> QED
            BY <2>1 DEF NewMap, Placed, Stop
    <1>13. low \in Nat /\ low \notin S1 /\ Pushed(t1, s1, F, L, S2, NewMap(low, fd, dl, 0, zl))
        BY <1>0, <1>3, <1>4, <1>5, NewPlainGood
    <1>7. /\ low \in Nat /\ low \notin S1 /\ Good(t1, F, L, S2)
          /\ t1.maps = Append(s1.maps, NewMap(low, fd, dl, 0, zl))
          /\ IdsOf(t1.maps) = IdsOf(s1.maps) \cup {low}
          /\ Shows(s1.maps, s1.skyline, L) => Shows(t1.maps, t1.skyline, L)
        BY <1>13 DEF Pushed, NewMap
    <1> HIDE DEF low, t1, S2
    <1>8. id \in S2 /\ id \notin IdsOf(t1.maps)
        BY <1>3, <1>7 DEF S1, S2
    <1> HIDE DEF t
    <1>9. /\ Good(t, F, L, S2) /\ t.maps = Append(t1.maps, NewMap(id, fd, delta, L, zh))
          /\ Shows(t1.maps, t1.skyline, L) => Shows(t.maps, t.skyline, L)
        <2>1. Pushed(Map!PushMap(t1, id, fd, delta, L, zh), t1, F, L, S2, NewMap(id, fd, delta, L, zh))
            BY <1>0, <1>4, <1>6, <1>7, <1>8, PushGood
        <2> QED
            BY <2>1, <1>2 DEF Pushed
    <1>10. Good(t, F, L, IdsOf(t.maps))
        BY <1>9, OwnIds
    <1>11. Shows(t.maps, t.skyline, L)
        BY <1>3, <1>7, <1>9
    <1>12. ShownAll(t.maps, fd, delta, L, size)
        <2>1. s.maps \in Seq(MapRecs)
            BY GoodFacts
        <2>2. t.maps = Append(Append(s.maps, NewMap(low, fd, dl, 0, zl)), NewMap(id, fd, delta, L, zh))
            BY <1>3, <1>7, <1>9
        <2> DEFINE d == Append(Append(s.maps, NewMap(low, fd, (delta - L) % W, 0, (size + L) % W)),
                               NewMap(id, fd, delta, L, (-L) % W))
        <2>3. ShownAll(d, fd, delta, L, size)
            BY <1>0, <1>3, <1>7, <2>1, WrapShows
        <2>4. t.maps = d
            BY <2>2 DEF dl, zl, zh
        <2> QED
            BY <2>3, <2>4
    <1> QED
        BY <1>10, <1>11, <1>12 DEF t

\* An interval that may be asked for: one that is placed, or wraps.
Askable(itv, L) == Placed(itv, L) \/ (itv.addr = L /\ Stop(itv) > W)

\* io_map_new.
LEMMA NewGood ==
    ASSUME WAssumption, NEW L \in 1 .. W - 1, NEW s, NEW F \in SUBSET Fds, Good(s, F, L, IdsOf(s.maps)),
           Shows(s.maps, s.skyline, L), NEW fd \in F, NEW delta \in Addr,
           NEW itv \in [addr : Addr, size : Addr], Askable(itv, L)
    PROVE  LET t == Map!MapNew(s, fd, delta, itv.addr, itv.size)
           IN  /\ Good(t, F, L, IdsOf(t.maps)) /\ Shows(t.maps, t.skyline, L)
               /\ ShownAll(t.maps, fd, delta, itv.addr, itv.size)
    <1> DEFINE addr == itv.addr
               size == itv.size
               t == Map!MapNew(s, fd, delta, addr, size)
    <1>1. addr \in Addr /\ size \in Addr /\ L \in 0 .. W - 1 /\ W \in Nat \ {0}
        BY DEF WAssumption
    <1>2. CASE addr + size > W
        <2>1. addr = L
            BY <1>1, <1>2 DEF Askable, Placed, Stop, Addr
        <2> HIDE DEF size
        <2> QED
            BY <1>1, <1>2, <2>1, NewWrapGood DEF size
    <1>3. CASE ~(addr + size > W)
        <2>1. Placed(itv, L) /\ addr + size <= W
            BY <1>1, <1>3 DEF Askable, Stop, Addr
        <2>2. t = Map!MapNewPlain(s, fd, delta, addr, size)
            <3>1. ~Map!Wraps(addr, size)
                BY <1>1, <1>3, WrapsIs
            <3> QED
                BY <3>1 DEF Map!MapNew
        <2>3. \A i : Placed(NewMap(i, fd, delta, addr, size), L)
            BY <2>1 DEF Placed, NewMap, Stop
        <2> DEFINE S == IdsOf(s.maps)
                   id == Map!NextId(s)
        <2> HIDE DEF addr, size, S
        <2>4. /\ id \in Nat /\ id \notin S /\ Good(t, F, L, S \cup {id})
              /\ t.maps = Append(s.maps, NewMap(id, fd, delta, addr, size))
              /\ IdsOf(t.maps) = IdsOf(s.maps) \cup {id}
              /\ Shows(s.maps, s.skyline, L) => Shows(t.maps, t.skyline, L)
            <3>1. Good(s, F, L, S)
                BY DEF S
            <3>2. /\ id \in Nat /\ id \notin S
                  /\ Pushed(t, s, F, L, S \cup {id}, NewMap(id, fd, delta, addr, size))
                BY <3>1, <1>1, <2>2, <2>3, NewPlainGood
            <3> QED
                BY <3>2 DEF Pushed, NewMap
        <2>5. Good(t, F, L, IdsOf(t.maps))
            <3> DEFINE R == S \cup {id}
            <3>1. Good(t, F, L, R)
                BY <2>4
            <3> HIDE DEF R, t
            <3> QED
                BY <3>1, OwnIds
        <2>6. ShownAll(t.maps, fd, delta, addr, size)
            <3>1. s.maps \in Seq(MapRecs)
                BY GoodFacts
            <3> QED
                BY <1>1, <2>1, <2>4, <3>1, PlainShows
        <2> QED
            BY <2>4, <2>5, <2>6 DEF addr, size
    <1> QED
        BY <1>2, <1>3

\* The maps, the pool and the skyline agree.
MapsOk(t, F, L) == Good(t, F, L, IdsOf(t.maps)) /\ Shows(t.maps, t.skyline, L)

\* io_map_calculate_skyline makes the skyline agree.
LEMMA CalculatedOk ==
    ASSUME WAssumption, NEW L \in 0 .. W - 1, NEW s, NEW F, NEW S, Good(s, F, L, S)
    PROVE  MapsOk(Map!Calculated(s), F, L)
    <1> DEFINE t == Map!Calculated(s)
    <1>1. Good(t, F, L, S) /\ t.maps = s.maps /\ Shows(s.maps, t.skyline, L)
        BY CalculatedFacts
    <1> HIDE DEF t
    <1>2. Good(t, F, L, IdsOf(t.maps))
        BY <1>1, OwnIds
    <1>3. MapsOk(t, F, L)
        BY <1>1, <1>2 DEF MapsOk
    <1> QED
        BY <1>3 DEF t

\* The part of an interval that wraps which is a map at 0.
LEMMA LowGood ==
    ASSUME WAssumption, NEW L \in 1 .. W - 1, NEW s, NEW F \in SUBSET Fds, NEW S, Good(s, F, L, S),
           NEW fd \in F, NEW delta \in Addr, NEW size \in Addr, L + size > W
    PROVE  \E id : Pushed(Map!MapNew(s, fd, (delta - L) % W, 0, (size + L) % W), s, F, L, S \cup {id},
                          NewMap(id, fd, (delta - L) % W, 0, (size + L) % W))
    <1> DEFINE dl == (delta - L) % W
               zl == (size + L) % W
    <1>0. /\ W \in Nat \ {0} /\ L \in 1 .. W - 1 /\ L \in 0 .. W - 1 /\ size \in 0 .. W - 1 /\ delta \in 0 .. W - 1
        BY DEF Addr, WAssumption
    <1>1. zl = (size + L) - W /\ dl \in 0 .. W - 1
        <2>1. Rounds(W, L, size, delta)
            BY <1>0, WrapArith
        <2> QED
            BY <2>1 DEF Rounds
    <1> HIDE DEF dl, zl
    <1>4. dl \in Addr /\ zl \in Addr /\ 0 \in Addr
        BY <1>0, <1>1 DEF Addr
    <1>5. \A i : Placed(NewMap(i, fd, dl, 0, zl), L)
        <2>1. 1 <= 0 + zl /\ 0 + zl <= L
            BY <1>0, <1>1
        <2> QED
            BY <2>1 DEF NewMap, Placed, Stop
    <1>6. ~Map!Wraps(0, zl)
        <2>1. ~(0 + zl > W)
            BY <1>0, <1>1
        <2> QED
            BY <2>1, <1>4, WrapsIs
    <1>7. Map!MapNew(s, fd, dl, 0, zl) = Map!MapNewPlain(s, fd, dl, 0, zl)
        BY <1>6 DEF Map!MapNew
    <1>8. Pushed(Map!MapNewPlain(s, fd, dl, 0, zl), s, F, L, S \cup {Map!NextId(s)}, NewMap(Map!NextId(s), fd, dl, 0, zl))
        BY <1>0, <1>4, <1>5, NewPlainGood
    <1> QED
        BY <1>7, <1>8 DEF dl, zl

\* rz_io_map_remap.
LEMMA RemapOk ==
    ASSUME WAssumption, NEW L \in 1 .. W - 1, NEW s, NEW F \in SUBSET Fds, MapsOk(s, F, L),
           NEW k \in DOMAIN s.maps, NEW itv \in [addr : Addr, size : Addr], Askable(itv, L),
           s.maps[k].size = itv.size
    PROVE  LET m == s.maps[k]
               moved == [s EXCEPT !.maps[k].addr = itv.addr]
           IN  MapsOk(Map!Calculated(
                 IF Map!Wraps(itv.addr, m.size)
                 THEN Map!MapNew([moved EXCEPT !.maps[k].size = (-itv.addr) % W], m.fd,
                                 (m.delta - itv.addr) % W, 0, (m.size + itv.addr) % W)
                 ELSE moved), F, L)
    <1> DEFINE S == IdsOf(s.maps)
               m == s.maps[k]
               addr == itv.addr
               size == itv.size
               moved == [s EXCEPT !.maps[k].addr = addr]
               m1 == [m EXCEPT !.addr = addr]
    <1>0. W \in Nat \ {0} /\ L \in 0 .. W - 1 /\ addr \in Addr /\ size \in Addr
        BY DEF WAssumption
    <1>1. Good(s, F, L, S) /\ m \in MapRecs /\ m.fd \in F /\ m.delta \in Addr /\ m.size = size
        <2>1. Good(s, F, L, S)
            BY DEF MapsOk
        <2>2. m \in MapRecs
            BY <2>1, GoodFacts
        <2> QED
            BY <2>1, <2>2 DEF Good, MapRecs
    <1> HIDE DEF S
    <1>2. m1 \in MapRecs /\ m1.id = m.id /\ m1.fd = m.fd /\ m1.addr = addr /\ m1.size = size
        BY <1>0, <1>1 DEF MapRecs
    <1>3. moved = [s EXCEPT !.maps = [s.maps EXCEPT ![k] = m1]]
        OBVIOUS
    <1>4. CASE ~(addr + size > W)
        <2>1. Placed(itv, L)
            BY <1>4 DEF Askable, Stop
        <2>2. Placed(m1, L)
            BY <2>1, <1>2 DEF Placed, Stop
        <2> HIDE DEF m1, moved
        <2>3. Good(moved, F, L, S)
            BY <1>1, <1>2, <1>3, <2>2, ReplaceGood
        <2>4. ~Map!Wraps(addr, m.size)
            BY <1>0, <1>1, <1>4, WrapsIs
        <2>5. MapsOk(Map!Calculated(moved), F, L)
            BY <1>0, <2>3, CalculatedOk
        <2> QED
            BY <2>4, <2>5 DEF moved
    <1>5. CASE addr + size > W
        <2>1. addr = L
            BY <1>0, <1>5 DEF Askable, Placed, Stop, Addr
        <2> DEFINE z == (-addr) % W
                   m2 == [m1 EXCEPT !.size = z]
                   cut == [moved EXCEPT !.maps[k].size = z]
        <2>2. z = W - L /\ z \in Addr
            <3>1. (-L) % W = W - L
                BY <1>0, ModFacts
            <3>2. W - L \in Addr
                BY <1>0 DEF Addr
            <3> QED
                BY <2>1, <3>1, <3>2
        <2> HIDE DEF z
        <2>3. m2 \in MapRecs /\ m2.id = m.id /\ m2.fd = m.fd /\ m2.addr = L /\ m2.size = z
            <3> HIDE DEF m1
            <3> QED
                BY <1>2, <2>1, <2>2 DEF MapRecs
        <2>4. Placed(m2, L)
            <3>1. L + z = W
                BY <1>0, <2>2
            <3> QED
                BY <3>1, <2>3 DEF Placed, Stop
        <2>5. cut = [s EXCEPT !.maps = [s.maps EXCEPT ![k] = m2]]
            <3>1. s \in IoRecs /\ DOMAIN s.maps = 1 .. Len(s.maps)
                BY <1>1, GoodFacts DEF Good
            <3> DEFINE d == [s.maps EXCEPT ![k] = m1]
            <3>2. moved.maps = d
                BY <1>3, <3>1 DEF IoRecs
            <3>3. d[k] = m1
                OBVIOUS
            <3>4. [d EXCEPT ![k] = m2] = [s.maps EXCEPT ![k] = m2]
                OBVIOUS
            <3>5. cut = [moved EXCEPT !.maps = [d EXCEPT ![k] = [d[k] EXCEPT !.size = z]]]
                BY <3>2
            <3>6. cut = [moved EXCEPT !.maps = [s.maps EXCEPT ![k] = m2]]
                BY <3>3, <3>4, <3>5
            <3> HIDE DEF cut, m2
            <3> QED
                BY <3>6
        <2> HIDE DEF m1, m2, moved, cut
        <2>6. Good(cut, F, L, S)
            BY <1>1, <2>3, <2>4, <2>5, ReplaceGood
        <2>7. Map!Wraps(addr, m.size)
            BY <1>0, <1>1, <1>5, WrapsIs
        <2> DEFINE t == Map!MapNew(cut, m.fd, (m.delta - L) % W, 0, (size + L) % W)
                   low(id) == NewMap(id, m.fd, (m.delta - L) % W, 0, (size + L) % W)
        <2>8. PICK id : Pushed(t, cut, F, L, S \cup {id}, low(id))
            <3>1. L + size > W
                BY <2>1, <1>5
            <3> HIDE DEF m, size
            <3> QED
                BY <1>0, <1>1, <2>6, <3>1, LowGood
        <2> DEFINE R == S \cup {id}
        <2>9. Good(t, F, L, R)
            BY <2>8 DEF Pushed
        <2> HIDE DEF t, R
        <2>10. MapsOk(Map!Calculated(t), F, L)
            BY <1>0, <2>9, CalculatedOk
        <2> QED
            BY <1>1, <2>1, <2>7, <2>10 DEF t, cut, moved, z
    <1> QED
        BY <1>4, <1>5

\* rz_io_map_resize: where the skyline is not calculated again the interval of the map stays as it is.
LEMMA ResizeOk ==
    ASSUME WAssumption, NEW L \in 1 .. W - 1, NEW s, NEW F \in SUBSET Fds, MapsOk(s, F, L),
           NEW k \in DOMAIN s.maps, NEW itv \in [addr : Addr, size : Addr], Askable(itv, L),
           s.maps[k].addr = itv.addr
    PROVE  LET m == s.maps[k]
           IN  MapsOk(IF Map!Wraps(m.addr, itv.size)
                      THEN Map!MapNew([s EXCEPT !.maps[k].size = (-m.addr) % W], m.fd,
                                      (m.delta - m.addr) % W, 0, (itv.size + m.addr) % W)
                      ELSE Map!Calculated([s EXCEPT !.maps[k].size = itv.size]), F, L)
    <1> DEFINE S == IdsOf(s.maps)
               m == s.maps[k]
               addr == itv.addr
               size == itv.size
               m1 == [m EXCEPT !.size = size]
               new == [s EXCEPT !.maps[k].size = size]
    <1>0. W \in Nat \ {0} /\ L \in 0 .. W - 1 /\ addr \in Addr /\ size \in Addr
        BY DEF WAssumption
    <1>1. Good(s, F, L, S) /\ m \in MapRecs /\ m.fd \in F /\ m.delta \in Addr /\ m.addr = addr /\ Placed(m, L)
        <2>1. Good(s, F, L, S)
            BY DEF MapsOk
        <2>2. m \in MapRecs
            BY <2>1, GoodFacts
        <2> QED
            BY <2>1, <2>2 DEF Good, MapRecs
    <1> HIDE DEF S
    <1>2. m1 \in MapRecs /\ m1.id = m.id /\ m1.fd = m.fd /\ m1.addr = addr /\ m1.size = size
        BY <1>0, <1>1 DEF MapRecs
    <1>3. new = [s EXCEPT !.maps = [s.maps EXCEPT ![k] = m1]]
        OBVIOUS
    <1>4. CASE ~(addr + size > W)
        <2>1. Placed(itv, L)
            BY <1>4 DEF Askable, Stop
        <2>2. Placed(m1, L)
            BY <2>1, <1>2 DEF Placed, Stop
        <2> HIDE DEF m1, new
        <2>3. Good(new, F, L, S)
            BY <1>1, <1>2, <1>3, <2>2, ReplaceGood
        <2>4. ~Map!Wraps(m.addr, size)
            BY <1>0, <1>1, <1>4, WrapsIs
        <2>5. MapsOk(Map!Calculated(new), F, L)
            BY <1>0, <2>3, CalculatedOk
        <2> QED
            BY <2>4, <2>5 DEF new
    <1>5. CASE addr + size > W
        <2>1. addr = L
            BY <1>0, <1>5 DEF Askable, Placed, Stop, Addr
        <2> DEFINE z == (-m.addr) % W
                   cut == [s EXCEPT !.maps[k].size = z]
        <2>2. z = W - L /\ m.addr = L
            BY <1>0, <1>1, <2>1, ModFacts
        <2> HIDE DEF z
        <2>3. m.size = z
            BY <1>0, <1>1, <2>2 DEF Placed, Stop, MapRecs, Addr
        <2>4. cut = s
            <3>1. [m EXCEPT !.size = z] = m
                BY <1>1, <2>3 DEF MapRecs
            <3>2. s.maps = [j \in DOMAIN s.maps |-> s.maps[j]]
                BY <1>1, GoodFacts
            <3>3. [s.maps EXCEPT ![k] = m] = s.maps
                BY <3>2
            <3>4. [s EXCEPT !.maps = s.maps] = s
                BY <1>1 DEF Good, IoRecs
            <3>5. cut = [s EXCEPT !.maps = [s.maps EXCEPT ![k] = [m EXCEPT !.size = z]]]
                OBVIOUS
            <3> HIDE DEF cut
            <3> QED
                BY <3>1, <3>3, <3>4, <3>5
        <2> HIDE DEF cut
        <2>5. Map!Wraps(m.addr, size)
            BY <1>0, <1>1, <1>5, WrapsIs
        <2> DEFINE t == Map!MapNew(s, m.fd, (m.delta - L) % W, 0, (size + L) % W)
                   low(id) == NewMap(id, m.fd, (m.delta - L) % W, 0, (size + L) % W)
        <2>6. PICK id : Pushed(t, s, F, L, S \cup {id}, low(id))
            <3>1. L + size > W
                BY <2>1, <1>5
            <3> HIDE DEF m, size
            <3> QED
                BY <1>0, <1>1, <3>1, LowGood
        <2> DEFINE R == S \cup {id}
        <2>7. Good(t, F, L, R) /\ Shows(t.maps, t.skyline, L)
            BY <2>6 DEF Pushed, MapsOk
        <2> HIDE DEF t, R
        <2>8. Good(t, F, L, IdsOf(t.maps))
            BY <2>7, OwnIds
        <2>9. MapsOk(t, F, L)
            BY <2>7, <2>8 DEF MapsOk
        <2> QED
            BY <2>2, <2>4, <2>5, <2>9 DEF t, cut, z
    <1> QED
        BY <1>4, <1>5

\* The list without a map, which was the k-th of it.
LEMMA WithoutFacts ==
    ASSUME NEW c \in Seq(MapRecs), Distinct(c), NEW k \in DOMAIN c
    PROVE  /\ Map!Without(c, c[k]) \in Seq(MapRecs)
           /\ \E pos : /\ Chosen(Map!Without(c, c[k]), c, Map!ToSet(c) \ {c[k]}, pos)
                       /\ \A j \in DOMAIN Map!Without(c, c[k]) : pos[j] # k
    <1> DEFINE S == Map!ToSet(c) \ {c[k]}
               d == Map!Without(c, c[k])
    <1>1. d = Only(c, S)
        BY MapOnlyIs DEF Map!Without
    <1>2. d \in Seq(MapRecs) /\ \E pos : Chosen(d, c, S, pos)
        <2> HIDE DEF S, d
        <2> QED
            BY <1>1, OnlyOrder
    <1>3. PICK pos : Chosen(d, c, S, pos)
        BY <1>2
    <1>4. \A j \in DOMAIN d : pos[j] # k
        BY <1>3 DEF Chosen
    <1> QED
        BY <1>2, <1>3, <1>4

\* A map moved to the end of the list is drawn from it, and so is one moved to the front.
LEMMA MovedDrawn ==
    ASSUME NEW c \in Seq(MapRecs), Distinct(c), NEW k \in DOMAIN c
    PROVE  LET d == Map!Without(c, c[k])
           IN  /\ Append(d, c[k]) \in Seq(MapRecs) /\ Drawn(Append(d, c[k]), c)
               /\ <<c[k]>> \o d \in Seq(MapRecs) /\ Drawn(<<c[k]>> \o d, c)
    <1> DEFINE d == Map!Without(c, c[k])
               m == c[k]
               n == Len(d)
               back == Append(d, m)
               front == <<m>> \o d
    <1>1. PICK pos : Chosen(d, c, Map!ToSet(c) \ {m}, pos) /\ \A j \in DOMAIN d : pos[j] # k
        BY WithoutFacts
    <1>2. d \in Seq(MapRecs) /\ m \in MapRecs
        <2>1. d \in Seq(MapRecs)
            BY WithoutFacts
        <2> QED
            BY <2>1
    <1> HIDE DEF d, m
    <1>3. /\ n \in Nat /\ DOMAIN d = 1 .. n /\ DOMAIN d \subseteq Int /\ DOMAIN c \subseteq Int
          /\ back \in Seq(MapRecs) /\ DOMAIN back = 1 .. n + 1 /\ back[n + 1] = m
          /\ \A j \in 1 .. n : back[j] = d[j]
          /\ front \in Seq(MapRecs) /\ DOMAIN front = 1 .. n + 1 /\ front[1] = m
          /\ \A j \in 2 .. n + 1 : front[j] = d[j - 1]
        BY <1>2
    <1>4. /\ pos \in [1 .. n -> DOMAIN c] /\ \A j \in 1 .. n : d[j] = c[pos[j]] /\ pos[j] # k
          /\ \A i, j \in 1 .. n : i < j => pos[i] < pos[j]
        BY <1>1, <1>3 DEF Chosen
    <1> HIDE DEF n, back, front
    <1>5. \A i, j \in 1 .. n : pos[i] = pos[j] => i = j
        <2> SUFFICES ASSUME NEW i \in 1 .. n, NEW j \in 1 .. n, pos[i] = pos[j] PROVE i = j
            OBVIOUS
        <2>1. pos[i] \in Int /\ pos[j] \in Int
            BY <1>3, <1>4
        <2>2. ~(i < j) /\ ~(j < i)
            BY <1>4, <2>1
        <2> QED
            BY <2>2, <1>3
    <1>6. Drawn(back, c)
        <2> DEFINE p == [j \in 1 .. n + 1 |-> IF j = n + 1 THEN k ELSE pos[j]]
        <2>1. \A j \in 1 .. n + 1 : j = n + 1 \/ (j \in 1 .. n /\ j # n + 1)
            BY <1>3
        <2>2. p \in [DOMAIN back -> DOMAIN c]
            BY <2>1, <1>3, <1>4
        <2>3. \A j \in 1 .. n + 1 : back[j] = c[p[j]]
            BY <2>1, <1>3, <1>4 DEF m
        <2>4. \A i, j \in 1 .. n + 1 : p[i] = p[j] => i = j
            BY <2>1, <1>4, <1>5
        <2> HIDE DEF p
        <2>5. DrawnAt(back, c, p)
            BY <2>2, <2>3, <2>4, <1>3 DEF DrawnAt
        <2> QED
            BY <2>5 DEF Drawn
    <1>7. Drawn(front, c)
        <2> DEFINE p == [j \in 1 .. n + 1 |-> IF j = 1 THEN k ELSE pos[j - 1]]
        <2>1. \A j \in 1 .. n + 1 : j = 1 \/ (j \in 2 .. n + 1 /\ j # 1 /\ j - 1 \in 1 .. n)
            BY <1>3
        <2>2. p \in [DOMAIN front -> DOMAIN c]
            BY <2>1, <1>3, <1>4
        <2>3. \A j \in 1 .. n + 1 : front[j] = c[p[j]]
            BY <2>1, <1>3, <1>4 DEF m
        <2>4. ASSUME NEW i \in 1 .. n + 1, NEW j \in 1 .. n + 1, p[i] = p[j] PROVE i = j
            <3>1. CASE i = 1 \/ j = 1
                BY <3>1, <2>1, <2>4, <1>4
            <3>2. CASE i # 1 /\ j # 1
                <4>1. i - 1 \in 1 .. n /\ j - 1 \in 1 .. n /\ pos[i - 1] = pos[j - 1]
                    BY <3>2, <2>1, <2>4
                <4>2. i - 1 = j - 1
                    BY <4>1, <1>5
                <4> QED
                    BY <4>2
            <3> QED
                BY <3>1, <3>2
        <2> HIDE DEF p
        <2>5. DrawnAt(front, c, p)
            BY <2>2, <2>3, <2>4, <1>3 DEF DrawnAt
        <2> QED
            BY <2>5 DEF Drawn
    <1> QED
        BY <1>3, <1>6, <1>7 DEF back, front, d, m

\* Two lists drawn from one that have nothing in common, one after the other.
LEMMA JoinedDrawn ==
    ASSUME NEW c \in Seq(MapRecs), NEW S
    PROVE  LET a == Only(c, Map!ToSet(c) \ S)
               b == Only(c, S)
           IN  a \o b \in Seq(MapRecs) /\ Drawn(a \o b, c)
    <1> DEFINE R == Map!ToSet(c) \ S
               a == Only(c, R)
               b == Only(c, S)
               j == a \o b
               n == Len(a)
               l == Len(b)
    <1>1. PICK apos : Chosen(a, c, R, apos)
        BY OnlyOrder
    <1>2. PICK bpos : Chosen(b, c, S, bpos)
        BY OnlyOrder
    <1>3. a \in Seq(MapRecs) /\ b \in Seq(MapRecs) /\ DOMAIN c \subseteq Int
        BY OnlyOrder
    <1> HIDE DEF a, b
    <1>4. /\ n \in Nat /\ l \in Nat /\ DOMAIN a = 1 .. n /\ DOMAIN b = 1 .. l
          /\ j \in Seq(MapRecs) /\ DOMAIN j = 1 .. n + l
          /\ \A i \in 1 .. n : j[i] = a[i]
          /\ \A i \in n + 1 .. n + l : j[i] = b[i - n]
        BY <1>3
    <1> HIDE DEF n, l, j
    <1>5. /\ apos \in [1 .. n -> DOMAIN c] /\ \A i \in 1 .. n : a[i] = c[apos[i]] /\ c[apos[i]] \notin S
          /\ \A i, h \in 1 .. n : i < h => apos[i] < apos[h]
        BY <1>1, <1>4 DEF Chosen
    <1>6. /\ bpos \in [1 .. l -> DOMAIN c] /\ \A i \in 1 .. l : b[i] = c[bpos[i]] /\ c[bpos[i]] \in S
          /\ \A i, h \in 1 .. l : i < h => bpos[i] < bpos[h]
        BY <1>2, <1>4 DEF Chosen
    <1> DEFINE p == [i \in 1 .. n + l |-> IF i <= n THEN apos[i] ELSE bpos[i - n]]
    <1>7. \A i \in 1 .. n + l : \/ i \in 1 .. n /\ i <= n
                                \/ i \in n + 1 .. n + l /\ ~(i <= n) /\ i - n \in 1 .. l
        BY <1>4
    <1>8. /\ \A i \in 1 .. n : i \in 1 .. n + l /\ p[i] = apos[i]
          /\ \A i \in n + 1 .. n + l : i \in 1 .. n + l /\ p[i] = bpos[i - n] /\ i - n \in 1 .. l
        BY <1>4
    <1>9. p \in [DOMAIN j -> DOMAIN c]
        BY <1>4, <1>5, <1>6, <1>7
    <1> HIDE DEF p
    <1>10. \A i \in 1 .. n + l : j[i] = c[p[i]]
        BY <1>4, <1>5, <1>6, <1>7, <1>8
    <1>11. ASSUME NEW i \in 1 .. n + l, NEW h \in 1 .. n + l, i < h, p[i] = p[h] PROVE FALSE
        <2>1. CASE h \in 1 .. n
            <3>1. i \in 1 .. n /\ apos[i] = apos[h] /\ apos[i] \in Int
                BY <2>1, <1>3, <1>4, <1>5, <1>8, <1>11
            <3> QED
                BY <3>1, <2>1, <1>5, <1>11
        <2>2. CASE i \in n + 1 .. n + l
            <3>1. h \in n + 1 .. n + l /\ i - n \in 1 .. l /\ h - n \in 1 .. l /\ i - n < h - n
                BY <2>2, <1>4, <1>11
            <3>2. bpos[i - n] = bpos[h - n] /\ bpos[i - n] \in Int
                BY <2>2, <3>1, <1>3, <1>6, <1>8, <1>11
            <3> QED
                BY <3>1, <3>2, <1>6
        <2>3. CASE i \in 1 .. n /\ h \in n + 1 .. n + l
            <3>1. c[apos[i]] \notin S /\ c[bpos[h - n]] \in S /\ apos[i] = bpos[h - n]
                BY <2>3, <1>5, <1>6, <1>8, <1>11
            <3> QED
                BY <3>1
        <2> QED
            BY <2>1, <2>2, <2>3, <1>4, <1>7
    <1>12. ASSUME NEW i \in 1 .. n + l, NEW h \in 1 .. n + l, p[i] = p[h] PROVE i = h
        <2>1. ~(i < h) /\ ~(h < i)
            BY <1>11, <1>12
        <2> QED
            BY <2>1, <1>4
    <1>13. Drawn(j, c)
        <2>1. DrawnAt(j, c, p)
            BY <1>4, <1>9, <1>10, <1>12 DEF DrawnAt
        <2> QED
            BY <2>1 DEF Drawn
    <1> QED
        BY <1>4, <1>13 DEF j, a, b

\* rz_io_map_priorize: the skyline, which showed the map at its old place, shows it on top.
LEMMA PriorizedShows ==
    ASSUME WAssumption, NEW L \in 0 .. W - 1, NEW c \in Seq(MapRecs), Distinct(c), NEW sky, Shows(c, sky, L),
           \A i \in DOMAIN c : Ranged(c[i], L), NEW k \in DOMAIN c
    PROVE  Shows(Append(Map!Without(c, c[k]), c[k]), SkylineAdd(sky, c[k], c[k].id), L)
    <1> DEFINE m == c[k]
               d == Map!Without(c, m)
               e == Append(d, m)
               n == Len(d)
               S == Map!ToSet(c) \ {m}
               new == SkylineAdd(sky, m, m.id)
    <1>1. d \in Seq(MapRecs) /\ \E pos : Chosen(d, c, S, pos)
        BY WithoutFacts
    <1>2. PICK pos : Chosen(d, c, S, pos)
        BY <1>1
    <1>3. m \in MapRecs /\ Ranged(m, L) /\ m.id \in Nat /\ m.addr \in Nat /\ m.size \in Nat
        BY DEF Ranged
    <1> HIDE DEF d
    <1>4. /\ n \in Nat /\ DOMAIN d = 1 .. n /\ Len(e) = n + 1
          /\ DOMAIN e = 1 .. n + 1 /\ e[n + 1] = m /\ \A i \in 1 .. n : e[i] = d[i]
        BY <1>1
    <1>5. \A a : \A i : IsLast(e, n + 1, a, i) <=> IF Covers(m, a) THEN i = n + 1 ELSE IsLast(d, n, a, i)
        <2> HIDE DEF m
        <2> QED
            BY <1>1, LastAppended
    <1>6. ASSUME NEW a \in Nat, ~Covers(m, a)
          PROVE  \A q : IsLast(c, Len(c), a, q) <=> \E j : IsLast(d, n, a, j) /\ q = pos[j]
        <2>1. \A i \in DOMAIN c : Covers(c[i], a) => c[i] \in S
            BY <1>6 DEF Map!ToSet
        <2> HIDE DEF S, m
        <2> QED
            BY <1>1, <1>2, <2>1, LastChosen, SMTT(40)
    <1>7. \A j \in 1 .. n : pos[j] \in DOMAIN c /\ d[j] = c[pos[j]]
        BY <1>2, <1>4 DEF Chosen
    <1>8. \A i \in DOMAIN c : i # k => \E j \in 1 .. n : d[j] = c[i]
        <2> SUFFICES ASSUME NEW i \in DOMAIN c, i # k PROVE \E j \in 1 .. n : d[j] = c[i]
            OBVIOUS
        <2>1. c[i] \in S
            BY DEF Distinct, Map!ToSet
        <2>2. PICK j \in DOMAIN d : pos[j] = i
            BY <1>2, <2>1 DEF Chosen
        <2> QED
            BY <2>2, <1>4, <1>7
    <1>9. Tidy(sky, L) /\ Fit(m, L)
        BY <1>3 DEF Shows, Ranged
    <1> HIDE DEF m, e, n, S
    <1>10. /\ Tidy(new, L)
           /\ \A a \in Nat : \A u : Has(new, a, u) <=> IF Covers(m, a) THEN u = m.id ELSE Has(sky, a, u)
           /\ \A i \in DOMAIN new :
                \/ new[i].user = m.id /\ new[i].addr = m.addr /\ new[i].size = m.size
                \/ \E j \in DOMAIN sky : /\ new[i].user = sky[j].user /\ sky[j].addr <= new[i].addr
                                         /\ Stop(new[i]) <= Stop(sky[j])
        BY <1>3, <1>9, SkylineAddFacts
    <1> HIDE DEF new
    <1>11. ASSUME NEW a \in Nat, NEW u PROVE Has(new, a, u) <=> \E i : IsLast(e, Len(e), a, i) /\ e[i].id = u
        <2>1. CASE Covers(m, a)
            BY <2>1, <1>4, <1>5, <1>10
        <2>2. CASE ~Covers(m, a)
            <3>1. Has(new, a, u) <=> \E q : IsLast(c, Len(c), a, q) /\ c[q].id = u
                BY <2>2, <1>10 DEF Shows
            <3>2. \A j : IsLast(d, n, a, j) => j \in 1 .. n
                BY DEF IsLast
            <3>3. \A j : IsLast(d, n, a, j) => e[j] = c[pos[j]]
                BY <3>2, <1>4, <1>7
            <3>4. \A q : IsLast(c, Len(c), a, q) <=> \E j : IsLast(d, n, a, j) /\ q = pos[j]
                BY <1>6, <2>2
            <3>5. (\E q : IsLast(c, Len(c), a, q) /\ c[q].id = u) <=> \E j : IsLast(d, n, a, j) /\ e[j].id = u
                BY <3>3, <3>4
            <3>6. \A i : IsLast(e, Len(e), a, i) <=> IsLast(d, n, a, i)
                BY <1>4, <1>5, <2>2
            <3> QED
                BY <3>1, <3>5, <3>6
        <2> QED
            BY <2>1, <2>2
    <1>12. ASSUME NEW i \in DOMAIN new
           PROVE  \E j \in DOMAIN e : e[j].id = new[i].user /\ e[j].addr <= new[i].addr /\ Stop(new[i]) <= Stop(e[j])
        <2>1. CASE new[i].user = m.id /\ new[i].addr = m.addr /\ new[i].size = m.size
            <3>1. Stop(new[i]) = Stop(m) /\ Stop(m) \in Nat
                BY <2>1, <1>3 DEF Stop
            <3>2. n + 1 \in DOMAIN e
                BY <1>4
            <3> QED
                BY <2>1, <3>1, <3>2, <1>3, <1>4
        <2>2. CASE \E j \in DOMAIN sky : /\ new[i].user = sky[j].user /\ sky[j].addr <= new[i].addr
                                         /\ Stop(new[i]) <= Stop(sky[j])
            <3>1. PICK j \in DOMAIN sky : /\ new[i].user = sky[j].user /\ sky[j].addr <= new[i].addr
                                          /\ Stop(new[i]) <= Stop(sky[j])
                BY <2>2
            <3>2. PICK q \in DOMAIN c : /\ c[q].id = sky[j].user /\ c[q].addr <= sky[j].addr
                                        /\ Stop(sky[j]) <= Stop(c[q])
                BY DEF Shows
            <3>3. PICK h \in DOMAIN e : e[h] = c[q]
                <4>1. CASE q = k
                    BY <4>1, <1>4 DEF m
                <4>2. CASE q # k
                    <5>1. PICK h \in 1 .. n : d[h] = c[q]
                        BY <4>2, <1>8
                    <5>2. h \in DOMAIN e /\ e[h] = c[q]
                        BY <5>1, <1>4
                    <5> QED
                        BY <5>2
                <4> QED
                    BY <4>1, <4>2
            <3>4. sky[j] \in Parts /\ new[i] \in Parts /\ c[q].addr \in Nat /\ c[q].size \in Nat
                BY <1>9, <1>10 DEF Tidy, Ranged
            <3>5. /\ c[q].addr \in Nat /\ Stop(c[q]) \in Nat /\ sky[j].addr \in Nat /\ Stop(sky[j]) \in Nat
                  /\ new[i].addr \in Nat /\ Stop(new[i]) \in Nat
                <4> HIDE DEF new
                <4>1. Stop(c[q]) \in Nat
                    BY <3>4 DEF Stop
                <4>2. sky[j].addr \in Nat /\ Stop(sky[j]) \in Nat /\ new[i].addr \in Nat /\ Stop(new[i]) \in Nat
                    BY <3>4, PartFacts
                <4> QED
                    BY <3>4, <4>1, <4>2
            <3>6. e[h].id = new[i].user
                BY <3>1, <3>2, <3>3
            <3>7. e[h].addr <= new[i].addr
                BY <3>1, <3>2, <3>3, <3>5
            <3>8. Stop(e[h]) = Stop(c[q])
                BY <3>3 DEF Stop
            <3>9. Stop(new[i]) <= Stop(e[h])
                <4> HIDE DEF e, new, m, d
                <4> QED
                    BY <3>1, <3>2, <3>5, <3>8
            <3> QED
                BY <3>3, <3>6, <3>7, <3>9
        <2> QED
            BY <1>10, <2>1, <2>2
    <1>13. Shows(e, new, L)
        BY <1>10, <1>11, <1>12 DEF Shows
    <1> QED
        BY <1>13 DEF e, d, m, new

\* rz_io_map_priorize.
LEMMA PriorizeOk ==
    ASSUME WAssumption, NEW L \in 0 .. W - 1, NEW s, NEW F, MapsOk(s, F, L), NEW k \in DOMAIN s.maps
    PROVE  LET m == s.maps[k]
           IN  MapsOk([s EXCEPT !.maps = Append(Map!Without(s.maps, m), m),
                                !.skyline = SkylineAdd(s.skyline, m, m.id)], F, L)
    <1> DEFINE c == s.maps
               m == c[k]
               e == Append(Map!Without(c, m), m)
               sky == SkylineAdd(s.skyline, m, m.id)
               t == [s EXCEPT !.maps = e, !.skyline = sky]
               S == IdsOf(c)
    <1>1. Good(s, F, L, S) /\ Shows(c, s.skyline, L)
        BY DEF MapsOk
    <1>2. c \in Seq(MapRecs) /\ Distinct(c) /\ \A i \in DOMAIN c : Ranged(c[i], L)
        BY <1>1, GoodFacts DEF Good
    <1>3. Shows(e, sky, L)
        <2> DEFINE old == s.skyline
        <2>1. Shows(c, old, L)
            BY <1>1
        <2> HIDE DEF c, old
        <2> QED
            BY <1>2, <2>1, PriorizedShows DEF old, c
    <1>4. e \in Seq(MapRecs) /\ Drawn(e, c)
        <2> HIDE DEF c
        <2> QED
            BY <1>2, MovedDrawn DEF c
    <1> HIDE DEF e, sky, S
    <1>5. Tidy(sky, L)
        BY <1>3 DEF Shows
    <1>8. t = [s EXCEPT !.maps = e, !.skyline = sky]
        OBVIOUS
    <1> HIDE DEF t
    <1>6. Good(t, F, L, IdsOf(t.maps)) /\ t.maps = e /\ t.skyline = sky
        <2>1. Good(s, F, L, S) /\ Drawn(e, s.maps)
            BY <1>1, <1>4
        <2>2. e \in Seq(MapRecs)
            BY <1>4
        <2>3. Good(t, F, L, IdsOf(t.maps))
            BY <2>1, <2>2, <1>5, <1>8, MovedGood
        <2>4. t.maps = e
            BY <2>1, <1>8 DEF Good, IoRecs
        <2>5. t.skyline = sky
            BY <2>1, <1>8 DEF Good, IoRecs
        <2> QED
            BY <2>3, <2>4, <2>5
    <1>7. MapsOk(t, F, L)
        BY <1>3, <1>6 DEF MapsOk
    <1> QED
        BY <1>7 DEF t, e, sky

\* The maps in another order, with the skyline calculated again.
LEMMA ReorderedOk ==
    ASSUME WAssumption, NEW L \in 0 .. W - 1, NEW s, NEW F, MapsOk(s, F, L), NEW d \in Seq(MapRecs), Drawn(d, s.maps)
    PROVE  MapsOk(Map!Calculated([s EXCEPT !.maps = d]), F, L)
    <1> DEFINE t == [s EXCEPT !.maps = d]
               S == IdsOf(s.maps)
               sky == s.skyline
    <1>1. Good(s, F, L, S) /\ Tidy(sky, L) /\ s \in IoRecs
        BY DEF MapsOk, Good
    <1>2. t = [s EXCEPT !.maps = d, !.skyline = sky]
        BY <1>1 DEF IoRecs
    <1> HIDE DEF t, S, sky
    <1>3. Good(t, F, L, IdsOf(t.maps))
        BY <1>1, <1>2, MovedGood
    <1> DEFINE R == IdsOf(t.maps)
    <1> HIDE DEF R
    <1>4. MapsOk(Map!Calculated(t), F, L)
        BY <1>3, CalculatedOk
    <1> QED
        BY <1>4 DEF t

\* map_del of some maps and io_map_calculate_skyline.
LEMMA DeletedOk ==
    ASSUME WAssumption, NEW L \in 0 .. W - 1, NEW s, NEW F, MapsOk(s, F, L), NEW gone, NEW G,
           \A k \in DOMAIN s.maps : s.maps[k] \notin gone => s.maps[k].fd \in G
    PROVE  MapsOk(Map!Calculated(Map!MapsDel(s, gone)), G, L)
    <1> DEFINE t == Map!MapsDel(s, gone)
               S == IdsOf(t.maps)
    <1>1. Good(t, G, L, S)
        BY MapsDelGood DEF MapsOk
    <1> HIDE DEF t, S
    <1> QED
        BY <1>1, CalculatedOk DEF t

\* Below some address L no interval comes near the last address, and from L on there is one that reaches it,
\* perhaps one that goes past it too.
Apart(L) == \A itv \in MapIntervals : Askable(itv, L)

\* The maps of the open descriptors agree with the skyline and the pool, and a new map shows all.
MapInv(L) ==
    /\ files \subseteq Fds /\ MapsOk(io, files, L)
    /\ Map!NewMapShowsAll

\* What the assumptions on the constants say.
LEMMA MapConstants ==
    /\ WAssumption /\ Delta \in Addr /\ MapIntervals \subseteq [addr : Addr, size : Addr]
    BY MapAssumption DEF Map!IoMapsAssumption, Map!WAssumption, WAssumption, Map!Addr, Addr

\* What the skyline gives is the last map that covers an address.
LEMMA GetIsLast ==
    ASSUME WAssumption, NEW L \in 0 .. W - 1, NEW s, NEW F, MapsOk(s, F, L), NEW a \in Addr
    PROVE  /\ \A k : IsLast(s.maps, Len(s.maps), a, k) => SkylineGet(s.skyline, a) = s.maps[k].id
           /\ (\A k : ~IsLast(s.maps, Len(s.maps), a, k)) => SkylineGet(s.skyline, a) = None
    <1> DEFINE sky == s.skyline
    <1>1. /\ Tidy(sky, L) /\ a \in Nat
          /\ \A u : Has(sky, a, u) <=> \E k : IsLast(s.maps, Len(s.maps), a, k) /\ s.maps[k].id = u
        BY DEF MapsOk, Shows, Addr
    <1> HIDE DEF sky
    <1>2. /\ \A u : Has(sky, a, u) => SkylineGet(sky, a) = u
          /\ (\A u : ~Has(sky, a, u)) => SkylineGet(sky, a) = None
        BY <1>1, SkylineGetFacts
    <1> QED
        BY <1>1, <1>2 DEF sky

\* NewMapShowsAll of any maps and any request.
ShowsNew(s, l) ==
    \A j \in 0 .. (l.size - 1) :
      LET a == (l.addr + j) % W
          id == SkylineGet(s.skyline, a)
          m == s.maps[CHOOSE k \in DOMAIN s.maps : s.maps[k].id = id]
      IN  /\ id \in IdsOf(s.maps) /\ m.fd = l.fd
          /\ (m.delta + (a - m.addr)) % W = (l.delta + j) % W

\* It is what the module says.
LEMMA ShowsNewIs ==
    /\ Map!NewMapShowsAll <=> ShowsNew(io, last)
    /\ Map!NewMapShowsAll' <=> ShowsNew(io', last')
    BY MapGetIs, Zenon DEF Map!NewMapShowsAll, ShowsNew, Map!Ids, Map!Index, IdsOf

\* A map that was asked for, all of which is shown, is shown by the skyline.
LEMMA AllIsShown ==
    ASSUME WAssumption, NEW L \in 0 .. W - 1, NEW s, NEW F, MapsOk(s, F, L), NEW l, l.addr \in Nat, l.size \in Nat,
           ShownAll(s.maps, l.fd, l.delta, l.addr, l.size)
    PROVE  ShowsNew(s, l)
    <1> SUFFICES ASSUME NEW j \in 0 .. (l.size - 1)
                 PROVE  LET a == (l.addr + j) % W
                            id == SkylineGet(s.skyline, a)
                            m == s.maps[CHOOSE k \in DOMAIN s.maps : s.maps[k].id = id]
                        IN  /\ id \in IdsOf(s.maps) /\ m.fd = l.fd
                            /\ (m.delta + (a - m.addr)) % W = (l.delta + j) % W
        BY DEF ShowsNew
    <1> DEFINE a == (l.addr + j) % W
               c == s.maps
    <1>1. PICK k \in DOMAIN c : /\ IsLast(c, Len(c), a, k) /\ c[k].fd = l.fd
                                /\ (c[k].delta + (a - c[k].addr)) % W = (l.delta + j) % W
        BY DEF ShownAll
    <1>2. a \in Addr
        <2>1. l.addr + j \in Int /\ W \in Nat \ {0}
            BY DEF WAssumption
        <2> QED
            BY <2>1, ModFacts DEF Addr
    <1> HIDE DEF a
    <1>3. SkylineGet(s.skyline, a) = c[k].id
        BY <1>1, <1>2, GetIsLast
    <1>4. c[k].id \in IdsOf(c)
        BY DEF IdsOf
    <1>5. Distinct(c)
        BY DEF MapsOk, Good
    <1>6. (CHOOSE i \in DOMAIN c : c[i].id = c[k].id) = k
        BY <1>5 DEF Distinct
    <1> QED
        BY <1>1, <1>3, <1>4, <1>6 DEF a

\* The maps and the skyline of the first state, and after rz_io_map_reset.
LEMMA EmptyOk ==
    ASSUME NEW L, NEW F
    PROVE  MapsOk([maps |-> <<>>, skyline |-> <<>>, next_id |-> 1, freed_ids |-> <<>>], F, L)
    <1> DEFINE s == [maps |-> <<>>, skyline |-> <<>>, next_id |-> 1, freed_ids |-> <<>>]
    <1>1. Shows(s.maps, s.skyline, L)
        BY EmptyShows
    <1>2. s \in IoRecs /\ Tidy(s.skyline, L)
        BY <1>1 DEF IoRecs, Shows
    <1>3. Good(s, F, L, IdsOf(s.maps))
        BY <1>2 DEF Good, Distinct, IdsOf, Pool
    <1> HIDE DEF s
    <1>4. MapsOk(s, F, L)
        BY <1>1, <1>3 DEF MapsOk
    <1> QED
        BY <1>4 DEF s

\* Nothing was added: nothing is to be shown.
LEMMA NoNewMap ==
    ASSUME NEW s, NEW l, l = Map!NoMap
    PROVE  ShowsNew(s, l)
    BY DEF ShowsNew, Map!NoMap

\* There are no maps at first.
LEMMA MapInvInit ==
    ASSUME NEW L
    PROVE  Map!Init => MapInv(L)
    BY EmptyOk, NoNewMap, ShowsNewIs DEF Map!Init, MapInv

\* The map that an id names.
LEMMA IndexIs ==
    ASSUME NEW id \in Map!Ids
    PROVE  Map!Index(id) \in DOMAIN io.maps /\ io.maps[Map!Index(id)].id = id
    BY DEF Map!Ids, Map!Index

\* rz_io_map_add keeps the invariant.
LEMMA AddInv ==
    ASSUME NEW L \in 1 .. W - 1, Apart(L), MapInv(L), NEW fd \in Fds, NEW itv \in MapIntervals, Map!Add(fd, itv)
    PROVE  MapInv(L)'
    <1>1. WAssumption /\ Delta \in Addr /\ itv \in [addr : Addr, size : Addr] /\ Askable(itv, L) /\ L \in 0 .. W - 1
        BY MapConstants DEF Apart
    <1>2. MapsOk(io, files, L) /\ files \in SUBSET Fds /\ fd \in files /\ files' = files
        BY DEF MapInv, Map!Add
    <1>3. Good(io, files, L, IdsOf(io.maps)) /\ Shows(io.maps, io.skyline, L)
        BY <1>2 DEF MapsOk
    <1>4. io' = Map!MapNew(io, fd, Delta, itv.addr, itv.size)
        BY DEF Map!Add
    <1>5. /\ Good(io', files, L, IdsOf(io'.maps)) /\ Shows(io'.maps, io'.skyline, L)
          /\ ShownAll(io'.maps, fd, Delta, itv.addr, itv.size)
        BY <1>1, <1>2, <1>3, <1>4, NewGood
    <1>6. MapsOk(io', files, L)
        BY <1>5 DEF MapsOk
    <1>7. /\ last'.addr = itv.addr /\ last'.size = itv.size /\ last'.fd = fd /\ last'.delta = Delta
          /\ itv.addr \in Nat /\ itv.size \in Nat
        BY <1>1 DEF Map!Add, Addr
    <1>8. Map!NewMapShowsAll'
        <2>1. /\ MapsOk(io', files, L) /\ last'.addr \in Nat /\ last'.size \in Nat
              /\ ShownAll(io'.maps, last'.fd, last'.delta, last'.addr, last'.size)
            BY <1>5, <1>6, <1>7
        <2>2. ShowsNew(io', last')
            BY <1>1, <2>1, AllIsShown
        <2> QED
            BY <2>2, ShowsNewIs
    <1> QED
        BY <1>2, <1>6, <1>8 DEF MapInv

\* The maps agree and nothing was added.
LEMMA NothingNew ==
    ASSUME NEW L, files' \in SUBSET Fds, MapsOk(io', files', L), last' = Map!NoMap
    PROVE  MapInv(L)'
    <1>1. Map!NewMapShowsAll'
        BY NoNewMap, ShowsNewIs
    <1> QED
        BY <1>1 DEF MapInv

\* What the invariant says, and the assumptions.
LEMMA InvFacts ==
    ASSUME NEW L \in 1 .. W - 1, Apart(L), MapInv(L)
    PROVE  /\ WAssumption /\ L \in 0 .. W - 1 /\ MapsOk(io, files, L) /\ files \in SUBSET Fds
           /\ io.maps \in Seq(MapRecs) /\ Distinct(io.maps)
           /\ \A k \in DOMAIN io.maps : io.maps[k].fd \in files
           /\ \A itv \in MapIntervals : itv \in [addr : Addr, size : Addr] /\ Askable(itv, L)
    <1>1. WAssumption /\ L \in 0 .. W - 1 /\ MapsOk(io, files, L) /\ files \in SUBSET Fds
        BY MapConstants DEF MapInv
    <1>2. Good(io, files, L, IdsOf(io.maps))
        BY <1>1 DEF MapsOk
    <1>3. io.maps \in Seq(MapRecs) /\ Distinct(io.maps) /\ \A k \in DOMAIN io.maps : io.maps[k].fd \in files
        BY <1>2 DEF Good, IoRecs
    <1> QED
        BY <1>1, <1>3, MapConstants DEF Apart

\* rz_io_map_remap keeps the invariant.
LEMMA RemapInv ==
    ASSUME NEW L \in 1 .. W - 1, Apart(L), MapInv(L), NEW id \in Map!Ids, NEW itv \in MapIntervals,
           io.maps[Map!Index(id)].size = itv.size, Map!Remap(id, itv.addr)
    PROVE  MapInv(L)'
    <1> DEFINE k == Map!Index(id)
    <1>1. k \in DOMAIN io.maps
        BY IndexIs
    <1>2. /\ last' = Map!NoMap /\ files' = files
          /\ LET m == io.maps[k]
                 moved == [io EXCEPT !.maps[k].addr = itv.addr]
             IN  io' = Map!Calculated(
                   IF Map!Wraps(itv.addr, m.size)
                   THEN Map!MapNew([moved EXCEPT !.maps[k].size = (-itv.addr) % W], m.fd,
                                   (m.delta - itv.addr) % W, 0, (m.size + itv.addr) % W)
                   ELSE moved)
        BY Zenon DEF Map!Remap
    <1>3. io.maps[k].size = itv.size
        OBVIOUS
    <1> HIDE DEF k
    <1>4. MapsOk(io', files, L)
        BY <1>1, <1>2, <1>3, InvFacts, RemapOk
    <1> QED
        BY <1>2, <1>4, InvFacts, NothingNew

\* rz_io_map_resize keeps the invariant.
LEMMA MapResizeInv ==
    ASSUME NEW L \in 1 .. W - 1, Apart(L), MapInv(L), NEW id \in Map!Ids, NEW itv \in MapIntervals,
           io.maps[Map!Index(id)].addr = itv.addr, Map!Resize(id, itv.size)
    PROVE  MapInv(L)'
    <1> DEFINE k == Map!Index(id)
    <1>1. k \in DOMAIN io.maps
        BY IndexIs
    <1>2. /\ last' = Map!NoMap /\ files' = files
          /\ LET m == io.maps[k]
             IN  io' = IF Map!Wraps(m.addr, itv.size)
                       THEN Map!MapNew([io EXCEPT !.maps[k].size = (-m.addr) % W], m.fd,
                                       (m.delta - m.addr) % W, 0, (itv.size + m.addr) % W)
                       ELSE Map!Calculated([io EXCEPT !.maps[k].size = itv.size])
        BY Zenon DEF Map!Resize
    <1>3. io.maps[k].addr = itv.addr
        OBVIOUS
    <1> HIDE DEF k
    <1>4. MapsOk(io', files, L)
        BY <1>1, <1>2, <1>3, InvFacts, ResizeOk
    <1> QED
        BY <1>2, <1>4, InvFacts, NothingNew

\* So do map_del of one map or of those of a descriptor.
LEMMA DelInv ==
    ASSUME NEW L \in 1 .. W - 1, Apart(L), MapInv(L), NEW gone, io' = Map!Calculated(Map!MapsDel(io, gone)),
           files' \in SUBSET Fds, last' = Map!NoMap,
           \A k \in DOMAIN io.maps : io.maps[k] \notin gone => io.maps[k].fd \in files'
    PROVE  MapInv(L)'
    <1>1. WAssumption /\ L \in 0 .. W - 1 /\ MapsOk(io, files, L)
        BY InvFacts
    <1> DEFINE F == files
               G == files'
               s == io
    <1>2. MapsOk(s, F, L) /\ \A k \in DOMAIN s.maps : s.maps[k] \notin gone => s.maps[k].fd \in G
        BY <1>1
    <1>3. MapsOk(Map!Calculated(Map!MapsDel(s, gone)), G, L)
        <2> HIDE DEF F, G, s
        <2> QED
            BY <1>1, <1>2, DeletedOk
    <1>4. MapsOk(io', files', L)
        BY <1>3
    <1> QED
        BY <1>4, NothingNew

\* rz_io_desc_close keeps the invariant.
LEMMA CloseInv ==
    ASSUME NEW L \in 1 .. W - 1, Apart(L), MapInv(L), NEW fd, Map!Close(fd)
    PROVE  MapInv(L)'
    <1>1. files' = files \ {fd} /\ last' = Map!NoMap /\ files' \in SUBSET Fds
        BY InvFacts DEF Map!Close
    <1>2. /\ WAssumption /\ L \in 0 .. W - 1 /\ MapsOk(io, files, L)
          /\ \A k \in DOMAIN io.maps : io.maps[k].fd \in files
        BY InvFacts
    <1>3. CASE \E k \in DOMAIN io.maps : io.maps[k].fd = fd
        <2> DEFINE gone == {m \in Map!ToSet(io.maps) : m.fd \notin files'}
        <2>1. io' = Map!Calculated(Map!MapsDel(io, gone))
            BY <1>3 DEF Map!Close
        <2>2. \A k \in DOMAIN io.maps : io.maps[k] \notin gone => io.maps[k].fd \in files'
            BY DEF Map!ToSet
        <2> HIDE DEF gone
        <2> QED
            BY <1>1, <2>1, <2>2, DelInv
    <1>4. CASE \A k \in DOMAIN io.maps : io.maps[k].fd # fd
        <2>1. io' = io
            BY <1>4 DEF Map!Close
        <2>2. \A k \in DOMAIN io.maps : io.maps[k].fd \in files'
            BY <1>1, <1>2, <1>4
        <2>3. MapsOk(io', files', L)
            BY <1>2, <2>1, <2>2 DEF MapsOk, Good
        <2> QED
            BY <1>1, <2>3, NothingNew
    <1> QED
        BY <1>3, <1>4

\* A descriptor that is opened changes nothing of the maps.
LEMMA OpenInv ==
    ASSUME NEW L \in 1 .. W - 1, Apart(L), MapInv(L), NEW fd \in Fds, Map!Open(fd)
    PROVE  MapInv(L)'
    <1>1. files' = files \cup {fd} /\ last' = Map!NoMap /\ io' = io /\ files' \in SUBSET Fds
        BY InvFacts DEF Map!Open
    <1>2. MapsOk(io, files, L) /\ \A k \in DOMAIN io.maps : io.maps[k].fd \in files'
        BY <1>1, InvFacts
    <1>3. MapsOk(io', files', L)
        BY <1>1, <1>2 DEF MapsOk, Good
    <1> QED
        BY <1>1, <1>3, NothingNew

\* rz_io_map_priorize keeps the invariant,
LEMMA PriorizeInv ==
    ASSUME NEW L \in 1 .. W - 1, Apart(L), MapInv(L), NEW id \in Map!Ids, Map!Priorize(id)
    PROVE  MapInv(L)'
    <1> DEFINE k == Map!Index(id)
               m == io.maps[k]
    <1>1. k \in DOMAIN io.maps /\ m.id = id
        BY IndexIs
    <1>2. /\ last' = Map!NoMap /\ files' = files
          /\ io' = [io EXCEPT !.maps = Append(Map!Without(io.maps, m), m),
                              !.skyline = Map!SkylineAdd(io.skyline, m, id)]
        BY DEF Map!Priorize
    <1>3. io' = [io EXCEPT !.maps = Append(Map!Without(io.maps, m), m),
                           !.skyline = SkylineAdd(io.skyline, m, m.id)]
        BY <1>1, <1>2, MapAddIs
    <1> HIDE DEF k
    <1>4. MapsOk(io', files, L)
        BY <1>1, <1>3, InvFacts, PriorizeOk
    <1> QED
        BY <1>2, <1>4, InvFacts, NothingNew

\* rz_io_map_depriorize too,
LEMMA DepriorizeInv ==
    ASSUME NEW L \in 1 .. W - 1, Apart(L), MapInv(L), NEW id \in Map!Ids, Map!Depriorize(id)
    PROVE  MapInv(L)'
    <1> DEFINE k == Map!Index(id)
               m == io.maps[k]
               d == <<m>> \o Map!Without(io.maps, m)
    <1>1. k \in DOMAIN io.maps
        BY IndexIs
    <1>2. last' = Map!NoMap /\ files' = files /\ io' = Map!Calculated([io EXCEPT !.maps = d])
        BY DEF Map!Depriorize
    <1> HIDE DEF k
    <1>3. d \in Seq(MapRecs) /\ Drawn(d, io.maps)
        <2> DEFINE c == io.maps
        <2>1. c \in Seq(MapRecs) /\ Distinct(c) /\ k \in DOMAIN c
            BY <1>1, InvFacts
        <2> HIDE DEF c
        <2>2. <<c[k]>> \o Map!Without(c, c[k]) \in Seq(MapRecs) /\ Drawn(<<c[k]>> \o Map!Without(c, c[k]), c)
            BY <2>1, MovedDrawn
        <2> QED
            BY <2>2 DEF c
    <1> HIDE DEF d
    <1>4. MapsOk(io', files, L)
        BY <1>2, <1>3, InvFacts, ReorderedOk
    <1> QED
        BY <1>2, <1>4, InvFacts, NothingNew

\* and rz_io_map_priorize_for_fd.
LEMMA PriorizeForFdInv ==
    ASSUME NEW L \in 1 .. W - 1, Apart(L), MapInv(L), NEW fd, Map!PriorizeForFd(fd)
    PROVE  MapInv(L)'
    <1> DEFINE those == {m \in Map!ToSet(io.maps) : m.fd = fd}
               d == Only(io.maps, Map!ToSet(io.maps) \ those) \o Only(io.maps, those)
    <1>1. last' = Map!NoMap /\ files' = files /\ io' = Map!Calculated([io EXCEPT !.maps = d])
        BY MapOnlyIs DEF Map!PriorizeForFd
    <1> HIDE DEF those
    <1>2. d \in Seq(MapRecs) /\ Drawn(d, io.maps)
        BY InvFacts, JoinedDrawn
    <1> HIDE DEF d
    <1>3. MapsOk(io', files, L)
        BY <1>1, <1>2, InvFacts, ReorderedOk
    <1> QED
        BY <1>1, <1>3, InvFacts, NothingNew

\* Every step of the maps keeps the invariant.
LEMMA MapInvNext ==
    ASSUME NEW L \in 1 .. W - 1, Apart(L), MapInv(L), [Map!Next]_Map!vars
    PROVE  MapInv(L)'
    <1>1. CASE UNCHANGED Map!vars
        <2>1. io' = io /\ files' = files /\ last' = last
            BY <1>1 DEF Map!vars
        <2>2. Map!NewMapShowsAll'
            BY <2>1, ShowsNewIs DEF MapInv
        <2> QED
            BY <2>1, <2>2 DEF MapInv
    <1>2. ASSUME NEW fd \in Fds, NEW itv \in MapIntervals, Map!Add(fd, itv) PROVE MapInv(L)'
        BY <1>2, AddInv
    <1>3. ASSUME NEW id \in Map!Ids, NEW itv \in MapIntervals, io.maps[Map!Index(id)].size = itv.size,
                 Map!Remap(id, itv.addr)
          PROVE  MapInv(L)'
        BY <1>3, RemapInv
    <1>4. ASSUME NEW id \in Map!Ids, NEW itv \in MapIntervals, io.maps[Map!Index(id)].addr = itv.addr,
                 Map!Resize(id, itv.size)
          PROVE  MapInv(L)'
        BY <1>4, MapResizeInv
    <1>5. ASSUME NEW id \in Map!Ids, Map!Del(id) PROVE MapInv(L)'
        <2> DEFINE gone == {m \in Map!ToSet(io.maps) : m.id = id}
        <2>1. io' = Map!Calculated(Map!MapsDel(io, gone)) /\ files' = files /\ last' = Map!NoMap
            BY <1>5 DEF Map!Del
        <2> HIDE DEF gone
        <2> QED
            BY <2>1, InvFacts, DelInv
    <1>6. ASSUME NEW fd \in Fds, Map!DelForFd(fd) PROVE MapInv(L)'
        <2> DEFINE gone == {m \in Map!ToSet(io.maps) : m.fd = fd}
        <2>1. io' = Map!Calculated(Map!MapsDel(io, gone)) /\ files' = files /\ last' = Map!NoMap
            BY <1>6 DEF Map!DelForFd
        <2> HIDE DEF gone
        <2> QED
            BY <2>1, InvFacts, DelInv
    <1>7. CASE Map!Reset
        <2>1. io' = [maps |-> <<>>, skyline |-> <<>>, next_id |-> 1, freed_ids |-> <<>>]
            BY <1>7 DEF Map!Reset
        <2>2. files' = files /\ last' = Map!NoMap
            BY <1>7 DEF Map!Reset
        <2>3. MapsOk(io', files', L)
            BY <2>1, EmptyOk
        <2> QED
            BY <2>2, <2>3, InvFacts, NothingNew
    <1> QED
        BY <1>1, <1>2, <1>3, <1>4, <1>5, <1>6, <1>7, PriorizeInv, DepriorizeInv, PriorizeForFdInv, CloseInv, OpenInv
        DEF Map!Next

\* The maps and the skyline have their types.
LEMMA InvTypes ==
    ASSUME NEW L \in 1 .. W - 1, Apart(L), MapInv(L)
    PROVE  Map!TypeOK
    <1>1. /\ Good(io, files, L, IdsOf(io.maps)) /\ files \subseteq Fds /\ W \in Nat
        BY InvFacts DEF MapsOk, WAssumption
    <1>2. Tidy(io.skyline, L) /\ io \in IoRecs
        BY <1>1 DEF Good
    <1>3. ASSUME NEW i \in DOMAIN io.skyline
          PROVE  io.skyline[i] \in [addr : Addr, size : Addr, user : Nat]
        <2> DEFINE p == io.skyline[i]
        <2>1. p \in Parts /\ Fit(p, L)
            BY <1>2 DEF Tidy
        <2> HIDE DEF p
        <2>2. p.addr \in Nat /\ p.size \in Nat /\ p.user \in Nat
            BY <2>1, PartFacts
        <2>3. p.addr \in Addr /\ p.size \in Addr
            BY <2>1, <2>2, <1>1 DEF Fit, Stop, Addr
        <2> QED
            BY <2>1, <2>2, <2>3 DEF Parts, p
    <1>4. io.skyline \in Seq([addr : Addr, size : Addr, user : Nat])
        <2>1. io.skyline \in Seq(Parts)
            BY <1>2 DEF Tidy
        <2> DEFINE sky == io.skyline
                   T == [addr : Addr, size : Addr, user : Nat]
        <2>2. DOMAIN sky = 1 .. Len(sky) /\ Len(sky) \in Nat /\ sky \in [1 .. Len(sky) -> Parts]
            BY <2>1
        <2>3. \A i \in 1 .. Len(sky) : sky[i] \in T
            BY <2>2, <1>3
        <2> HIDE DEF T, sky
        <2>4. sky \in [1 .. Len(sky) -> T]
            BY <2>2, <2>3
        <2>5. sky \in Seq(T)
            BY <2>2, <2>4
        <2> QED
            BY <2>5 DEF sky, T
    <1>5. Map!Addr = Addr
        BY DEF Map!Addr, Addr
    <1>6. io.maps \in Seq(Map!Maps)
        BY <1>2, <1>5 DEF IoRecs, MapRecs, Map!Maps
    <1>7. io.next_id \in Nat /\ io.freed_ids \in Seq(Nat)
        BY <1>2 DEF IoRecs
    <1> QED
        BY <1>1, <1>4, <1>5, <1>6, <1>7 DEF Map!TypeOK

\* The skyline gives the last map that shows an address.
LEMMA InvTop ==
    ASSUME NEW L \in 1 .. W - 1, Apart(L), MapInv(L)
    PROVE  Map!SkylineIsTop
    <1> SUFFICES ASSUME NEW a \in Addr
                 PROVE  LET over == {k \in DOMAIN io.maps : Map!Shows(io.maps[k], a)}
                        IN  Map!SkylineGet(io.skyline, a)
                              = IF over = {} THEN None
                                ELSE io.maps[CHOOSE k \in over : \A j \in over : j <= k].id
        <2>1. Map!Addr = Addr
            BY DEF Map!Addr, Addr
        <2> QED
            BY <2>1, Zenon DEF Map!SkylineIsTop
    <1> DEFINE c == io.maps
               n == Len(c)
               over == {k \in DOMAIN c : Map!Shows(c[k], a)}
    <1>1. n \in Nat /\ DOMAIN c = 1 .. n
        BY InvFacts
    <1>2. over = {k \in 1 .. n : Covers(c[k], a)}
        BY <1>1 DEF Map!Shows, Covers, Stop
    <1>3. /\ \A k : IsLast(c, n, a, k) => SkylineGet(io.skyline, a) = c[k].id
          /\ (\A k : ~IsLast(c, n, a, k)) => SkylineGet(io.skyline, a) = None
        BY InvFacts, GetIsLast
    <1>4. Map!SkylineGet(io.skyline, a) = SkylineGet(io.skyline, a)
        BY MapGetIs
    <1> HIDE DEF c, n, over
    <1>5. CASE over = {}
        <2>1. \A k : ~IsLast(c, n, a, k)
            BY <1>2, <1>5 DEF IsLast
        <2> QED
            BY <1>3, <1>4, <1>5, <2>1 DEF over, c
    <1>6. CASE over # {}
        <2>1. PICK k : IsLast(c, n, a, k)
            BY <1>1, <1>2, <1>6, LastExists
        <2>2. k \in over /\ \A j \in over : j <= k
            BY <1>1, <1>2, <2>1 DEF IsLast
        <2>3. over \subseteq Int
            BY <1>2
        <2>4. \A i \in over : (\A j \in over : j <= i) => i = k
            BY <2>2, <2>3
        <2>5. (CHOOSE i \in over : \A j \in over : j <= i) = k
            BY <2>2, <2>4
        <2>6. SkylineGet(io.skyline, a) = c[k].id
            BY <1>3, <2>1
        <2> QED
            BY <1>4, <1>6, <2>5, <2>6 DEF over, c
    <1> QED
        BY <1>5, <1>6

\* No id is taken twice, and none that is taken is free.
LEMMA InvIds ==
    ASSUME NEW L \in 1 .. W - 1, Apart(L), MapInv(L)
    PROVE  Map!IdsUnique
    <1>1. Distinct(io.maps) /\ Pool(io, IdsOf(io.maps))
        BY InvFacts DEF MapsOk, Good
    <1> DEFINE f == io.freed_ids
    <1>2. \A k \in DOMAIN io.maps : io.maps[k].id \in IdsOf(io.maps)
        BY DEF IdsOf
    <1>3. \A k \in DOMAIN io.maps : io.maps[k].id < io.next_id /\ io.maps[k].id \notin Map!ToSet(f)
        BY <1>1, <1>2 DEF Pool, Map!ToSet
    <1>4. Map!IsInjective(f) /\ \A k \in DOMAIN f : f[k] < io.next_id
        BY <1>1 DEF Pool, Map!IsInjective
    <1> QED
        BY <1>1, <1>3, <1>4 DEF Distinct, Map!IdsUnique

\* Under the invariant the maps are correct.
LEMMA MapInvCorrect ==
    ASSUME NEW L \in 1 .. W - 1, Apart(L), MapInv(L)
    PROVE  Map!MapsCorrect
    BY InvTypes, InvTop, InvIds, InvFacts DEF Map!MapsCorrect, Map!MapsAreOpen, MapInv

\* The hypothesis of the theorems below holds of the intervals that the run checks.
LEMMA WrappingApart ==
    ASSUME W = 8, MapIntervals = Wrapping
    PROVE  \E L \in 1 .. W - 1 : Apart(L)
    <1>1. \A itv \in Wrapping : Askable(itv, 6)
        BY DEF Wrapping, Itv, Askable, Placed, Stop
    <1> QED
        BY <1>1 DEF Apart

\* Whatever is added, moved, resized, deleted, reordered, closed and opened, the skyline answers as
\* a walk through the maps would, a new map shows its descriptor byte after byte, ids are unique and no map
\* shows a closed descriptor: as long as one interval at most reaches the last address and the rest end before it.
THEOREM MapsAlwaysCorrect ==
    ASSUME NEW CONSTANT L \in 1 .. W - 1, Apart(L)
    PROVE  Map!Spec => []Map!MapsCorrect
    <1>1. Map!Init => MapInv(L)
        BY MapInvInit
    <1>2. MapInv(L) /\ [Map!Next]_Map!vars => MapInv(L)'
        BY MapInvNext
    <1>3. MapInv(L) => Map!MapsCorrect
        BY MapInvCorrect
    <1> QED
        BY <1>1, <1>2, <1>3, PTL DEF Map!Spec

\* The same in the composition that the run checks: MapsCorrect is always true.
THEOREM MapsAgree ==
    ASSUME NEW CONSTANT L \in 1 .. W - 1, Apart(L)
    PROVE  MCSpec => []MapsCorrect
    <1>1. MCInit => MapInv(L)
        BY MapInvInit DEF MCInit
    <1>2. MapInv(L) /\ [MCNext]_<<part, vars, maps, iocache>> => MapInv(L)'
        <2> SUFFICES ASSUME MapInv(L), [MCNext]_<<part, vars, maps, iocache>> PROVE MapInv(L)'
            OBVIOUS
        <2>1. ASSUME UNCHANGED maps PROVE MapInv(L)'
            <3>1. UNCHANGED Map!vars
                BY <2>1 DEF maps, Map!vars
            <3> QED
                BY <3>1, MapInvNext
        <2>2. CASE Map!Next
            BY <2>2, MapInvNext
        <2> QED
            BY <2>1, <2>2 DEF MCNext
    <1>3. MapInv(L) => MapsCorrect
        BY MapInvCorrect DEF MapsCorrect
    <1> QED
        BY <1>1, <1>2, <1>3, PTL DEF MCSpec
-----------------------------------------------------------------------------
(* What the commands of the two caches keep.                               *)

\* The bytes g are those of f with the entries of a list over them.
Over(g, f, c) ==
    /\ g \in Bytes
    /\ \A a \in Addr :
         /\ \A j : IsLast(c, Len(c), a, j) => g[a] = c[j].data[a - c[j].addr]
         /\ (\A j \in 1 .. Len(c) : ~Covers(c[j], a)) => g[a] = f[a]

\* The entries of a list lie in the file.
LEMMA EntriesLie ==
    ASSUME WAssumption, NEW c, NEW m, GoodList(c, m)
    PROVE  /\ c \in Seq(Entries) /\ Len(c) \in Nat /\ DOMAIN c = 1 .. Len(c)
           /\ \A k \in 1 .. Len(c) : Writable(c[k]) /\ Stop(c[k]) <= W /\ GoodEntry(c[k])
    <1>1. c \in Seq(Entries) /\ Len(c) \in Nat /\ DOMAIN c = 1 .. Len(c)
        BY DEF GoodList
    <1>2. ASSUME NEW k \in 1 .. Len(c) PROVE Writable(c[k]) /\ Stop(c[k]) <= W /\ GoodEntry(c[k])
        <2>1. Writable(c[k]) /\ Stop(c[k]) <= W - 1 /\ c[k].addr \in Nat /\ c[k].size \in Nat /\ GoodEntry(c[k])
            BY <1>1 DEF GoodList, GoodEntry, Writable
        <2>2. Stop(c[k]) \in Nat
            BY <2>1 DEF Stop
        <2> QED
            BY <2>1, <2>2 DEF WAssumption
    <1> QED
        BY <1>1, <1>2

\* That is what writing them one after the other gives,
LEMMA PutAllOver ==
    ASSUME WAssumption, NEW f \in Bytes, NEW list, Len(list) \in Nat,
           \A k \in 1 .. Len(list) : Writable(list[k]) /\ Stop(list[k]) <= W
    PROVE  Over(Cache!PutAll(f, list), f, list)
    <1>1. Cache!PutAll(f, list) \in Bytes
        BY PutAllSteps
    <1> QED
        BY <1>1, PutAllFacts DEF Over

\* and nothing else is.
LEMMA OverIsOne ==
    ASSUME NEW f, NEW c, Len(c) \in Nat, NEW g, NEW h, Over(g, f, c), Over(h, f, c)
    PROVE  g = h
    <1>1. g \in Bytes /\ h \in Bytes
        BY DEF Over
    <1>2. ASSUME NEW a \in Addr PROVE g[a] = h[a]
        <2>1. CASE \E j : IsLast(c, Len(c), a, j)
            BY <2>1 DEF Over
        <2>2. CASE \A j \in 1 .. Len(c) : ~Covers(c[j], a)
            BY <2>2 DEF Over
        <2> QED
            BY <2>1, <2>2, LastExists
    <1> QED
        BY <1>1, <1>2 DEF Bytes

\* Entries that cover nothing need not be written.
LEMMA OverOnly ==
    ASSUME WAssumption, NEW f \in Bytes, NEW c, NEW m, GoodList(c, m), NEW S,
           \A i \in DOMAIN c : \A a \in Addr : Covers(c[i], a) => c[i] \in S
    PROVE  Over(Cache!PutAll(f, Only(c, S)), f, c)
    <1> DEFINE d == Only(c, S)
               g == Cache!PutAll(f, d)
    <1>1. GoodList(d, m)
        BY OnlyEntries
    <1>2. c \in Seq(Entries) /\ d \in Seq(Entries) /\ DOMAIN c = 1 .. Len(c) /\ Len(c) \in Nat
        BY <1>1, EntriesLie
    <1>3. PICK pos : Chosen(d, c, S, pos)
        BY <1>2, OnlyOrder
    <1> HIDE DEF d
    <1>4. Over(g, f, d) /\ DOMAIN d = 1 .. Len(d)
        BY <1>1, EntriesLie, PutAllOver
    <1> HIDE DEF g
    <1>5. ASSUME NEW a \in Addr, NEW j, IsLast(c, Len(c), a, j) PROVE g[a] = c[j].data[a - c[j].addr]
        <2>1. \A i \in DOMAIN c : Covers(c[i], a) => c[i] \in S
            OBVIOUS
        <2>2. \A k : IsLast(c, Len(c), a, k) <=> \E i : IsLast(d, Len(d), a, i) /\ k = pos[i]
            BY <1>2, <1>3, <2>1, LastChosen, SMTT(40)
        <2>3. PICK i : IsLast(d, Len(d), a, i) /\ j = pos[i]
            BY <1>5, <2>2
        <2>4. d[i] = c[j]
            BY <1>3, <1>4, <2>3 DEF Chosen, IsLast
        <2> QED
            BY <1>4, <2>3, <2>4 DEF Over
    <1>6. ASSUME NEW a \in Addr, \A j \in 1 .. Len(c) : ~Covers(c[j], a) PROVE g[a] = f[a]
        <2>1. \A i \in 1 .. Len(d) : ~Covers(d[i], a)
            BY <1>2, <1>3, <1>4, <1>6 DEF Chosen
        <2> QED
            BY <1>4, <2>1 DEF Over
    <1>7. g \in Bytes
        BY <1>4 DEF Over
    <1> QED
        BY <1>5, <1>6, <1>7 DEF Over, g, d

\* The same entries written again change nothing.
LEMMA OverAgain ==
    ASSUME NEW f, NEW c, Len(c) \in Nat, NEW d, Len(d) = Len(c),
           \A k \in 1 .. Len(c) : d[k].addr = c[k].addr /\ d[k].size = c[k].size /\ d[k].data = c[k].data,
           NEW g, Over(g, f, c), NEW h, Over(h, g, d)
    PROVE  Over(h, f, c)
    <1>1. \A k \in 1 .. Len(c) : \A a : Covers(d[k], a) <=> Covers(c[k], a)
        BY DEF Covers, Stop
    <1>2. \A a, j : IsLast(c, Len(c), a, j) => IsLast(d, Len(d), a, j) /\ j \in 1 .. Len(c)
        BY <1>1 DEF IsLast
    <1>3. ASSUME NEW a \in Addr, NEW j, IsLast(c, Len(c), a, j) PROVE h[a] = c[j].data[a - c[j].addr]
        BY <1>2, <1>3 DEF Over
    <1>4. ASSUME NEW a \in Addr, \A j \in 1 .. Len(c) : ~Covers(c[j], a) PROVE h[a] = f[a]
        <2>1. \A j \in 1 .. Len(d) : ~Covers(d[j], a)
            BY <1>1, <1>4
        <2> QED
            BY <1>4, <2>1 DEF Over
    <1> QED
        BY <1>3, <1>4 DEF Over

\* One more entry is one more write.
LEMMA OverAppended ==
    ASSUME WAssumption, NEW f, NEW c, NEW m, GoodList(c, m), NEW e \in Entries, GoodEntry(e),
           NEW g, Over(g, f, c), NEW h, Over(h, f, Append(c, e))
    PROVE  h = Cache!Put(g, e.addr, e.size, e.data)
    <1> DEFINE p == Cache!Put(g, e.addr, e.size, e.data)
               d == Append(c, e)
               n == Len(c)
    <1>1. /\ c \in Seq(Entries) /\ n \in Nat /\ DOMAIN c = 1 .. n /\ Len(d) = n + 1 /\ d[n + 1] = e
          /\ \A k \in 1 .. n : d[k] = c[k]
        BY EntriesLie
    <1>2. Writable(e) /\ Stop(e) <= W /\ g \in Bytes /\ h \in Bytes
        <2>1. Writable(e) /\ Stop(e) <= W - 1 /\ Stop(e) \in Nat
            BY DEF GoodEntry, Writable, Stop
        <2> QED
            BY <2>1 DEF WAssumption, Over
    <1>3. p \in Bytes
        BY <1>2, PutType DEF Writable
    <1>4. \A a \in Addr : p[a] = IF Covers(e, a) THEN e.data[a - e.addr] ELSE g[a]
        BY <1>2, PutFacts
    <1>5. \A a : \A k : IsLast(d, n + 1, a, k) <=> IF Covers(e, a) THEN k = n + 1 ELSE IsLast(c, n, a, k)
        BY <1>1, LastAppended
    <1> HIDE DEF p, d
    <1>6. ASSUME NEW a \in Addr PROVE h[a] = p[a]
        <2>1. CASE Covers(e, a)
            <3>1. IsLast(d, Len(d), a, n + 1)
                BY <1>1, <1>5, <2>1
            <3> QED
                BY <1>1, <1>4, <2>1, <3>1 DEF Over, d
        <2>2. CASE ~Covers(e, a) /\ \E k : IsLast(c, n, a, k)
            <3>1. PICK k : IsLast(c, n, a, k)
                BY <2>2
            <3>2. k \in 1 .. n /\ IsLast(d, Len(d), a, k)
                BY <1>1, <1>5, <2>2, <3>1 DEF IsLast
            <3>3. h[a] = d[k].data[a - d[k].addr]
                BY <3>2 DEF Over, d
            <3>4. g[a] = c[k].data[a - c[k].addr]
                BY <3>1 DEF Over
            <3> QED
                BY <1>1, <1>4, <2>2, <3>2, <3>3, <3>4
        <2>3. CASE ~Covers(e, a) /\ \A k \in 1 .. n : ~Covers(c[k], a)
            <3>1. \A k \in 1 .. n + 1 : k = n + 1 \/ k \in 1 .. n
                BY <1>1
            <3>2. \A k \in 1 .. Len(d) : ~Covers(d[k], a)
                BY <1>1, <2>3, <3>1
            <3>3. h[a] = f[a]
                BY <3>2 DEF Over, d
            <3>4. g[a] = f[a]
                BY <2>3 DEF Over
            <3> QED
                BY <1>4, <2>3, <3>3, <3>4
        <2> QED
            BY <2>1, <2>2, <2>3, <1>1, LastExists
    <1> QED
        BY <1>2, <1>3, <1>6 DEF Bytes, p

\* Entry j is the first of a list that covers an address.
IsFirst(c, a, j) ==
    /\ j \in 1 .. Len(c) /\ Covers(c[j], a)
    /\ \A i \in 1 .. Len(c) : i < j => ~Covers(c[i], a)

\* What the first entry of an address replaced, or the byte of the file where there is none, is that of b.
Recalls(c, f, b) ==
    \A a \in Addr :
      /\ \A j : IsFirst(c, a, j) => c[j].odata[a - c[j].addr] = b[a]
      /\ (\A j \in 1 .. Len(c) : ~Covers(c[j], a)) => f[a] = b[a]

\* An empty list recalls the file.
LEMMA EmptyRecalls ==
    ASSUME NEW f
    PROVE  Recalls(<<>>, f, f)
    BY DEF Recalls, IsFirst

\* A new entry replaces what is in the file where no other entry is.
LEMMA AddRecalls ==
    ASSUME WAssumption, file \in Bytes, NEW s, NEW m \in Nat, GoodList(s.cache, m), CacheShows(s.cache, s.skyline),
           NEW id \in Nat, NEW addr \in Nat, NEW len \in Nat \ {0}, addr + len <= W - 1,
           NEW data, NEW b, Recalls(s.cache, file, b)
    PROVE  Recalls(Cache!AddEntry(s, id, addr, len, data).cache, file, b)
    <1> DEFINE c == s.cache
               n == Len(c)
               odata == Cache!ReadAtMapped(cached, file, c, s.skyline, addr, len)
               e == [id |-> id, addr |-> addr, size |-> len, data |-> data, written |-> FALSE, odata |-> odata]
               d == Append(c, e)
               g == Cache!PutAll(file, c)
    <1>1. Cache!AddEntry(s, id, addr, len, data).cache = d
        BY DEF Cache!AddEntry
    <1>2. /\ c \in Seq(Entries) /\ n \in Nat /\ Len(d) = n + 1 /\ d[n + 1] = e /\ \A k \in 1 .. n : d[k] = c[k]
        BY EntriesLie
    <1>3. addr + len < W
        BY DEF WAssumption
    <1>4. Over(g, file, c) /\ g \in Bytes
        BY EntriesLie, PutAllOver DEF Over
    <1>5. ASSUME NEW a \in Addr, Covers(e, a), \A j \in 1 .. n : ~Covers(c[j], a) PROVE odata[a - addr] = file[a]
        <2> DEFINE i == a - addr
        <2>1. i \in 0 .. len - 1 /\ addr + i = a
            BY <1>5 DEF Covers, Stop, Addr
        <2>2. g[a] = file[a]
            BY <1>4, <1>5 DEF Over
        <2>3. Cache!FileRead(file, addr, len)[i] = file[a] /\ Cache!FileRead(g, addr, len)[i] = g[a]
            <3> HIDE DEF g, i
            <3>1. len \in Nat
                OBVIOUS
            <3>2. \A k \in 0 .. len - 1 : Cache!FileRead(file, addr, len)[k] = file[addr + k]
                BY <1>3, <3>1, FileReadIs
            <3>3. \A k \in 0 .. len - 1 : Cache!FileRead(g, addr, len)[k] = g[addr + k]
                BY <1>3, <1>4, <3>1, FileReadIs
            <3> QED
                BY <2>1, <3>2, <3>3
        <2>4. Cache!CacheRead(c, s.skyline, addr, len, Cache!FileRead(file, addr, len)).buf = Cache!FileRead(g, addr, len)
            <3> HIDE DEF i, c
            <3>1. len \in Nat /\ GoodList(c, m) /\ CacheShows(c, s.skyline)
                BY DEF c
            <3> QED
                BY <1>3, <3>1, ReadFacts DEF g
        <2> QED
            BY <2>2, <2>3, <2>4 DEF Cache!ReadAtMapped
    <1>6. e.addr = addr /\ e.odata = odata
        OBVIOUS
    <1> HIDE DEF odata, e, d, c
    <1>7. \A k \in 1 .. n + 1 : k = n + 1 \/ k \in 1 .. n
        BY <1>2
    <1>8. ASSUME NEW a \in Addr, NEW j, IsFirst(d, a, j) PROVE d[j].odata[a - d[j].addr] = b[a]
        <2>1. j \in 1 .. n + 1 /\ Covers(d[j], a) /\ \A i \in 1 .. n + 1 : i < j => ~Covers(d[i], a)
            BY <1>2, <1>8 DEF IsFirst
        <2>2. CASE j \in 1 .. n
            <3>1. d[j] = c[j] /\ Covers(c[j], a)
                BY <1>2, <2>1, <2>2
            <3>2. ASSUME NEW i \in 1 .. n, i < j PROVE ~Covers(c[i], a)
                BY <1>2, <2>1, <3>2
            <3>3. IsFirst(c, a, j)
                BY <2>2, <3>1, <3>2 DEF IsFirst
            <3> QED
                BY <3>1, <3>3 DEF Recalls, c
        <2>3. CASE j = n + 1
            <3>1. \A i \in 1 .. n : ~Covers(c[i], a)
                BY <1>2, <2>1, <2>3
            <3>2. Covers(e, a) /\ d[j] = e
                BY <1>2, <2>1, <2>3
            <3>3. odata[a - addr] = file[a]
                BY <1>5, <3>1, <3>2
            <3>4. file[a] = b[a]
                BY <3>1 DEF Recalls, c
            <3> QED
                BY <1>6, <3>2, <3>3, <3>4
        <2> QED
            BY <1>7, <2>1, <2>2, <2>3
    <1>9. ASSUME NEW a \in Addr, \A j \in 1 .. Len(d) : ~Covers(d[j], a) PROVE file[a] = b[a]
        <2>1. \A j \in 1 .. n : ~Covers(c[j], a)
            BY <1>2, <1>9
        <2> QED
            BY <2>1 DEF Recalls, c
    <1>10. Recalls(d, file, b)
        BY <1>8, <1>9 DEF Recalls
    <1> QED
        BY <1>1, <1>10

\* Writing entries of the list changes no byte that none of them covers.
LEMMA CommitRecalls ==
    ASSUME WAssumption, NEW f \in Bytes, NEW b, NEW c, NEW m, GoodList(c, m), Recalls(c, f, b), NEW S,
           NEW d, Len(d) = Len(c),
           \A k \in 1 .. Len(c) : d[k].addr = c[k].addr /\ d[k].size = c[k].size /\ d[k].odata = c[k].odata
    PROVE  Recalls(d, Cache!PutAll(f, Only(c, S)), b) /\ Recalls(d, f, b)
    <1> DEFINE o == Only(c, S)
               g == Cache!PutAll(f, o)
    <1>1. Len(c) \in Nat /\ DOMAIN c = 1 .. Len(c)
        BY EntriesLie
    <1>2. GoodList(o, m) /\ \A k \in DOMAIN o : \E i \in DOMAIN c : o[k] = c[i]
        BY OnlyEntries
    <1> HIDE DEF o
    <1>3. Over(g, f, o) /\ DOMAIN o = 1 .. Len(o)
        BY <1>2, EntriesLie, PutAllOver
    <1> HIDE DEF g
    <1>4. \A k \in 1 .. Len(c) : \A a : Covers(d[k], a) <=> Covers(c[k], a)
        BY DEF Covers, Stop
    <1>5. \A a, j : IsFirst(d, a, j) => IsFirst(c, a, j) /\ j \in 1 .. Len(c)
        BY <1>4 DEF IsFirst
    <1>6. ASSUME NEW a \in Addr, NEW j, IsFirst(d, a, j) PROVE d[j].odata[a - d[j].addr] = b[a]
        <2>1. IsFirst(c, a, j) /\ j \in 1 .. Len(c)
            BY <1>5, <1>6
        <2>2. c[j].odata[a - c[j].addr] = b[a]
            BY <2>1 DEF Recalls
        <2> QED
            BY <2>1, <2>2
    <1>7. ASSUME NEW a \in Addr, \A j \in 1 .. Len(d) : ~Covers(d[j], a) PROVE f[a] = b[a] /\ g[a] = b[a]
        <2>1. \A j \in 1 .. Len(c) : ~Covers(c[j], a)
            BY <1>4, <1>7
        <2>2. \A j \in 1 .. Len(o) : ~Covers(o[j], a)
            BY <1>1, <1>2, <1>3, <2>1
        <2>3. g[a] = f[a]
            BY <1>3, <2>2 DEF Over
        <2> QED
            BY <2>1, <2>3 DEF Recalls
    <1> QED
        BY <1>6, <1>7 DEF Recalls, g, o

\* Writing what the entries replaced, newest first, gives what they recall.
LEMMA TakenBack ==
    ASSUME WAssumption, NEW f \in Bytes, NEW b \in Bytes, NEW c, NEW m, GoodList(c, m), Recalls(c, f, b), NEW S,
           \A i \in DOMAIN c : \A a \in Addr : Covers(c[i], a) => c[i] \in S
    PROVE  Cache!PutAll(f, Cache!Replaced(Only(c, S))) = b
    <1> DEFINE d == Only(c, S)
               n == Len(d)
               r == Cache!Replaced(d)
               g == Cache!PutAll(f, r)
    <1>1. GoodList(d, m)
        BY OnlyEntries
    <1>2. c \in Seq(Entries) /\ DOMAIN c = 1 .. Len(c) /\ Len(c) \in Nat
        BY EntriesLie
    <1>3. PICK pos : Chosen(d, c, S, pos)
        BY <1>2, OnlyOrder
    <1> HIDE DEF d
    <1>4. n \in Nat /\ DOMAIN d = 1 .. n /\ \A k \in 1 .. n : GoodEntry(d[k]) /\ Stop(d[k]) <= W
        BY <1>1, EntriesLie
    <1>5. /\ Len(r) = n
          /\ \A k \in 1 .. n : /\ Writable(r[k])
                               /\ r[k] = [addr |-> d[(n - k) + 1].addr, size |-> d[(n - k) + 1].size,
                                          data |-> d[(n - k) + 1].odata]
        BY <1>1, ReplacedWritable
    <1> HIDE DEF r
    <1>6. ASSUME NEW k \in 1 .. n
          PROVE  /\ (n - k) + 1 \in 1 .. n /\ r[k].addr = d[(n - k) + 1].addr /\ r[k].data = d[(n - k) + 1].odata
                 /\ Stop(r[k]) = Stop(d[(n - k) + 1])
                 /\ \A a : Covers(r[k], a) <=> Covers(d[(n - k) + 1], a)
        <2>1. (n - k) + 1 \in 1 .. n
            BY <1>4
        <2> DEFINE e == d[(n - k) + 1]
        <2>2. r[k] = [addr |-> e.addr, size |-> e.size, data |-> e.odata]
            BY <1>5
        <2> HIDE DEF e
        <2>3. r[k].addr = e.addr /\ r[k].size = e.size /\ r[k].data = e.odata
            BY <2>2
        <2>4. Stop(r[k]) = Stop(e) /\ \A a : Covers(r[k], a) <=> Covers(e, a)
            BY <2>3 DEF Covers, Stop
        <2> QED
            BY <2>1, <2>3, <2>4 DEF e
    <1>7. Over(g, f, r)
        <2>1. \A k \in 1 .. Len(r) : Writable(r[k]) /\ Stop(r[k]) <= W
            BY <1>4, <1>5, <1>6
        <2> QED
            BY <1>4, <1>5, <2>1, PutAllOver
    <1> HIDE DEF g
    <1>8. ASSUME NEW a \in Addr PROVE g[a] = b[a]
        <2>1. CASE \A j \in 1 .. Len(c) : ~Covers(c[j], a)
            <3>1. \A k \in 1 .. n : ~Covers(d[k], a)
                BY <1>2, <1>3, <1>4, <2>1 DEF Chosen
            <3>2. \A k \in 1 .. Len(r) : ~Covers(r[k], a)
                BY <1>5, <1>6, <3>1
            <3> QED
                BY <1>7, <2>1, <3>2 DEF Over, Recalls
        <2>2. CASE \E j \in 1 .. Len(c) : Covers(c[j], a)
            <3>1. PICK j \in 1 .. Len(c) : Covers(c[j], a)
                BY <2>2
            <3>2. PICK l \in 1 .. n : pos[l] = j
                BY <1>2, <1>3, <1>4, <3>1 DEF Chosen
            <3>3. Covers(d[l], a)
                BY <1>3, <1>4, <3>1, <3>2 DEF Chosen
            <3>4. (n - l) + 1 \in 1 .. n /\ (n - ((n - l) + 1)) + 1 = l
                BY <1>4
            <3>5. Covers(r[(n - l) + 1], a)
                BY <1>6, <3>3, <3>4
            <3>6. PICK k : IsLast(r, n, a, k)
                BY <1>4, <3>4, <3>5, LastExists
            <3> DEFINE i == (n - k) + 1
            <3>7. k \in 1 .. n /\ i \in 1 .. n /\ Covers(d[i], a) /\ g[a] = d[i].odata[a - d[i].addr]
                <4>1. k \in 1 .. n /\ Covers(r[k], a)
                    BY <3>6 DEF IsLast
                <4>2. g[a] = r[k].data[a - r[k].addr]
                    BY <1>5, <1>7, <3>6 DEF Over
                <4> QED
                    BY <1>6, <4>1, <4>2
            <3>8. ASSUME NEW h \in 1 .. n, h < i PROVE ~Covers(d[h], a)
                <4>1. (n - h) + 1 \in 1 .. n /\ (n - h) + 1 > k /\ (n - ((n - h) + 1)) + 1 = h
                    BY <1>4, <3>7, <3>8
                <4>2. ~Covers(r[(n - h) + 1], a)
                    BY <3>6, <4>1 DEF IsLast
                <4> QED
                    BY <1>6, <4>1, <4>2
            <3> HIDE DEF i
            <3>9. pos[i] \in 1 .. Len(c) /\ d[i] = c[pos[i]]
                BY <1>2, <1>3, <1>4, <3>7 DEF Chosen
            <3>10. ASSUME NEW q \in 1 .. Len(c), q < pos[i] PROVE ~Covers(c[q], a)
                <4> SUFFICES ASSUME Covers(c[q], a) PROVE FALSE
                    OBVIOUS
                <4>1. PICK h \in 1 .. n : pos[h] = q
                    BY <1>2, <1>3, <1>4 DEF Chosen
                <4>2. Covers(d[h], a)
                    BY <1>3, <1>4, <4>1 DEF Chosen
                <4>3. ~(h < i) /\ h # i
                    BY <3>8, <3>10, <3>9, <4>1, <4>2, <1>2
                <4>4. i < h
                    BY <4>3, <3>7, <1>4
                <4>5. pos[i] < pos[h]
                    BY <4>4, <1>3, <1>4, <3>7 DEF Chosen
                <4> QED
                    BY <4>1, <4>5, <3>9, <3>10
            <3>11. IsFirst(c, a, pos[i])
                BY <3>7, <3>9, <3>10 DEF IsFirst
            <3>12. c[pos[i]].odata[a - c[pos[i]].addr] = b[a]
                BY <3>11 DEF Recalls
            <3> QED
                BY <3>7, <3>9, <3>12
        <2> QED
            BY <2>1, <2>2
    <1>9. g \in Bytes
        BY <1>7 DEF Over
    <1> QED
        BY <1>8, <1>9 DEF Bytes, g, r, d

\* No interval that is written to goes to the last address or past it.
Unwrapped == \A r \in CacheIntervals : r.addr + r.size < W

\* What there is to go back to is what the entries recall.
BaseInv == base # <<>> => base \in Bytes /\ Recalls(i_cache, file, base) /\ (writable \/ file = base)

\* What the invariant says, and the assumptions.
LEMMA CacheFacts ==
    ASSUME CacheInv
    PROVE  /\ WAssumption /\ W \in Nat \ {0} /\ i_writes \in Nat /\ 2 * i_writes \in Nat
           /\ cached \in SUBSET {"R", "W"} /\ writable \in BOOLEAN /\ file \in Bytes
           /\ GoodList(i_cache, 2 * i_writes) /\ CacheShows(i_cache, skyline)
    BY CacheConstants DEF CacheInv

\* A command that is for everything takes every entry that covers an address.
LEMMA HitAll ==
    ASSUME WAssumption, NEW e, GoodEntry(e), NEW a \in Addr, Covers(e, a)
    PROVE  Cache!Overlap(e, Cache!Everything)
    <1> DEFINE x == Stop(e)
    <1>1. x \in 1 .. W - 1 /\ e.addr \in Nat /\ e.addr < x /\ W \in Nat
        BY DEF GoodEntry, Writable, Stop, Covers, Addr, WAssumption
    <1>2. \A y \in 1 .. W - 1 : y % W = y
        BY ModFacts DEF WAssumption
    <1>3. Cache!End(e) = x
        <2>1. x % W = x
            BY <1>1, <1>2
        <2> QED
            BY <2>1 DEF Cache!End, Stop
    <1>4. Cache!End(Cache!Everything) = W - 1
        <2>1. (W - 1) % W = W - 1
            BY <1>1, <1>2
        <2>2. 0 + (W - 1) = W - 1
            BY <1>1
        <2> QED
            BY <2>1, <2>2 DEF Cache!End, Cache!Everything
    <1> HIDE DEF x
    <1> QED
        BY <1>1, <1>3, <1>4 DEF Cache!Overlap, Cache!Everything

\* So such a command takes all that shows.
LEMMA HitsAll ==
    ASSUME CacheInv
    PROVE  \A i \in DOMAIN i_cache : \A a \in Addr :
             Covers(i_cache[i], a) => i_cache[i] \in Cache!Hit(Cache!Everything)
    <1>1. WAssumption /\ \A i \in DOMAIN i_cache : GoodEntry(i_cache[i])
        BY CacheFacts DEF GoodList
    <1> QED
        BY <1>1, HitAll DEF Cache!Hit, Cache!ToSet

\* The entries after a commit have the same intervals and bytes.
LEMMA CommittedSame ==
    ASSUME CacheInv, NEW r, Cache!Commit(r)
    PROVE  /\ Len(i_cache') = Len(i_cache) /\ Len(i_cache) \in Nat
           /\ \A k \in 1 .. Len(i_cache) :
                /\ i_cache'[k].addr = i_cache[k].addr /\ i_cache'[k].size = i_cache[k].size
                /\ i_cache'[k].data = i_cache[k].data /\ i_cache'[k].odata = i_cache[k].odata
    <1>1. /\ i_cache \in Seq(Entries) /\ Len(i_cache) \in Nat /\ DOMAIN i_cache = 1 .. Len(i_cache)
          /\ \A k \in 1 .. Len(i_cache) : i_cache[k] \in Entries
        BY CacheFacts, EntriesLie
    <1>2. i_cache' = [k \in 1 .. Len(i_cache) |-> IF i_cache[k] \in Cache!Hit(r) /\ writable
                                                  THEN [i_cache[k] EXCEPT !.written = TRUE] ELSE i_cache[k]]
        BY <1>1 DEF Cache!Commit
    <1>3. Len(i_cache') = Len(i_cache)
        BY <1>1, <1>2
    <1>4. ASSUME NEW k \in 1 .. Len(i_cache)
          PROVE  i_cache'[k] = i_cache[k] \/ i_cache'[k] = [i_cache[k] EXCEPT !.written = TRUE]
        BY <1>2
    <1>5. ASSUME NEW e \in Entries
          PROVE  /\ [e EXCEPT !.written = TRUE].addr = e.addr /\ [e EXCEPT !.written = TRUE].size = e.size
                 /\ [e EXCEPT !.written = TRUE].data = e.data /\ [e EXCEPT !.written = TRUE].odata = e.odata
        BY DEF Entries
    <1> QED
        BY <1>1, <1>3, <1>4, <1>5

\* What a cached write adds, where no interval wraps.
LEMMA UnwrappedWrite ==
    ASSUME Unwrapped, CacheInv, NEW r \in CacheIntervals, Cache!WriteAt(r), "W" \in cached
    PROVE  LET s == [cache |-> i_cache, skyline |-> skyline]
               data == Cache!Bytes(i_writes + 1, r.size)
           IN  /\ i_cache' = Cache!AddEntry(s, 2 * i_writes, r.addr, r.size, data).cache
               /\ IsBuf(data, r.size) /\ file' = file /\ base' = base /\ writable' = writable
               /\ r.addr \in Nat /\ r.size \in Nat \ {0} /\ r.addr + r.size <= W - 1
    <1> DEFINE s == [cache |-> i_cache, skyline |-> skyline]
               data == Cache!Bytes(i_writes + 1, r.size)
    <1>1. W \in Nat \ {0} /\ i_writes \in Nat
        BY CacheFacts
    <1>2. r.addr \in Nat /\ r.size \in Nat \ {0} /\ r.addr + r.size <= W - 1 /\ ~(W - 1 - r.addr < r.size)
        BY <1>1, CacheConstants DEF Unwrapped, Addr
    <1>3. IsBuf(data, r.size)
        <2>1. \A i \in 0 .. r.size - 1 : ((i_writes + 1) * W) + i \in Nat
            BY <1>1, <1>2
        <2> QED
            BY <2>1 DEF Cache!Bytes, IsBuf
    <1>4. Cache!CacheWrite(s, i_writes, r.addr, r.size, data) = Cache!AddEntry(s, 2 * i_writes, r.addr, r.size, data)
        BY <1>2 DEF Cache!CacheWrite
    <1>5. /\ i_cache' = Cache!CacheWrite(s, i_writes, r.addr, r.size, data).cache
          /\ file' = file /\ base' = base /\ writable' = writable
        BY DEF Cache!WriteAt
    <1> QED
        BY <1>2, <1>3, <1>4, <1>5

\* rz_io_write_at.
LEMMA WriteAtBase ==
    ASSUME Unwrapped, CacheInv, BaseInv, NEW r \in CacheIntervals, Cache!WriteAt(r)
    PROVE  BaseInv'
    <1>1. CASE "W" \in cached
        <2> DEFINE s == [cache |-> i_cache, skyline |-> skyline]
                   data == Cache!Bytes(i_writes + 1, r.size)
                   new == Cache!AddEntry(s, 2 * i_writes, r.addr, r.size, data)
        <2>1. /\ i_cache' = new.cache /\ file' = file /\ base' = base /\ writable' = writable
              /\ r.addr \in Nat /\ r.size \in Nat \ {0} /\ r.addr + r.size <= W - 1
            BY <1>1, UnwrappedWrite
        <2>2. s.cache = i_cache /\ s.skyline = skyline
            OBVIOUS
        <2> HIDE DEF s, data
        <2>3. ASSUME base # <<>> PROVE Recalls(i_cache', file', base')
            <3>1. Recalls(s.cache, file, base)
                BY <2>2, <2>3 DEF BaseInv
            <3>2. GoodList(s.cache, 2 * i_writes) /\ CacheShows(s.cache, s.skyline)
                BY <2>2, CacheFacts
            <3>3. Recalls(new.cache, file, base)
                BY <2>1, <3>1, <3>2, CacheFacts, AddRecalls
            <3> QED
                BY <2>1, <3>3
        <2> QED
            BY <2>1, <2>3 DEF BaseInv
    <1>2. CASE "W" \notin cached
        <2>1. i_cache' = i_cache /\ base' = IF i_cache = <<>> THEN file' ELSE <<>>
            BY <1>2 DEF Cache!WriteAt
        <2>2. file' \in Bytes
            BY WriteAtInv DEF CacheInv
        <2>3. Recalls(<<>>, file', file')
            BY EmptyRecalls
        <2> QED
            BY <2>1, <2>2, <2>3 DEF BaseInv
    <1> QED
        BY <1>1, <1>2

\* rz_io_cache_commit.
LEMMA CommitBase ==
    ASSUME CacheInv, BaseInv, NEW r, Cache!Commit(r)
    PROVE  BaseInv'
    <1> SUFFICES ASSUME base' # <<>>
                 PROVE  base' \in Bytes /\ Recalls(i_cache', file', base') /\ (writable' \/ file' = base')
        BY DEF BaseInv
    <1>1. base' = base /\ writable' = writable /\ file' = Cache!FileWrites(file, Only(i_cache, Cache!Hit(r)))
        BY CacheOnlyIs DEF Cache!Commit
    <1>2. base \in Bytes /\ Recalls(i_cache, file, base) /\ (writable \/ file = base)
        BY <1>1 DEF BaseInv
    <1> DEFINE d == i_cache'
               S == Cache!Hit(r)
    <1>3. Len(d) = Len(i_cache) /\ \A k \in 1 .. Len(i_cache) :
            d[k].addr = i_cache[k].addr /\ d[k].size = i_cache[k].size /\ d[k].odata = i_cache[k].odata
        BY CommittedSame
    <1> HIDE DEF d, S
    <1>4. Recalls(d, Cache!PutAll(file, Only(i_cache, S)), base) /\ Recalls(d, file, base)
        BY <1>2, <1>3, CacheFacts, CommitRecalls
    <1>5. Recalls(d, file', base)
        BY <1>1, <1>4 DEF Cache!FileWrites, S
    <1>6. writable \/ file' = base
        BY <1>1, <1>2 DEF Cache!FileWrites
    <1> QED
        BY <1>1, <1>2, <1>5, <1>6 DEF d

\* rz_io_cache_invalidate.
LEMMA InvalidateBase ==
    ASSUME CacheInv, BaseInv, NEW r, Cache!Invalidate(r)
    PROVE  BaseInv'
    <1> DEFINE c == i_cache
               S == Cache!Hit(r)
               kept == Only(c, Cache!ToSet(c) \ S)
               hits == Only(c, S)
    <1>1. /\ file' = Cache!FileWrites(file, Cache!Replaced(hits)) /\ i_cache' = kept /\ writable' = writable
          /\ base' = IF kept = <<>> THEN file' ELSE IF kept = c THEN base ELSE <<>>
        BY CacheOnlyIs DEF Cache!Invalidate
    <1>2. WAssumption /\ file \in Bytes /\ GoodList(c, 2 * i_writes) /\ file' \in Bytes
        BY CacheFacts, InvalidateInv DEF CacheInv
    <1>3. CASE kept = <<>>
        <2>1. Recalls(<<>>, file', file')
            BY EmptyRecalls
        <2> HIDE DEF kept
        <2> QED
            BY <1>1, <1>2, <1>3, <2>1 DEF BaseInv
    <1>4. CASE kept # <<>> /\ kept = c
        <2>1. c \in Seq(Entries) /\ DOMAIN c = 1 .. Len(c)
            BY <1>2, EntriesLie
        <2>2. PICK p : Chosen(kept, c, Cache!ToSet(c) \ S, p)
            BY <2>1, OnlyOrder
        <2>3. \A k \in DOMAIN c : c[k] \notin S
            BY <1>4, <2>2 DEF Chosen
        <2>4. hits \in Seq(Entries) /\ \E q : Chosen(hits, c, S, q)
            BY <2>1, OnlyOrder
        <2>5. DOMAIN hits = {}
            BY <2>3, <2>4 DEF Chosen
        <2>6. Len(hits) = 0
            <3> HIDE DEF hits
            <3> QED
                BY <2>4, <2>5
        <2>7. GoodList(hits, 2 * i_writes)
            BY <1>2, OnlyEntries
        <2> HIDE DEF hits, kept, S
        <2>8. Len(Cache!Replaced(hits)) = 0
            BY <2>6, <2>7, ReplacedWritable
        <2>9. Cache!PutAll(file, Cache!Replaced(hits)) = file
            <3> DEFINE list == Cache!Replaced(hits)
            <3> HIDE DEF list
            <3>1. Len(list) = 0
                BY <2>8 DEF list
            <3>2. \E h \in [0 .. Len(list) -> Bytes] : h[0] = file /\ Cache!PutAll(file, list) = h[Len(list)]
                <4>1. \A k \in 1 .. Len(list) : Writable(list[k])
                    BY <3>1
                <4> QED
                    BY <3>1, <4>1, <1>2, PutAllSteps, SMTT(40)
            <3> QED
                BY <3>1, <3>2 DEF list
        <2>10. file' = file /\ i_cache' = i_cache /\ base' = base
            BY <1>1, <1>4, <2>9 DEF Cache!FileWrites
        <2> QED
            BY <1>1, <2>10 DEF BaseInv
    <1>5. CASE kept # <<>> /\ kept # c
        <2> HIDE DEF kept
        <2> QED
            BY <1>1, <1>5 DEF BaseInv
    <1> QED
        BY <1>3, <1>4, <1>5

\* Every step of the cache keeps what there is to go back to.
LEMMA BaseNext ==
    ASSUME Unwrapped, CacheInv, BaseInv, [Cache!Next]_Cache!vars
    PROVE  BaseInv'
    <1>1. CASE UNCHANGED Cache!vars
        BY <1>1 DEF Cache!vars, BaseInv
    <1>2. ASSUME NEW r \in CacheIntervals, Cache!WriteAt(r) PROVE BaseInv'
        BY <1>2, WriteAtBase
    <1>3. ASSUME NEW r, Cache!CommitRange(r) PROVE BaseInv'
        BY <1>3, CommitBase DEF Cache!CommitRange
    <1>4. CASE Cache!CommitAll
        BY <1>4, CommitBase DEF Cache!CommitAll
    <1>5. ASSUME NEW r, Cache!RemoveRange(r) PROVE BaseInv'
        BY <1>5, InvalidateBase DEF Cache!RemoveRange
    <1>6. CASE Cache!RemoveAll
        BY <1>6, InvalidateBase DEF Cache!RemoveAll
    <1>7. CASE Cache!Reset
        <2>1. i_cache' = <<>> /\ base' = file /\ file' = file /\ file \in Bytes
            BY <1>7, CacheFacts DEF Cache!Reset
        <2> QED
            BY <2>1, EmptyRecalls DEF BaseInv
    <1>8. CASE Cache!SetCached
        BY <1>8 DEF Cache!SetCached, BaseInv
    <1> QED
        BY <1>1, <1>2, <1>3, <1>4, <1>5, <1>6, <1>7, <1>8 DEF Cache!Next

\* wci brings every entry into the file, and a read gives what it gave.
LEMMA CommitAllKeeps ==
    ASSUME CacheInv, Cache!CommitAll
    PROVE  Cache!CommitAllFlushesStep
    <1> DEFINE c == i_cache
               d == i_cache'
               S == Cache!Hit(Cache!Everything)
               g == Cache!PutAll(file, Only(c, S))
               h == Cache!PutAll(file', d)
    <1>1. /\ WAssumption /\ file \in Bytes /\ GoodList(c, 2 * i_writes) /\ Cache!Commit(Cache!Everything)
        BY CacheFacts DEF Cache!CommitAll
    <1>2. ASSUME writable PROVE file' = g
        BY <1>1, <1>2, CacheOnlyIs DEF Cache!Commit, Cache!FileWrites
    <1>3. /\ Len(d) = Len(c) /\ Len(c) \in Nat
          /\ \A k \in 1 .. Len(c) : d[k].addr = c[k].addr /\ d[k].size = c[k].size /\ d[k].data = c[k].data
        BY <1>1, CommittedSame
    <1>4. CacheInv'
        BY <1>1, CommitInv2
    <1>5. GoodList(d, 2 * i_writes') /\ file' \in Bytes
        BY <1>4 DEF CacheInv
    <1>6. \A i \in DOMAIN c : \A a \in Addr : Covers(c[i], a) => c[i] \in S
        BY HitsAll
    <1> DEFINE f == file
               now == file'
               m == i_writes'
    <1>7. GoodList(d, 2 * m) /\ now \in Bytes /\ f \in Bytes
        BY <1>1, <1>5
    <1> HIDE DEF c, d, S, f, now, m
    <1>8. Over(Cache!PutAll(f, Only(c, S)), f, c)
        BY <1>1, <1>6, <1>7, OverOnly
    <1>9. Over(Cache!PutAll(f, c), f, c)
        BY <1>1, <1>7, EntriesLie, PutAllOver
    <1>10. Cache!PutAll(f, Only(c, S)) = Cache!PutAll(f, c)
        BY <1>3, <1>8, <1>9, OverIsOne
    <1>11. Over(Cache!PutAll(now, d), now, d)
        BY <1>1, <1>7, EntriesLie, PutAllOver
    <1>12. ASSUME now = Cache!PutAll(f, c) PROVE Cache!PutAll(now, d) = now
        <2>1. Over(now, f, c)
            BY <1>9, <1>12
        <2> DEFINE x == Cache!PutAll(now, d)
        <2>2. Over(x, now, d)
            BY <1>11
        <2> HIDE DEF x
        <2>3. Over(x, f, c)
            BY <1>3, <2>1, <2>2, OverAgain
        <2>4. x = now
            BY <1>3, <2>1, <2>3, OverIsOne
        <2> QED
            BY <2>4 DEF x
    <1> SUFFICES ASSUME writable PROVE file' = Cache!Shown(i_cache, file) /\ Cache!Shown(i_cache', file') = Cache!Shown(i_cache, file)
        BY DEF Cache!CommitAllFlushesStep
    <1>13. now = Cache!PutAll(f, c)
        BY <1>2, <1>10 DEF f, now
    <1> QED
        BY <1>12, <1>13 DEF Cache!Shown, f, c, d, now

\* wc- of everything gives the file as it was.
LEMMA RemoveAllRestores ==
    ASSUME CacheInv, BaseInv, Cache!RemoveAll
    PROVE  Cache!RestoresAllStep
    <1> SUFFICES ASSUME base # <<>> PROVE file' = base
        BY DEF Cache!RestoresAllStep
    <1>1. base \in Bytes /\ Recalls(i_cache, file, base) /\ (writable \/ file = base)
        BY DEF BaseInv
    <1> DEFINE S == Cache!Hit(Cache!Everything)
    <1>2. file' = Cache!FileWrites(file, Cache!Replaced(Only(i_cache, S)))
        BY CacheOnlyIs DEF Cache!RemoveAll, Cache!Invalidate
    <1>3. \A i \in DOMAIN i_cache : \A a \in Addr : Covers(i_cache[i], a) => i_cache[i] \in S
        BY HitsAll
    <1> HIDE DEF S
    <1>4. Cache!PutAll(file, Cache!Replaced(Only(i_cache, S))) = base
        BY <1>1, <1>3, CacheFacts, TakenBack
    <1> QED
        BY <1>1, <1>2, <1>4 DEF Cache!FileWrites

\* All of a file that is read is the file.
LEMMA ReadAllIs ==
    ASSUME WAssumption, NEW f \in Bytes
    PROVE  Cache!FileRead(f, 0, W) = f
    <1>1. W \in Nat \ {0}
        BY DEF WAssumption
    <1>2. \A i \in 0 .. W - 1 : (0 + i) % W = i
        <2>1. \A i \in 0 .. W - 1 : i % W = i
            BY <1>1, ModFacts
        <2>2. \A i \in 0 .. W - 1 : 0 + i = i
            OBVIOUS
        <2> QED
            BY <2>1, <2>2
    <1>3. Cache!FileRead(f, 0, W) = [i \in 0 .. W - 1 |-> f[i]]
        BY <1>2 DEF Cache!FileRead
    <1> QED
        BY <1>3 DEF Bytes, Addr

\* A cached write is read where it was written, and nowhere else.
LEMMA WriteIsRead ==
    ASSUME Unwrapped, CacheInv, NEW r \in CacheIntervals, Cache!WriteAt(r)
    PROVE  Cache!WrittenIsReadStep
    <1> SUFFICES ASSUME "W" \in cached
                 PROVE  Cache!FileRead(Cache!Shown(i_cache', file'), 0, W)
                          = Cache!Put(Cache!FileRead(Cache!Shown(i_cache, file), 0, W), r.addr, r.size,
                                      Cache!Bytes(i_writes', r.size))
        <2>1. i_done'.range = r
            BY DEF Cache!WriteAt, Cache!Did
        <2> QED
            BY <2>1 DEF Cache!WrittenIsReadStep
    <1> DEFINE s == [cache |-> i_cache, skyline |-> skyline]
               data == Cache!Bytes(i_writes + 1, r.size)
               new == Cache!AddEntry(s, 2 * i_writes, r.addr, r.size, data)
    <1>1. /\ i_cache' = new.cache /\ file' = file /\ IsBuf(data, r.size)
          /\ r.addr \in Nat /\ r.size \in Nat \ {0} /\ r.addr + r.size <= W - 1
        BY UnwrappedWrite
    <1>2. i_writes' = i_writes + 1
        BY DEF Cache!WriteAt
    <1>3. s.cache = i_cache /\ s.skyline = skyline
        OBVIOUS
    <1>4. /\ WAssumption /\ file \in Bytes /\ 2 * i_writes \in Nat /\ GoodList(i_cache, 2 * i_writes)
          /\ CacheShows(i_cache, skyline)
        BY CacheFacts
    <1> DEFINE odata == IF r.size = 0 THEN data
                        ELSE Cache!ReadAtMapped(cached, file, s.cache, s.skyline, r.addr, r.size)
               e == [id |-> 2 * i_writes, addr |-> r.addr, size |-> r.size, data |-> data,
                     written |-> FALSE, odata |-> odata]
               d == Append(i_cache, e)
               m == 2 * i_writes'
               g == Cache!PutAll(file, i_cache)
               h == Cache!PutAll(file, d)
    <1>5. new.cache = Append(s.cache, e)
        BY DEF Cache!AddEntry
    <1>7. e.addr = r.addr /\ e.size = r.size /\ e.data = data
        OBVIOUS
    <1>8. i_cache' = d
        BY <1>1, <1>3, <1>5
    <1>9. CacheInv'
        BY WriteAtInv
    <1>11. GoodList(d, m)
        BY <1>8, <1>9 DEF CacheInv
    <1> HIDE DEF s, data, e, m
    <1>6. e \in Entries /\ GoodEntry(e)
        <2>1. i_cache \in Seq(Entries) /\ Len(i_cache) + 1 \in 1 .. Len(d) /\ d[Len(i_cache) + 1] = e
            BY <1>4, EntriesLie
        <2>2. d \in Seq(Entries) /\ \A k \in 1 .. Len(d) : d[k] \in Entries /\ GoodEntry(d[k])
            <3> HIDE DEF d
            <3>1. d \in Seq(Entries) /\ \A k \in 1 .. Len(d) : GoodEntry(d[k])
                BY <1>4, <1>11, EntriesLie
            <3> QED
                BY <3>1
        <2> QED
            BY <2>1, <2>2
    <1>12. Over(g, file, i_cache)
        BY <1>4, EntriesLie, PutAllOver
    <1>13. Over(h, file, d)
        <2> HIDE DEF d
        <2>1. Over(Cache!PutAll(file, d), file, d)
            BY <1>4, <1>11, EntriesLie, PutAllOver
        <2> QED
            BY <2>1 DEF d
    <1> HIDE DEF g, h
    <1>14. h = Cache!Put(g, e.addr, e.size, e.data)
        BY <1>4, <1>6, <1>12, <1>13, OverAppended
    <1>15. Cache!FileRead(g, 0, W) = g /\ Cache!FileRead(h, 0, W) = h
        BY <1>4, <1>12, <1>13, ReadAllIs DEF Over
    <1>16. Cache!Shown(i_cache', file') = h /\ Cache!Shown(i_cache, file) = g
        BY <1>1, <1>8 DEF Cache!Shown, g, h
    <1> QED
        BY <1>2, <1>7, <1>14, <1>15, <1>16 DEF data

\* Every step of the cache does what the commands say.
LEMMA CacheKeeps ==
    ASSUME Unwrapped, CacheInv, BaseInv, Cache!Next
    PROVE  Cache!CommitAllFlushesStep /\ Cache!RestoresAllStep /\ Cache!WrittenIsReadStep
    <1>1. ASSUME i_done'.op # "wci" PROVE Cache!CommitAllFlushesStep
        BY <1>1 DEF Cache!CommitAllFlushesStep
    <1>2. ASSUME i_done'.op # "wc- all" PROVE Cache!RestoresAllStep
        BY <1>2 DEF Cache!RestoresAllStep
    <1>3. ASSUME i_done'.op # "write" PROVE Cache!WrittenIsReadStep
        BY <1>3 DEF Cache!WrittenIsReadStep
    <1>4. CASE \E r \in CacheIntervals : Cache!WriteAt(r)
        <2>1. i_done'.op = "write"
            BY <1>4 DEF Cache!WriteAt, Cache!Did
        <2> QED
            BY <1>1, <1>2, <1>4, <2>1, WriteIsRead
    <1>5. CASE Cache!CommitAll
        <2>1. i_done'.op = "wci"
            BY <1>5 DEF Cache!CommitAll, Cache!Did
        <2> QED
            BY <1>2, <1>3, <1>5, <2>1, CommitAllKeeps
    <1>6. CASE Cache!RemoveAll
        <2>1. i_done'.op = "wc- all"
            BY <1>6 DEF Cache!RemoveAll, Cache!Did
        <2> QED
            BY <1>1, <1>3, <1>6, <2>1, RemoveAllRestores
    <1>7. CASE (\E r : Cache!CommitRange(r) \/ Cache!RemoveRange(r)) \/ Cache!Reset \/ Cache!SetCached
        <2>1. i_done'.op \in {"wc+", "wc-", "wc-*", "config"}
            BY <1>7 DEF Cache!CommitRange, Cache!RemoveRange, Cache!Reset, Cache!SetCached, Cache!Did
        <2> QED
            BY <1>1, <1>2, <1>3, <2>1
    <1> QED
        BY <1>4, <1>5, <1>6, <1>7 DEF Cache!Next

\* An address lies in its block.
LEMMA BlockHas ==
    ASSUME NEW a \in Nat, NEW b \in Nat \ {0}
    PROVE  a \div b \in Nat /\ (a \div b) * b <= a /\ a < ((a \div b) + 1) * b
    OBVIOUS

\* Every cached byte of a block is in one of its runs.
LEMMA RunHas ==
    ASSUME NEW c, NEW k \in Nat, NEW a \in DOMAIN c.data, a \in Nat, Block(a) = k
    PROVE  \E r \in Runs(c, k) : a \in r
    <1> DEFINE first == k * BlockSize
               next == (k + 1) * BlockSize
               block == first .. next - 1
               D == block \cap DOMAIN c.data
               U == {y \in block : y >= a /\ y + 1 \notin D}
               V == {y \in 0 .. a : a - y \in block /\ (a - y) - 1 \notin D}
    <1>1. first \in Nat /\ next \in Nat /\ first <= a /\ a < next
        BY PCacheAssumption, BlockHas DEF Block
    <1> HIDE DEF first, next
    <1>2. PICK hi \in U : \A y \in U : hi <= y
        <2>1. next - 1 \in U
            BY <1>1
        <2>2. U \in SUBSET Nat /\ U # {}
            BY <1>1, <2>1
        <2> HIDE DEF U
        <2> QED
            BY <2>2, Smallest
    <1>3. PICK v \in V : \A y \in V : v <= y
        <2>1. a - first \in V
            BY <1>1
        <2>2. V \in SUBSET Nat /\ V # {}
            BY <1>1, <2>1
        <2> HIDE DEF V
        <2> QED
            BY <2>2, Smallest
    <1> DEFINE lo == a - v
               r == lo .. hi
    <1>4. a \in D /\ lo \in block /\ hi \in block /\ lo <= a /\ a <= hi /\ lo - 1 \notin D /\ hi + 1 \notin D
        BY <1>1, <1>2, <1>3
    <1>5. ASSUME NEW z \in r, z \notin D PROVE FALSE
        <2>1. CASE z > a
            <3>1. z - 1 \in U
                BY <1>1, <1>4, <1>5, <2>1
            <3> QED
                BY <1>2, <1>4, <1>5, <3>1
        <2>2. CASE z < a
            <3>1. a - (z + 1) \in V
                BY <1>1, <1>4, <1>5, <2>2
            <3> QED
                BY <1>3, <1>4, <1>5, <3>1
        <2> QED
            BY <2>1, <2>2, <1>4, <1>5
    <1>6. r \in SUBSET D /\ a \in r
        BY <1>4, <1>5
    <1>7. {lo - 1, hi + 1} \cap block \cap DOMAIN c.data = {}
        BY <1>4
    <1>8. r \in Runs(c, k)
        <2> HIDE DEF lo, U, V
        <2>1. block = (k * BlockSize) .. (((k + 1) * BlockSize) - 1)
            BY DEF first, next
        <2> HIDE DEF block
        <2> QED
            BY <1>4, <1>6, <1>7, <2>1 DEF Runs
    <1> QED
        BY <1>6, <1>8

\* rz_io_desc_cache_commit keeps what a read gives of every descriptor.
LEMMA CommitKeeps ==
    ASSUME Inv, NEW fd \in Fds, Commit(fd)
    PROVE  CommitKeepsStep
    <1> DEFINE c == cache[fd]
               written == UNION UNION {Runs(c, k) : k \in c.blocks}
               old == desc[fd].bytes
               new == [a \in DOMAIN old |-> IF a \in written THEN c.data[a] ELSE old[a]]
    <1>1. desc \in [Fds -> Descs] /\ cache \in [Fds -> Caches] /\ c \in Caches
        BY DEF Inv, TypeOK
    <1>2. desc' = [desc EXCEPT ![fd].bytes = new] /\ cache' = [cache EXCEPT ![fd] = NoCache]
        BY DEF Commit
    <1>3. DOMAIN c.data \subseteq DOMAIN old /\ DOMAIN old \subseteq Addrs
        BY <1>1, InsideIsAddrs DEF Inv, CachedInSize, Inside
    <1>4. written = DOMAIN c.data
        <2>1. written \subseteq DOMAIN c.data
            BY DEF Runs
        <2>2. ASSUME NEW a \in DOMAIN c.data PROVE a \in written
            <3>1. a \in Nat /\ Block(a) \in c.blocks
                BY <1>3 DEF Addrs, Inv, TypeOK
            <3>2. Block(a) \in Nat
                BY <3>1, PCacheAssumption, BlockHas DEF Block
            <3> HIDE DEF c
            <3>3. PICK r \in Runs(c, Block(a)) : a \in r
                BY <2>2, <3>1, <3>2, RunHas
            <3> QED
                BY <3>1, <3>3
        <2> QED
            BY <2>1, <2>2
    <1>5. new = [a \in DOMAIN old |-> IF a \in DOMAIN c.data THEN c.data[a] ELSE old[a]]
        BY <1>4
    <1>6. ASSUME NEW x \in Fds, x # fd PROVE desc'[x] = desc[x] /\ cache'[x] = cache[x]
        BY <1>1, <1>2, <1>6
    <1>7. desc'[fd].bytes = new /\ cache'[fd] = NoCache
        <2> HIDE DEF new
        <2> QED
            BY <1>1, <1>2 DEF Descs
    <1>8. Shown(desc'[fd], cache'[fd]) = Shown(desc[fd], cache[fd])
        <2>1. DOMAIN NoCache.data = {}
            BY DEF NoCache
        <2>2. Shown(desc'[fd], cache'[fd]) = new
            BY <1>7, <2>1 DEF Shown
        <2> QED
            BY <1>5, <2>2 DEF Shown
    <1>9. \A x \in Fds : Shown(desc'[x], cache'[x]) = Shown(desc[x], cache[x])
        BY <1>6, <1>8
    <1> QED
        BY <1>9 DEF CommitKeepsStep, Seen, Shown

\* Only a commit is named one.
LEMMA PCacheKeeps ==
    ASSUME Inv, Next
    PROVE  CommitKeepsStep
    <1>1. CASE \E fd \in Fds : Commit(fd)
        BY <1>1, CommitKeeps
    <1>2. CASE ~\E fd \in Fds : Commit(fd)
        <2>1. done' \in {"write", "list", "resize", "exchange", "on", "off"}
            BY <1>2 DEF Next, Did, Write, List, Resize, Exchange, SetOn, SetOff, SetOffBoth
        <2> QED
            BY <2>1 DEF CommitKeepsStep
    <1> QED
        BY <1>1, <1>2

\* Only the part that runs does anything.
OthersIdle ==
    /\ part # "pcache" => done = "none"
    /\ part # "cache" => i_done.op = "none"

\* The intervals of the run are such: the hypothesis below is one that a cache can meet.
LEMMA SomeUnwrapped ==
    ASSUME W = 8, CacheIntervals = Some
    PROVE  Unwrapped
    BY DEF Some, Itv, Unwrapped

\* What the commands of both caches keep, for any descriptors, sizes, blocks, intervals and entries: a
\* commit changes nothing a read gives and wci brings everything into the file, taking back all entries restores
\* the file, and a cached write is read at the addresses of its range alone; where no interval wraps.
THEOREM CommandsAlwaysKeep ==
    ASSUME Unwrapped
    PROVE  MCSpec => CommandsKeep
    <1> DEFINE K == Inv /\ CacheInv /\ BaseInv /\ OthersIdle
               v == <<part, vars, maps, iocache>>
    <1>1. MCInit => K
        <2> SUFFICES ASSUME MCInit PROVE K
            OBVIOUS
        <2>1. Inv /\ CacheInv
            BY InitInv, CacheInvInit DEF MCInit
        <2>2. i_cache = <<>> /\ base = file /\ i_done.op = "none"
            BY DEF MCInit, Cache!Init
        <2>3. BaseInv
            BY <2>1, <2>2, EmptyRecalls DEF BaseInv, CacheInv
        <2>4. OthersIdle
            BY <2>2 DEF MCInit, Init, OthersIdle
        <2> QED
            BY <2>1, <2>3, <2>4
    <1>2. K /\ [MCNext]_v => K'
        <2> SUFFICES ASSUME K, [MCNext]_v PROVE K'
            OBVIOUS
        <2>1. CASE UNCHANGED v
            BY <2>1, NextInv, CacheInvNext, BaseNext DEF vars, iocache, Cache!vars, OthersIdle
        <2>2. CASE part = "pcache" /\ Next /\ UNCHANGED <<part, maps, iocache>>
            BY <2>2, NextInv, CacheInvNext, BaseNext DEF iocache, Cache!vars, OthersIdle
        <2>3. CASE part = "maps" /\ Map!Next /\ UNCHANGED <<part, vars, iocache>>
            BY <2>3, NextInv, CacheInvNext, BaseNext DEF vars, iocache, Cache!vars, OthersIdle
        <2>4. CASE part = "cache" /\ Cache!Next /\ UNCHANGED <<part, vars, maps>>
            BY <2>4, NextInv, CacheInvNext, BaseNext DEF vars, OthersIdle
        <2> QED
            BY <2>1, <2>2, <2>3, <2>4 DEF MCNext
    <1>3. K /\ [MCNext]_v =>
            [CommitKeepsStep /\ Cache!CommitAllFlushesStep /\ Cache!RestoresAllStep /\ Cache!WrittenIsReadStep]_<<vars, iocache>>
        <2> SUFFICES ASSUME K, [MCNext]_v, ~UNCHANGED <<vars, iocache>>
                     PROVE  /\ CommitKeepsStep
                            /\ Cache!CommitAllFlushesStep /\ Cache!RestoresAllStep /\ Cache!WrittenIsReadStep
            OBVIOUS
        <2>1. CASE part = "pcache" /\ Next /\ UNCHANGED <<part, maps, iocache>>
            <3>1. i_done'.op = "none"
                BY <2>1 DEF OthersIdle, iocache
            <3> QED
                BY <2>1, <3>1, PCacheKeeps DEF Cache!CommitAllFlushesStep, Cache!RestoresAllStep, Cache!WrittenIsReadStep
        <2>2. CASE part = "cache" /\ Cache!Next /\ UNCHANGED <<part, vars, maps>>
            <3>1. done' = "none"
                BY <2>2 DEF OthersIdle, vars
            <3>2. CommitKeepsStep
                BY <3>1 DEF CommitKeepsStep
            <3> QED
                BY <2>2, <3>2, CacheKeeps
        <2> QED
            BY <2>1, <2>2 DEF MCNext
    <1> QED
        BY <1>1, <1>2, <1>3, PTL DEF MCSpec, CommandsKeep
=============================================================================
