-------------------------------- MODULE MCIo --------------------------------
(* Instances of PCache, IoMaps and IoCache for TLC.  They share no state,  *)
(* so a behaviour is one of the three.                                     *)
EXTENDS PCache, Skyline

CONSTANTS
    MapIntervals, Delta, MaxMaps,
    CacheIntervals, Modes, MaxCached, Perms

Itv(addr, size) == [addr |-> addr, size |-> size]

VARIABLES
    part,
    io, files, last,
    cached, writable, file, i_cache, skyline, i_writes, base, i_done

maps == <<io, files, last>>
iocache == <<cached, writable, file, i_cache, skyline, i_writes, base, i_done>>

\* Two intervals reach the last address or go past it; nothing else comes near it.
Wrapping == {Itv(6, 3), Itv(6, 2), Itv(1, 3), Itv(0, 3)}

Map == INSTANCE IoMaps WITH Intervals <- MapIntervals

\* Intervals that overlap, nest and touch; one ends where the last entry may.
Some == {Itv(2, 3), Itv(3, 1), Itv(4, 3)}

Cache == INSTANCE IoCache WITH
    Intervals <- CacheIntervals, MaxWrites <- MaxCached,
    cache <- i_cache, writes <- i_writes, done <- i_done

ASSUME MapAssumption == Map!IoMapsAssumption
ASSUME CacheAssumption == Cache!IoCacheAssumption

\* The first states of the parts that a behaviour leaves alone are the same.
OneByte == \A fd \in Fds : desc[fd] = [bytes |-> [a \in {0} |-> 0], writable |-> TRUE]
OneMode == cached = {"W"} /\ writable

MCInit ==
    /\ Init /\ Map!Init /\ Cache!Init
    /\ \/ part = "pcache" /\ OneMode
       \/ part = "maps" /\ OneMode /\ OneByte
       \/ part = "cache" /\ OneByte

MCNext ==
    \/ part = "pcache" /\ Next /\ UNCHANGED <<part, maps, iocache>>
    \/ part = "maps" /\ Map!Next /\ UNCHANGED <<part, vars, iocache>>
    \/ part = "cache" /\ Cache!Next /\ UNCHANGED <<part, vars, maps>>

MCSpec == MCInit /\ [][MCNext]_<<part, vars, maps, iocache>>
-----------------------------------------------------------------------------
(* What the modules state, under names that tell them apart.               *)

\* The skyline answers as a walk through the maps would, a new map shows its
\* descriptor byte after byte, ids are unique and no map shows a closed descriptor.
MapsCorrect == part = "maps" => Map!MapsCorrect

\* A read through the cache gives the newest cached byte of each address, or that of the file.
CacheReads == part = "cache" => Cache!CacheReads

\* What the commands of both caches keep: a commit changes nothing a read gives and
\* brings everything into the file, taking back all entries restores the file, and a
\* cached write is read at the addresses of its range alone.
CommandsKeep ==
    [][/\ CommitKeepsStep
       /\ Cache!CommitAllFlushesStep
       /\ Cache!RestoresAllStep
       /\ Cache!WrittenIsReadStep]_<<vars, iocache>>
=============================================================================
