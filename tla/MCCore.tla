------------------------------- MODULE MCCore -------------------------------
(* Instances of SeekHistory and CoreFiles for TLC: two parts of an RzCore  *)
(* that share no state, so a behaviour is one of either.                   *)
EXTENDS SeekHistory

CONSTANT Usages

VARIABLES part, usage, core, closing

Files == INSTANCE CoreFiles

ASSUME FilesAssumption == Files!CoreFilesAssumption

files == <<core, closing>>

Steps == {-2, 2}

Raw == [maps |-> <<>>, info |-> "none"]
Plain == [maps |-> <<"fmap">>, info |-> "va"]
Virtual == [maps |-> <<"vmap">>, info |-> "va"]
Physical == [maps |-> <<"mmap">>, info |-> "pa"]

\* Plugins that refuse to close, with two files and a raw binary, and with none
\* that can be read; a virtual file beside two files; a binary for each of two
\* files; and one file whose binary has virtual, null or physical maps.
AllUsages == {
    [objects |-> {Raw}, refuse |-> TRUE,
     descs |-> 2, strays |-> 2, files |-> 2, bins |-> 1, maps |-> 1],
    [objects |-> {}, refuse |-> TRUE,
     descs |-> 2, strays |-> 1, files |-> 2, bins |-> 0, maps |-> 1],
    [objects |-> {Virtual}, refuse |-> FALSE,
     descs |-> 3, strays |-> 0, files |-> 2, bins |-> 1, maps |-> 1],
    [objects |-> {Raw, Virtual}, refuse |-> FALSE,
     descs |-> 2, strays |-> 0, files |-> 2, bins |-> 2, maps |-> 2],
    [objects |-> {Plain, Virtual, Physical}, refuse |-> TRUE,
     descs |-> 2, strays |-> 1, files |-> 1, bins |-> 1, maps |-> 2]}

MCInit ==
    /\ Init /\ Files!Init
    /\ \/ part = "seek" /\ usage = CHOOSE u \in Usages : TRUE
       \/ part = "files" /\ histsize = HistSize

MCNext ==
    \/ part = "seek" /\ Next /\ UNCHANGED <<part, files, usage>>
    \/ part = "files" /\ Files!Next /\ UNCHANGED <<part, vars>>

\* Whether the loops of rz_core_file_close and rz_core_file_close_all_but end is
\* checked with one file and its binary, and with two files without: deciding
\* what is ENABLED with more takes TLC too long.
Fair == part = "files" /\ (usage.files = 1 \/ usage.objects = {})

MCSpec ==
    /\ MCInit /\ [][MCNext]_<<part, vars, files, usage>>
    /\ WF_files(Fair /\ Files!Closing)
-----------------------------------------------------------------------------
(* What CoreFiles states under these names.                                *)

\* No core file keeps a pointer to a map, a descriptor or a binary that is gone,
\* no map outlives its descriptor or its core file, and no virtual file its binary.
FilesOwned == Files!FilesOwned

\* rz_core_file_close returns: its loops end because each deletion comes back as
\* an event that shortens the vector.
CloseReturns == Fair /\ closing # None ~> closing = None
=============================================================================
