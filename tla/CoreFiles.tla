----------------------------- MODULE CoreFiles -----------------------------
(***************************************************************************)
(* The files open in an RzCore, librz/core/cfile.c and cbin.c.  An         *)
(* RzCoreFile keeps pointers to maps and descriptors of the io layer and   *)
(* to files of RzBin, and all of those can be deleted behind its back: by  *)
(* a command, or because what they depend on was closed.  Events           *)
(* (librz/util/event.c) tell the core of each deletion, and the core then  *)
(* drops its pointers; the loops of rz_core_file_close rely on it.         *)
(*                                                                         *)
(* Pointers are numbers.  The allocator gives the lowest one that is       *)
(* neither live nor kept anywhere, so that a pointer kept too long stays   *)
(* one to nothing.                                                         *)
(***************************************************************************)
EXTENDS IdPool, SequencesExt, FiniteSetsExt

CONSTANTS
    Usages,   \* the binaries there are, and bounds; one of them in a behaviour
    None

Kinds == {"fmap", "vmap", "mmap"}

\* An RzBinObject: the kinds of its maps, and whether its RzBinInfo is missing,
\* says that there are physical addresses only, or has_va.
BinObjects == [maps : Seq(Kinds), info : {"none", "pa", "va"}]

\* The binaries there are to load, whether a plugin may refuse to close, and the
\* most descriptors, among them of files that are no core file's, core files,
\* binaries and maps at a time.
CoreFilesAssumption ==
    /\ Usages \subseteq [objects : SUBSET BinObjects, refuse : BOOLEAN, descs : Nat,
                        strays : Nat, files : Nat, bins : Nat, maps : Nat]
    /\ None \notin Nat \cup BinObjects

VARIABLES
    usage,
    core,     \* the RzCore with its RzIO and RzBin
    closing   \* the file an rz_core_file_close under way closes, or None in between,
              \* and what its caller does then

vars == <<core, closing>>

Objects == usage.objects
Closes == IF usage.refuse THEN BOOLEAN ELSE {TRUE}

FirstFd == 3

Init ==
    /\ core = [descs |-> {}, desc |-> None, next_id |-> FirstFd, freed_ids |-> <<>>,
               maps |-> {}, binfiles |-> <<>>, cur |-> None,
               files |-> <<>>, file |-> None]
    /\ closing = None
    /\ usage \in Usages
-----------------------------------------------------------------------------
(* Lookup.                                                                 *)

Ptrs(S) == {x.ptr : x \in S}
The(S, p) == CHOOSE x \in S : x.ptr = p
At(list, p) == SelectInSeq(list, LAMBDA x : x.ptr = p)
Without(list, p) == RemoveFirstMatch(list, LAMBDA x : x.ptr = p)

\* rz_io_desc_get.
DescGet(c, fd) ==
    IF \E d \in c.descs : d.fd = fd THEN (CHOOSE d \in c.descs : d.fd = fd).ptr ELSE None

\* rz_core_file_find_by_fd and rz_bin_file_find_by_fd: the first of the list.
FindByFd(list, fd) ==
    LET k == SelectInSeq(list, LAMBDA x : x.fd = fd) IN IF k = 0 THEN None ELSE list[k].ptr

Lowest(used) == Min(1 .. Cardinality(used) + 1 \ used)

\* Everything some core file points to through one of its vectors.
Kept(c, vec(_)) == UNION {ToSet(vec(f)) : f \in ToSet(c.files)}
NewDesc(c) == Lowest(Ptrs(c.descs) \cup Kept(c, LAMBDA f : f.extra_files) \cup {c.desc})
NewMap(c) == Lowest(Ptrs(c.maps) \cup Kept(c, LAMBDA f : f.maps))
NewBin(c) == Lowest(Ptrs(ToSet(c.binfiles)) \cup Kept(c, LAMBDA f : f.binfiles) \cup {c.cur}
                    \cup {d.bf : d \in c.descs})
NewFile(c) == Lowest(Ptrs(ToSet(c.files)) \cup {c.file} \cup {m.cf : m \in c.maps})
-----------------------------------------------------------------------------
(* What the core does when it is told of a deletion.  Appending the new    *)
(* list to the empty one makes TLC evaluate it at once.                    *)

\* Mutant: the files whose own descriptor is gone are passed over.
IoDescClosed_open(c, d) ==
    [c EXCEPT !.files = <<>> \o [k \in DOMAIN c.files |->
        IF \E e \in c.descs : e.fd = c.files[k].fd
        THEN [c.files[k] EXCEPT !.extra_files = RemoveFirst(c.files[k].extra_files, d)]
        ELSE c.files[k]]]

\* rz_core_file_io_desc_closed: every core file forgets the descriptor.
IoDescClosed(c, d) ==
    [c EXCEPT !.files = <<>> \o [k \in DOMAIN c.files |->
        [c.files[k] EXCEPT !.extra_files = RemoveFirst(c.files[k].extra_files, d)]]]

\* rz_core_file_io_map_deleted: the map.
IoMapDeleted(c, m) ==
    [c EXCEPT !.files = <<>> \o [k \in DOMAIN c.files |->
        [c.files[k] EXCEPT !.maps = RemoveFirst(c.files[k].maps, m)]]]

\* rz_core_file_bin_file_deleted: the binary.
BinFileDeleted(c, b) ==
    [c EXCEPT !.files = <<>> \o [k \in DOMAIN c.files |->
        [c.files[k] EXCEPT !.binfiles = RemoveFirst(c.files[k].binfiles, b)]]]
-----------------------------------------------------------------------------
(* The io layer and RzBin.                                                 *)

\* map_del, the map taken off the list.
MapDel(c, m) == IoMapDeleted([c EXCEPT !.maps = {x \in @ : x.ptr # m}], m)

\* rz_io_map_cleanup: the maps whose descriptor is gone.
MapCleanup(c) ==
    FoldSet(LAMBDA m, t : MapDel(t, m.ptr), c, {m \in c.maps : DescGet(c, m.fd) = None})

\* rz_id_storage_delete: with the last descriptor the pool starts over.
StorageDelete(c, fd) ==
    IF c.descs = {} THEN [c EXCEPT !.next_id = FirstFd, !.freed_ids = <<>>] ELSE KickId(c, fd)

\* rz_io_desc_del.
DescDel(c, d) ==
    MapCleanup(StorageDelete([c EXCEPT !.descs = {x \in @ : x.ptr # d},
                                       !.desc = IF @ = d THEN None ELSE @],
                             The(c.descs, d).fd))

\* rz_io_desc_close.  The event is sent first; the plugin may then refuse, but
\* for null:// and vfile:// it does not.
DescClose(c, d, ok) ==
    IF ok \/ The(c.descs, d).kind # "file" THEN DescDel(IoDescClosed(c, d), d) ELSE IoDescClosed(c, d)

\* rz_io_open_nomap, io.autofd being set.
OpenNomap(c, kind, bf) ==
    LET d == NewDesc(c)
    IN  [GrabId(c) EXCEPT
           !.descs = @ \cup {[ptr |-> d, fd |-> NextId(c), kind |-> kind, bf |-> bf]},
           !.desc = d]

\* rz_io_desc_exchange.
Exchange(c, fd, fdx) ==
    LET swapped(d) == CASE d.fd = fd -> fdx [] d.fd = fdx -> fd [] OTHER -> d.fd
    IN  [c EXCEPT !.descs = {[d EXCEPT !.fd = swapped(d)] : d \in c.descs}]

\* rz_io_close_all: no event for a descriptor, one for each map.
IoCloseAll(c) ==
    FoldSet(LAMBDA m, t : MapDel(t, m.ptr),
             [c EXCEPT !.descs = {}, !.desc = None,
                       !.next_id = FirstFd, !.freed_ids = <<>>], c.maps)

\* rz_io_use_fd.
UseFd(c, fd) == IF DescGet(c, fd) = None THEN c ELSE [c EXCEPT !.desc = DescGet(c, fd)]

\* Mutant: only the virtual files the current core file knows are closed.
VfileBinFileDeleted_current(c, b) ==
    FoldSet(LAMBDA d, t : DescClose(t, d.ptr, TRUE), c,
            {d \in c.descs : d.bf = b /\ \E f \in ToSet(c.files) :
                               f.ptr = c.file /\ d.ptr \in ToSet(f.extra_files)})

\* rz_core_vfile_bin_file_deleted.
VfileBinFileDeleted(c, b) ==
    FoldSet(LAMBDA d, t : DescClose(t, d.ptr, TRUE), c, {d \in c.descs : d.bf = b})

\* ev_binfiledel_cb.
EvBinFileDel(c, b) == VfileBinFileDeleted(BinFileDeleted(c, b), b)

\* rz_bin_file_delete.
BinDelete(c, b) ==
    [EvBinFileDel([c EXCEPT !.cur = IF @ = b THEN None ELSE @], b)
        EXCEPT !.binfiles = Without(@, b)]

\* rz_bin_file_delete_all.
BinDeleteAll(c) ==
    [FoldLeft(LAMBDA t, b : EvBinFileDel(t, b.ptr), c, c.binfiles)
        EXCEPT !.binfiles = <<>>, !.cur = None]
-----------------------------------------------------------------------------
(* Loading.                                                                *)

\* A map on fd that belongs to core file cf, or to none.
MapNew(c, fd, cf) ==
    LET m == NewMap(c)
        mapped == [c EXCEPT !.maps = @ \cup {[ptr |-> m, fd |-> fd, cf |-> cf]}]
    IN  IF cf = None THEN mapped
        ELSE [mapped EXCEPT !.files[At(c.files, cf)].maps = Append(@, m)]

\* find_reusable_file, a null:// file when bf is None.
Reusable(c, cf, kind, bf) ==
    IF cf = None THEN None
    ELSE LET own == c.files[At(c.files, cf)].extra_files
             k == SelectInSeq(own, LAMBDA p : \E d \in c.descs :
                                 d.ptr = p /\ d.kind = kind /\ d.bf = bf)
         IN  IF k = 0 THEN None ELSE own[k]

\* The null:// or vfile:// descriptor a map needs: one the core file has, or a new one.
ExtraFile(c, cf, kind, bf) ==
    IF Reusable(c, cf, kind, bf) # None THEN c
    ELSE LET t == OpenNomap(c, kind, bf)
         IN  IF cf = None THEN t
             ELSE [t EXCEPT !.files[At(c.files, cf)].extra_files = Append(@, NewDesc(c))]

\* add_map and io_create_mem_map.
AddMap(c, cf, b, kind) ==
    LET fd == c.binfiles[At(c.binfiles, b)].fd
        bf == IF kind = "vmap" THEN b ELSE None
        t  == ExtraFile(c, cf, kind, bf)
        d  == LET old == Reusable(c, cf, kind, bf) IN IF old = None THEN NewDesc(c) ELSE old
    IN  IF DescGet(c, fd) = None THEN c
        ELSE IF kind = "fmap" THEN MapNew(c, fd, cf) ELSE MapNew(t, The(t.descs, d).fd, cf)

\* rz_core_bin_apply_maps: the core file is looked up by the descriptor.
ApplyMaps(c, b) ==
    LET bin == c.binfiles[At(c.binfiles, b)]
        cf == FindByFd(c.files, bin.fd)
    IN  FoldLeft(LAMBDA t, kind : AddMap(t, cf, b, kind), c, bin.obj.maps)

\* rz_core_bin_apply_all_info.
ApplyAllInfo(c, b) ==
    IF c.binfiles[At(c.binfiles, b)].obj.info = "none" THEN c
    ELSE [ApplyMaps(c, b) EXCEPT !.cur = b]

\* "workaround to map correctly malloc:// and raw binaries".
MappedWhole(obj) == obj.maps = <<>> \/ obj.info # "va"

\* rz_core_bin_load of the current file, when its binary can be read.
BinLoad(c, obj) ==
    LET f == c.files[At(c.files, c.file)]
        b == NewBin(c)
        opened == [c EXCEPT !.binfiles = Append(@, [ptr |-> b, fd |-> f.fd, obj |-> obj]),
                            !.cur = b,
                            !.files[At(c.files, c.file)].binfiles = Append(@, b)]
        t == UseFd(ApplyAllInfo(opened, b), f.fd)
    IN  IF MappedWhole(obj) THEN MapNew(t, f.fd, None) ELSE t

\* The same when it cannot: the binary that was current stays so, and gets the
\* descriptor of this one.
BinLoadFails(c) ==
    LET fd == c.files[At(c.files, c.file)].fd
        k == At(c.binfiles, c.cur)
        t == UseFd(IF k = 0 THEN c ELSE [c EXCEPT !.binfiles[k].fd = fd], fd)
    IN  IF k = 0 \/ MappedWhole(c.binfiles[k].obj) THEN MapNew(t, fd, None) ELSE t

\* rz_core_bin_load of a file that holds the binary obj, or none that can be read.
TryLoad(c, obj) == IF obj = None THEN BinLoadFails(c) ELSE BinLoad(c, obj)

\* What rz_core_binfiles_delete and rz_core_bin_raise do with the binary they arrive at.
Raised(c, b) == ApplyAllInfo(UseFd(c, c.binfiles[At(c.binfiles, b)].fd), b)

\* rz_core_file_set_by_file: the first binary on its descriptor becomes current.
SetByFile(c, cf) ==
    LET fd == c.files[At(c.files, cf)].fd
        b == FindByFd(c.binfiles, fd)
    IN  UseFd([c EXCEPT !.file = cf, !.cur = IF b = None THEN @ ELSE b], fd)

\* core_file_new and the rest of rz_core_file_open, for the descriptor just opened.
FileNew(c) ==
    LET f == NewFile(c)
    IN  [c EXCEPT !.files = Append(@, [ptr |-> f, fd |-> The(c.descs, c.desc).fd,
                                       binfiles |-> <<>>, extra_files |-> <<>>, maps |-> <<>>]),
                  !.file = f]

FileOpen(c) == FileNew(OpenNomap(c, "file", None))

\* rz_core_file_open when a path holds several files: each is opened, its binary
\* loaded or not, and the first file of all becomes the current one, unless its
\* descriptor is gone.
FileOpenMany(c, obj1, obj2) ==
    LET t == TryLoad(FileOpen(TryLoad(FileOpen(c), obj1)), obj2)
        first == t.files[1]
    IN  IF DescGet(t, first.fd) = None THEN t
        ELSE UseFd([t EXCEPT !.file = first.ptr], first.fd)
-----------------------------------------------------------------------------
(* Commands.  Fits bounds what a command may create.                       *)

Strays(c) == {d \in c.descs : d.kind = "file" /\ FindByFd(c.files, d.fd) = None}

Fits(c) ==
    /\ Cardinality(c.descs) <= usage.descs
    /\ Cardinality(Strays(c)) <= usage.strays
    /\ Len(c.files) <= usage.files
    /\ Len(c.binfiles) <= usage.bins
    /\ Cardinality(c.maps) <= usage.maps

Creates(c) == closing = None /\ Fits(c) /\ core' = c /\ UNCHANGED closing

Loadable == core.file # None /\ DescGet(core, core.files[At(core.files, core.file)].fd) # None

Open == Creates(FileOpen(core))

\* rz_core_file_open breaks off when the user interrupts the opening.
OpenInterrupted == Creates(OpenNomap(core, "file", None))

OpenMany(obj1, obj2) == Creates(FileOpenMany(core, obj1, obj2))

\* open_nobin_file.
OpenNobin == Creates(MapNew(OpenNomap(core, "file", None), NextId(core), None))

Load(obj) == Loadable /\ Creates(TryLoad(core, obj))

\* rz_core_bin_raise.
Raise(b) == Creates(Raised([core EXCEPT !.cur = b], b))

\* rz_open_use_handler: the first binary on the descriptor of the file is raised.
UseFile(cf) ==
    LET fd == core.files[At(core.files, cf)].fd
        b == FindByFd(core.binfiles, fd)
        c == UseFd([core EXCEPT !.file = cf], fd)
    IN  Creates(IF b = None THEN c ELSE Raised([c EXCEPT !.cur = b], b))

\* rz_io_map_del.
DeleteMap(m) ==
    /\ closing = None
    /\ core' = MapDel(core, m)
    /\ UNCHANGED closing

\* rz_core_binfiles_delete: the binary at the current address, if there is one,
\* takes over.
DeleteBin(b, at) ==
    LET c == BinDelete(core, b)
    IN  /\ at # b
        /\ Creates(IF at = None THEN c ELSE Raised(c, at))

DeleteAllBins ==
    /\ closing = None /\ core.binfiles # <<>>
    /\ core' = BinDeleteAll(core)
    /\ UNCHANGED closing

\* rz_io_reopen: the new descriptor takes the fd of the old one.
Reopen(d, ok) ==
    LET old == The(core.descs, d)
        opened == OpenNomap(core, old.kind, old.bf)
    IN  /\ Creates(DescClose(Exchange(opened, old.fd, NextId(core)), d, ok))
        /\ Fits(opened)

\* rz_core_file_close_fd of a descriptor that is no core file's.
CloseDesc(d, ok) ==
    /\ closing = None
    /\ FindByFd(core.files, The(core.descs, d).fd) = None
    /\ core' = DescClose(core, d, ok)
    /\ UNCHANGED closing

\* The start of rz_core_file_close.
FileCloseBegin(c, cf, ok) ==
    LET d == DescGet(c, c.files[At(c.files, cf)].fd)
    IN  IF d = None THEN c ELSE DescClose(c, d, ok)

Begun(cf, then) == [file |-> cf, then |-> then, new |-> None, obj |-> None, at |-> 0]

CloseFile(cf, ok) ==
    /\ closing = None
    /\ core' = FileCloseBegin(core, cf, ok)
    /\ closing' = Begun(cf, "nothing")

\* rz_open_close_all_handler, with files to close first,
CloseAll(ok) ==
    /\ closing = None /\ core.files # <<>>
    /\ core' = FileCloseBegin(core, core.files[1].ptr, ok)
    /\ closing' = Begun(core.files[1].ptr, "all")

\* or with none.
CloseRest ==
    /\ closing = None /\ core.files = <<>>
    /\ core' = BinDeleteAll(IoCloseAll(core))
    /\ UNCHANGED closing

\* rz_core_file_reopen: the file is opened again, its binary deleted and the old
\* core file closed.  Then a binary is loaded (loadbin is 2, or 1 and there was
\* one), the current one forgotten (loadbin is 0) or kept.
ReopenFile(then, obj, ok) ==
    /\ closing = None /\ Loadable
    /\ LET f == core.files[At(core.files, core.file)]
           b == FindByFd(core.binfiles, f.fd)
           opened == FileOpen(core)
           deleted == IF b = None THEN opened ELSE BinDelete(opened, b)
       IN  /\ then = "keep" => b = None
           /\ Fits(opened)
           /\ then = "load" => Fits(TryLoad(deleted, obj))
           /\ core' = FileCloseBegin(deleted, f.ptr, ok)
           /\ closing' = [Begun(f.ptr, then) EXCEPT !.new = opened.file, !.obj = obj]

\* Or the file cannot be opened again, or the user interrupts.
ReopenFileFails ==
    /\ closing = None /\ Loadable
    /\ \E c \in {core, OpenNomap(core, "file", None)} :
         Fits(c) /\ core' = SetByFile(c, core.file)
    /\ closing' = Begun(None, "sweep")
-----------------------------------------------------------------------------
(* The loops of rz_core_file_close.  A pointer to nothing stays where it   *)
(* is: rz_io_map_del and rz_bin_file_delete refuse it.                     *)

ClosingFile == core.files[At(core.files, closing.file)]
InFile == closing # None /\ closing.file # None

CloseMap ==
    /\ InFile /\ ClosingFile.maps # <<>>
    /\ LET m == Last(ClosingFile.maps)
       IN  core' = IF m \in Ptrs(core.maps) THEN MapDel(core, m) ELSE core
    /\ UNCHANGED closing

CloseExtra ==
    /\ InFile /\ ClosingFile.maps = <<>> /\ ClosingFile.extra_files # <<>>
    /\ LET d == Last(ClosingFile.extra_files)
       IN  core' = IF d \in Ptrs(core.descs) THEN DescClose(core, d, TRUE) ELSE core
    /\ UNCHANGED closing

CloseBin ==
    /\ InFile /\ ClosingFile.maps = <<>> /\ ClosingFile.extra_files = <<>>
    /\ ClosingFile.binfiles # <<>>
    /\ LET b == Last(ClosingFile.binfiles)
       IN  core' = IF b \in Ptrs(ToSet(core.binfiles)) THEN BinDelete(core, b) ELSE core
    /\ UNCHANGED closing

Emptied == /\ InFile
           /\ ClosingFile.maps = <<>> /\ ClosingFile.extra_files = <<>>
           /\ ClosingFile.binfiles = <<>>

\* The end of rz_core_file_close.
FileCloseEnd(c, cf) ==
    [c EXCEPT !.files = Without(@, cf), !.file = IF @ = cf THEN None ELSE @]

\* The caller that closed one file, or the last of all of them.
CloseEnd ==
    /\ Emptied /\ closing.then \in {"nothing", "all"}
    /\ LET c == FileCloseEnd(core, closing.file)
       IN  /\ closing.then = "all" => c.files = <<>>
           /\ core' = IF closing.then = "all" THEN BinDeleteAll(IoCloseAll(c)) ELSE c
    /\ closing' = None

\* rz_core_file_close_fd with -1 goes on to the next file.
CloseNext(ok) ==
    /\ Emptied /\ closing.then = "all" /\ Len(core.files) > 1
    /\ LET c == FileCloseEnd(core, closing.file)
       IN  /\ core' = FileCloseBegin(c, c.files[1].ptr, ok)
           /\ closing' = [closing EXCEPT !.file = c.files[1].ptr]

\* rz_core_file_reopen goes on with the new file,
SetNew == SetByFile(FileCloseEnd(core, closing.file), closing.new)

CloseThenLoad ==
    /\ Emptied /\ closing.then = "load"
    /\ core' = TryLoad(SetNew, closing.obj)
    /\ closing' = Begun(None, "sweep")

CloseThenKeep ==
    /\ Emptied /\ closing.then = "keep"
    /\ core' = SetNew
    /\ closing' = Begun(None, "sweep")

\* "force here NULL because is causing uaf", if the new file has its descriptor.
CloseThenForget ==
    /\ Emptied /\ closing.then = "forget"
    /\ LET fd == SetNew.files[At(SetNew.files, closing.new)].fd
       IN  core' = IF DescGet(SetNew, fd) = None THEN SetNew
                   ELSE [SetNew EXCEPT !.cur = None]
    /\ closing' = Begun(None, "sweep")

\* and calls rz_core_file_close_all_but, twice: it closes the descriptors other than
\* that of the current file, in the order of their ids, and the core files they have.
Others ==
    {d \in core.descs : /\ closing.at <= d.fd /\ core.file # None
                        /\ d.fd # core.files[At(core.files, core.file)].fd}

Turn(d) ==
    /\ closing # None /\ closing.file = None
    /\ d \in Others /\ \A e \in Others : d.fd <= e.fd

Swept == IF closing.then = "sweep" THEN Begun(None, "resweep") ELSE None

SweepFile(d, ok) ==
    LET cf == FindByFd(core.files, d.fd)
    IN  /\ Turn(d) /\ cf # None
        /\ core' = FileCloseBegin(core, cf, ok)
        /\ closing' = [closing EXCEPT !.file = cf, !.at = d.fd + 1]

\* A descriptor that a plugin does not close ends it.
SweepDesc(d, ok) ==
    LET c == DescClose(core, d.ptr, ok)
    IN  /\ Turn(d) /\ FindByFd(core.files, d.fd) = None
        /\ core' = c
        /\ closing' = IF DescGet(c, d.fd) = None THEN [closing EXCEPT !.at = d.fd + 1] ELSE Swept

CloseThenSweep ==
    /\ Emptied /\ closing.then \in {"sweep", "resweep"}
    /\ core' = FileCloseEnd(core, closing.file)
    /\ closing' = [closing EXCEPT !.file = None]

SweepEnd ==
    /\ closing # None /\ closing.file = None /\ Others = {}
    /\ closing' = Swept
    /\ UNCHANGED core

Closing == CloseMap \/ CloseExtra \/ CloseBin \/ CloseEnd
           \/ CloseThenLoad \/ CloseThenKeep \/ CloseThenForget \/ CloseThenSweep \/ SweepEnd
           \/ \E ok \in Closes : CloseNext(ok)
                                 \/ \E d \in core.descs : SweepFile(d, ok) \/ SweepDesc(d, ok)

\* A file with a binary, or with none that can be read.
Loads == Objects \cup {None}

Step ==
    \/ Open \/ OpenInterrupted \/ OpenNobin \/ DeleteAllBins \/ CloseRest \/ ReopenFileFails
    \/ \E obj \in Loads : Load(obj) \/ \E obj2 \in Loads : OpenMany(obj, obj2)
    \/ \E m \in Ptrs(core.maps) : DeleteMap(m)
    \/ \E b \in Ptrs(ToSet(core.binfiles)) :
         Raise(b) \/ \E at \in Ptrs(ToSet(core.binfiles)) \cup {None} : DeleteBin(b, at)
    \/ \E cf \in Ptrs(ToSet(core.files)) : UseFile(cf)
    \/ \E ok \in Closes :
         \/ CloseAll(ok)
         \/ \E d \in Ptrs(core.descs) : Reopen(d, ok) \/ CloseDesc(d, ok)
         \/ \E cf \in Ptrs(ToSet(core.files)) : CloseFile(cf, ok)
         \/ \E then \in {"keep", "forget"} : ReopenFile(then, None, ok)
         \/ \E obj \in Loads : ReopenFile("load", obj, ok)
    \/ Closing

Next == Step /\ UNCHANGED usage

Spec == Init /\ [][Next]_<<vars, usage>> /\ WF_vars(Closing)
-----------------------------------------------------------------------------
(* Properties.                                                             *)

NoneOr(S) == S \cup {None}

\* Everything is as declared, ids of descriptors are unique, and so are the
\* entries of each vector of a core file.
TypeOK ==
    /\ \A S \in {core.descs, core.maps} : \A x, y \in S : x.ptr = y.ptr => x = y
    /\ \A d, e \in core.descs : d.fd = e.fd => d = e
    /\ \A list \in {core.binfiles, core.files} : Cardinality(Ptrs(ToSet(list))) = Len(list)
    /\ \A f \in ToSet(core.files) :
         \A vec \in {f.maps, f.extra_files, f.binfiles} : IsInjective(vec)
    /\ closing # None => closing.file \in NoneOr(Ptrs(ToSet(core.files)))

\* Whatever was deleted, and in whatever order, no core file keeps a pointer to a
\* map, a descriptor or a binary that is gone, and neither does what is current
\* (rz_core_file_io_desc_closed: "remove all references to the closed desc").
NoDangling ==
    /\ core.file \in NoneOr(Ptrs(ToSet(core.files)))
    /\ core.desc \in NoneOr(Ptrs(core.descs))
    /\ core.cur \in NoneOr(Ptrs(ToSet(core.binfiles)))
    /\ \A f \in ToSet(core.files) :
         /\ ToSet(f.maps) \subseteq Ptrs(core.maps)
         /\ ToSet(f.extra_files) \subseteq Ptrs(core.descs)
         /\ ToSet(f.binfiles) \subseteq Ptrs(ToSet(core.binfiles))

\* A map made for a core file is known to it, so that closing the file deletes the
\* map before the RzCoreIOMapInfo of the map points to freed memory; and no map
\* outlives its descriptor.
MapsHaveOwner ==
    \A m \in core.maps :
      /\ DescGet(core, m.fd) # None
      /\ m.cf # None => \E f \in ToSet(core.files) : f.ptr = m.cf /\ m.ptr \in ToSet(f.maps)

\* No descriptor of a virtual file outlives the binary its data lives in
\* (rz_core_vfile_bin_file_deleted: "strictly necessary because VFileCtx holds
\* pointers into it").
VfilesHaveBinary == \A d \in core.descs : d.bf \in NoneOr(Ptrs(ToSet(core.binfiles)))

\* Core files, maps, descriptors and binaries, deleted in whatever order, refer to
\* nothing that is gone.
FilesOwned == TypeOK /\ NoDangling /\ MapsHaveOwner /\ VfilesHaveBinary

\* rz_core_file_close returns: its loops end because each deletion comes back as an
\* event that shortens the vector.
CloseReturns == closing # None ~> closing = None
=============================================================================
