------------------------------- MODULE Files -------------------------------
(***************************************************************************)
(* Programs that use files: the system calls on files and directories      *)
(* (io.cpp), the open files behind their handles (filesystems.cpp,         *)
(* FileHandle.cpp) and the file system Fat12.  A call is one action: the   *)
(* calls of this model come one after the other.                           *)
(*                                                                         *)
(* Some calls make the kernel use memory or a cluster that is not the      *)
(* file's; what it does then is not modelled and the system stops, with    *)
(* the reason in fault.  It also stops behind a call that makes an item    *)
(* which the kernel takes for something else: an item inside a file, or    *)
(* one that begins at the cluster with the number of the root directory.   *)
(* The disk is then what that call left, and nothing is claimed of it.     *)
(***************************************************************************)
EXTENDS Fat12

CONSTANTS Handles,   \* handles a program may use
          Paths,     \* paths of files and directories, << >> is the root
          Folders,   \* the paths that are created as directories
          RootSector,\* 19: an item that begins at this cluster is taken for
                     \* the root directory
          Sizes,     \* numbers of slots written or read by one call
          Offsets,   \* arguments of Seek
          Boots,     \* the disks at boot, with empty files
          MaxCalls   \* bound on the number of calls

(* A buffer leaves room in memory for a disk.  A disk is formatted before  *)
(* the kernel mounts it.                                                   *)
ASSUME FilesAssumption ==
    /\ Paths \subseteq Seq(Seq(Characters)) /\ <<>> \in Paths /\ Folders \subseteq Paths
    /\ \A n \in Sizes : n \in Nat /\ n + (N * K) <= W
    /\ Offsets \subseteq 0 .. W - 1 /\ MaxCalls \in Nat
    /\ \A d \in Boots : /\ d \in Disks /\ d.fat = convert_fat_to_dec(d.bytes, N)
                         /\ d.copies = <<d.bytes, d.bytes>>
                         /\ d.fat[0] # 0 /\ d.fat[1] # 0

VARIABLES disk,
          file,      \* handle -> File, or Closed
          fault,     \* << >>, or why the kernel left its file system
          image,     \* history: path -> what was written to the file
          tainted,   \* history: files with a write that took two new clusters or more
          target,    \* history: the path of the last call
          calls      \* history: number of calls
vars == <<disk, file, fault, image, tainted, target, calls>>

Closed == [path |-> <<<<>>>>]
Attrs  == {{}, {"Read_Only"}}

(* The paths that lead through directories only.  The others lead into a   *)
(* file; nothing is found there: see Datum.                                *)
Named  == {p \in Paths \ {<<>>} : \A n \in 1 .. Len(p) - 1 : SubSeq(p, 1, n) \in Folders}

(* Arithmetic of size_t *)
Wrap(n) == n % W

FreshDisk ==
    LET blank == [fat    |-> [i \in 0 .. N - 1 |-> 0],
                  bytes  |-> [i \in 0 .. ((3 * N) \div 2) - 1 |-> 0],
                  copies |-> <<>>,
                  data   |-> [c \in Clusters |-> Blank],
                  root   |-> <<Slot(<<"label">>, <<>>, {"Volume_ID"}, 0, 0)>>
                                \o Zeros(R - 1)]
    IN  save_fat(SetEntry(SetEntry(blank, 0, 4080), 1, EndMark))

Init == /\ disk \in Boots
        /\ file = [h \in Handles |-> Closed]
        /\ fault = <<>>
        /\ image = [p \in Named |-> <<>>]
        /\ tainted = {}
        /\ target = <<>>
        /\ calls = 0

-----------------------------------------------------------------------------
Call(path) == /\ fault = <<>>
              /\ calls < MaxCalls
              /\ calls' = calls + 1
              /\ target' = path

(* The kernel goes astray. *)
Fails(why) == /\ fault' = why
              /\ UNCHANGED <<disk, file, image, tainted>>

IsFolder(attr) == attr \in {{"Volume_ID"}, {"Directory"}}

NewFile(path, item, d) ==
    [path |-> path, first |-> item.first, attr |-> item.attr, pos |-> 0,
     size |-> IF IsFolder(item.attr) THEN Len(dirread(d, path)) ELSE item.size,
     stale |-> FALSE, touched |-> FALSE]

(* Open_File of something that exists.  Every failure of FAT::open         *)
(* reaches the program as File_Not_Found and changes nothing.              *)
OpenExisting(h, path, attr) ==
    LET item == retrieve_item(disk, DropDot(path)) IN
    /\ file[h] = Closed
    /\ item # NoItem
    /\ "Directory" \in item.attr => "Directory" \in attr
    /\ Call(path)
    /\ file' = [file EXCEPT ![h] = NewFile(path, item, disk)]
    /\ UNCHANGED <<disk, fault, image, tainted>>

ValidName(path, attr) == IF IsFolder(attr) THEN folder_name_val(Last(path))
                                           ELSE file_name_val(Last(path))

(* Nothing tells a file from a directory when an item is made in it, and   *)
(* nothing keeps an item from beginning at the cluster RootSector.         *)
Misplaced(path) == path \notin Named \/ retrieve_free_index(disk) = RootSector
Astray == fault = <<"misplaced">>

(* Open_File without fmOpen_Always of something that does not exist.  A    *)
(* parent that is not there is followed to cluster -1.                     *)
OpenCreate(h, path, attr) ==
    LET r == IF IsFolder(attr) THEN create_folder(disk, path, attr)
                               ELSE create_file(disk, path, attr)
    IN
    /\ file[h] = Closed
    /\ path # <<>>
    /\ retrieve_item(disk, DropDot(path)) = NoItem
    /\ ValidName(path, attr)
    /\ Call(path)
    /\ IF Upper(disk, path).chain = <<>> THEN Fails(<<"parent">>)
       ELSE IF r.ok /\ Misplaced(path)
       THEN /\ disk' = r.disk /\ fault' = <<"misplaced">>
            /\ UNCHANGED <<file, image, tainted>>
       ELSE /\ disk' = r.disk
            /\ file' = IF r.ok
                       THEN [file EXCEPT ![h] = NewFile(path,
                               [retrieve_item(r.disk, DropDot(path)) EXCEPT
                                   !.attr = attr, !.size = 0], r.disk)]
                       ELSE file
            /\ UNCHANGED <<fault, image, tainted>>

Overlay(old, pos, new) ==
    [i \in 1 .. IF pos + Len(new) > Len(old) THEN pos + Len(new) ELSE Len(old) |->
        IF i \in pos + 1 .. pos + Len(new) THEN new[i - pos]
        ELSE IF i <= Len(old) THEN old[i] ELSE Zero]

(* FileHandle::write: the size is added to once more. *)
Write(h, n, v) ==
    LET f   == file[h]
        buf == [i \in 1 .. n |-> Datum(v)]
        r   == FatWrite(disk, f, f.pos, buf)
        new == ClusterCount(f.pos + n) - Len(retrieve_sectors_fs(disk.fat, f.first))
    IN
    /\ f # Closed
    /\ f.attr \cap {"Read_Only", "Directory"} = {}
    /\ Call(f.path)
    /\ IF "Volume_ID" \in f.attr THEN Fails(<<"root">>)
       ELSE IF f.stale THEN Fails(<<"stale">>)
       ELSE IF r.error = "wild" THEN Fails(<<"wild", h>>)
       ELSE /\ disk' = r.disk
            /\ file' = [file EXCEPT ![h] =
                  [f EXCEPT !.pos = Wrap(@ + r.written),
                            !.size = Wrap(r.size + r.written), !.touched = TRUE]]
            /\ image' = IF r.disk = disk THEN image
                        ELSE [image EXCEPT ![f.path] =
                                Overlay(@, f.pos, SubSeq(buf, 1, r.size - f.pos))]
            /\ tainted' = IF new >= 2 THEN tainted \union {f.path} ELSE tainted
            /\ UNCHANGED fault

(* FileHandle::read *)
Read(h, n) ==
    LET f    == file[h]
        rest == Wrap(f.size - f.pos)
        size == IF n < rest THEN n ELSE rest
        r    == IF f.attr \cap {"Volume_ID", "Directory"} # {}
                THEN FatReadDir(disk, f, size, f.pos) ELSE FatRead(disk, f, size, f.pos)
    IN
    /\ f # Closed
    /\ size > 0
    /\ Call(f.path)
    /\ IF f.stale THEN Fails(<<"stale">>)
       ELSE IF r.error = "wild" THEN Fails(<<"wild", h>>)
       ELSE /\ file' = [file EXCEPT ![h].pos = Wrap(@ + Len(r.out))]
            /\ UNCHANGED <<disk, fault, image, tainted>>

(* FileHandle::seek; Get_Position changes nothing. *)
Seek(h, op, n) ==
    LET f == file[h] IN
    /\ f # Closed
    /\ Call(f.path)
    /\ \/ /\ op = "Set_Size"
          /\ "Read_Only" \notin f.attr
          /\ file' = [file EXCEPT ![h] = [f EXCEPT !.size = n, !.pos = n, !.touched = TRUE]]
       \/ /\ op = "Beginning"
          /\ file' = [file EXCEPT ![h].pos = n]
       \/ /\ op = "Current"
          /\ file' = [file EXCEPT ![h].pos =
                IF Wrap(f.pos + n) > f.size THEN Wrap(f.pos + n) ELSE f.size]
       \/ /\ op = "End"
          /\ file' = [file EXCEPT ![h].pos = Wrap(f.size - n)]
    /\ UNCHANGED <<disk, fault, image, tainted>>

CloseFile(h) ==
    /\ file[h] # Closed
    /\ Call(file[h].path)
    /\ file' = [file EXCEPT ![h] = Closed]
    /\ UNCHANGED <<disk, fault, image, tainted>>

(* Delete_File.  Open files keep the cluster number. *)
DeleteFsFile(path) ==
    LET r == rmdir(disk, path) IN
    /\ path # <<>>
    /\ file_exist(disk, path)
    /\ r.error = "Success"
    /\ Call(path)
    /\ disk' = r.disk
    /\ file' = [h \in Handles |-> IF file[h] # Closed /\ file[h].path = path
                                  THEN [file[h] EXCEPT !.stale = TRUE] ELSE file[h]]
    /\ image' = [image EXCEPT ![path] = <<>>]
    /\ tainted' = tainted \ {path}
    /\ UNCHANGED fault

(* Set_File_Attribute.  A program keeps the Directory flag as it is. *)
SetFileAttribute(path, attr) ==
    /\ path # <<>>
    /\ Call(path)
    /\ IF Upper(disk, path).chain = <<>> THEN Fails(<<"parent">>)
       ELSE /\ file_exist(disk, path) =>
                  ("Directory" \in attr <=> "Directory" \in retrieve_item(disk, path).attr)
            /\ disk' = set_file_attribute(disk, path, attr).disk
            /\ UNCHANGED <<file, fault, image, tainted>>

(* Shutdown and the next boot: FAT::FAT reads the first table again. *)
Reboot ==
    /\ Call(<<>>)
    /\ disk' = Mount(disk)
    /\ file' = [h \in Handles |-> Closed]
    /\ UNCHANGED <<fault, image, tainted>>

Next ==
    \/ \E h \in Handles, p \in Named \union {<<>>}, a \in Attrs \union {{"Directory"}} :
          OpenExisting(h, p, a)
    \/ \E h \in Handles, p \in Paths \ Folders, a \in Attrs : OpenCreate(h, p, a)
    \/ \E h \in Handles, p \in Folders : OpenCreate(h, p, {"Directory"})
    \/ \E h \in Handles, n \in Sizes, v \in Values : Write(h, n, v)
    \/ \E h \in Handles, n \in Sizes : Read(h, n)
    \/ \E h \in Handles, op \in {"Set_Size", "Beginning", "Current", "End"},
          n \in Offsets : Seek(h, op, n)
    \/ \E h \in Handles : CloseFile(h)
    \/ \E p \in Named : DeleteFsFile(p)
    \/ \E p \in Named, a \in Attrs \union {{"Directory"}} : SetFileAttribute(p, a)
    \/ Reboot

Spec == Init /\ [][Next]_vars

-----------------------------------------------------------------------------
ItemAt(d, p) == retrieve_item(d, p)
Items(d)     == {p \in Named : file_exist(d, p)}
Chain(d, p)  == retrieve_sectors_fs(d.fat, ItemAt(d, p).first)
Taken(d)     == {c \in Clusters : d.fat[c] # 0}
Lost(d)      == Taken(d) \ UNION {ToSet(Chain(d, p)) : p \in Items(d)}

TypeOK ==
    /\ disk \in Disks
    /\ tainted \subseteq Named
    /\ \A h \in Handles : file[h] # Closed => file[h].pos \in 0 .. W - 1

(* The allocation table exists four times: as integers, as the bytes that  *)
(* are packed with them, and in two places of the disk.  All are the same  *)
(* after every call, so that a restart finds what the calls left.          *)
TablesAgree ==
    /\ TypeOK
    /\ disk.fat = convert_fat_to_dec(disk.bytes, N)
    /\ disk.copies = <<disk.bytes, disk.bytes>>

(* No entry is behind an empty slot. *)
Packed(slots) == \E n \in 0 .. Len(slots) : \A i \in 1 .. Len(slots) : slots[i] = Zero <=> i > n
SlotsOf(d, first) == IF first = Root THEN d.root
                     ELSE Content(d, retrieve_sectors_fs(d.fat, first))
Directories(d)    == {p \in Folders \union {<<>>} : p \in Items(d) \union {<<>>}}

SoundTree(d) ==
    /\ \A p \in Items(d) : Chain(d, p) # <<>>
    /\ \A p, q \in Items(d) : p # q => ToSet(Chain(d, p)) \cap ToSet(Chain(d, q)) = {}
    /\ \A p \in Items(d) \cap Folders :
          LET head == d.data[ItemAt(d, p).first] IN
          /\ head[1].name = <<Dot>> /\ head[1].first = ItemAt(d, p).first
          /\ head[2].name = <<Dot, Dot>>
          /\ head[2].first = IF Len(p) = 1 THEN 0 ELSE ItemAt(d, Front(p)).first
    /\ \A p \in Directories(d) :
          /\ Packed(SlotsOf(d, ItemAt(d, p).first))
          /\ \A i, j \in DOMAIN dirread(d, p) :
                NameOf(dirread(d, p)[i]) = NameOf(dirread(d, p)[j]) => i = j
    /\ \A c \in Clusters \ Taken(d) : d.data[c] = Blank
    /\ \A p \in Items(d) : get_file_attribute(d, p) = ItemAt(d, p).attr

(* Directories have the attribute of one, files do not, no file is called  *)
(* ".", and nothing begins at RootSector.                                  *)
Kinds(d) ==
    /\ d.root[1] # Zero
    /\ \A p \in Items(d) :
          /\ Last(p) # <<Dot>> /\ ItemAt(d, p).first # RootSector
          /\ IF p \in Folders THEN ItemAt(d, p).attr = {"Directory"}
             ELSE ItemAt(d, p).attr \cap {"Volume_ID", "Directory"} = {}

(* The directories of a disk at boot are sound; its files are empty.       *)
ASSUME BootAssumption ==
    \A d \in Boots :
       /\ SoundTree(d) /\ Kinds(d)
       /\ \A p \in Items(d) \ Folders :
             ItemAt(d, p).size = 0 /\ ToSet(Content(d, Chain(d, p))) = {Zero}

(* No cluster belongs to two files or directories, every chain ends, and   *)
(* every directory knows itself, its parent and each name once and has no  *)
(* gap between its entries.  A free cluster holds zeros: a directory that  *)
(* grows into it ends at its first empty slot, and a file does not begin   *)
(* with old data.  The attribute that a program is told is that of the     *)
(* item, although the search of get_file_attribute cannot tell the first   *)
(* entry from none.  No item is misplaced, either, unless the kernel went  *)
(* astray: an item made inside a file takes over slots of that file, and a *)
(* directory that begins at the number of the root is listed as the root.  *)
TreeSound == Astray \/ (SoundTree(disk) /\ Kinds(disk))

(* Whoever opens a file and reads as much as its entry promises gets what  *)
(* was written, in spite of writes by other handles, positions inside      *)
(* clusters, restarts and a full disk, unless one write took two new       *)
(* clusters, or an item was misplaced.                                     *)
ReadBack == Astray \/
    \A p \in Items(disk) \ Folders : p \notin tainted =>
        FatRead(disk, [first |-> ItemAt(disk, p).first, size |-> ItemAt(disk, p).size, path |-> p],
                ItemAt(disk, p).size, 0)
          = [error |-> "Success", out |-> SubSeq(image[p], 1, ItemAt(disk, p).size)]

(* A cluster gets lost (taken, and in no chain of a path through           *)
(* directories) only when one write takes two new clusters or more,        *)
(* because FAT::write hangs all of them behind the same last cluster, or   *)
(* when an item is made inside a file.                                     *)
LostOnlyByLongWrite ==
    [][\/ Lost(disk') \subseteq Lost(disk)
       \/ target' \in tainted'
       \/ Astray' /\ target' \notin Named]_vars

(* What a path leads to: the entry, and the clusters of a file with what   *)
(* is in them.                                                             *)
View(d, p) ==
    LET item  == ItemAt(d, p)
        chain == retrieve_sectors_fs(d.fat, item.first)
    IN  IF item = NoItem THEN <<>>
        ELSE IF p \in Folders THEN <<item>>
        ELSE <<item, chain, [i \in DOMAIN chain |-> d.data[chain[i]]]>>

(* A call leaves the entry and the content of every other path alone,      *)
(* unless it makes an item inside a file.                                  *)
OthersUntouched ==
    [][\/ Astray' /\ target' \notin Named
       \/ \A p \in Named \ {target'} : View(disk', p) = View(disk, p)]_vars

(* The kernel reads beyond the clusters of a file only for a handle whose  *)
(* size is no longer that of the file (it wrote or set the size), if a     *)
(* long write left the file shorter than its entry says, or at a position  *)
(* so high that the sum of position and size wraps; beyond a directory,    *)
(* only behind a position outside of it or if the directory became shorter. *)
WildHasCause ==
    \A h \in Handles : fault = <<"wild", h>> =>
        \/ file[h].touched
        \/ file[h].path \in tainted
        \/ \E n \in Sizes : file[h].pos + n >= W
        \/ /\ IsFolder(file[h].attr)
           /\ \/ file[h].pos > file[h].size
              \/ file[h].size > Len(dirread(disk, file[h].path))
=============================================================================
