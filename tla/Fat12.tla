------------------------------- MODULE Fat12 -------------------------------
(***************************************************************************)
(* The FAT12 file system (fat12fs.cpp, fsutils.cpp) as operators on a      *)
(* disk.  An operator that changes the disk returns what the function      *)
(* leaves behind, with every table and sector it saves.                    *)
(*                                                                         *)
(* A disk is a record: fat (int_fat_table), bytes (fat_table), copies (the *)
(* two tables in the sectors 1 and 10), data (the clusters) and root (the  *)
(* sectors 19 to 32).  The unit of content is a slot of 32 bytes, the size *)
(* of a directory entry; sizes and positions of files count slots.         *)
(***************************************************************************)
EXTENDS Fat12Codec, FiniteSets, SequencesExt

CONSTANTS N,      \* entries of the table that are searched, 2848 in the code
          K,      \* slots of a cluster, 16 in the code
          R,      \* slots of the root directory, 224 in the code
          W,      \* sizes and positions are counted modulo W, 2^64 in the code
          Root,   \* stands for the root directory; the code has 19 for it,
                  \* which is the number of a cluster too: see RootSector
          Characters, \* of names
          Values  \* what a slot of a file holds

ASSUME DiskAssumption ==
    /\ N \in Nat /\ N % 2 = 0 /\ N > 2 /\ N < 4080
    /\ K \in Nat /\ K > 1 /\ R \in Nat \ {0}
    /\ W \in Nat /\ W > 2 * N * K /\ W > R
    /\ Root \notin -1 .. N - 1 /\ Root \notin Values /\ Dot \in Characters

Clusters == 2 .. N - 1
EndMark  == 4095

(* A slot: a directory entry, data of a file, or nothing.  get_dir_items   *)
(* takes data for an entry as well; its name matches no name that is       *)
(* looked for.                                                             *)
Slot(name, ext, attr, first, size) ==
    [name |-> name, ext |-> ext, attr |-> attr, first |-> first, size |-> size]
Zero     == Slot(<<>>, <<>>, {}, 0, 0)
Datum(v) == Slot(<<"data">>, <<>>, {}, v, 0)
Zeros(n) == <<>> \o [i \in 1 .. n |-> Zero]
Blank    == Zeros(K)

Flags == {"Volume_ID", "Directory", "Hidden", "Read_Only"}
Slots == [name : Seq(Characters) \cup {<<"data">>, <<"label">>}, ext : Seq(Characters),
          attr : SUBSET Flags, first : (0 .. N - 1) \cup Values, size : 0 .. W - 1]
Tables == [0 .. ((3 * N) \div 2) - 1 -> Byte]
Disks  == [fat : [0 .. N - 1 -> Entry], bytes : Tables, copies : Tables \X Tables,
           data : [Clusters -> [1 .. K -> Slots]], root : [1 .. R -> Slots]]

NameOf(s) == JoinedName(s.name, s.ext)
NoItem    == Slot(<<>>, <<>>, {}, -1, -1)     \* item not found

-----------------------------------------------------------------------------
(* The table *)

(* The bytes and the integers change together at every place of the code.  *)
SetEntry(d, i, num) ==
    LET two == num_to_bytes_fs(i, d.bytes, num) IN
    [d EXCEPT !.fat[i] = num,
              !.bytes[FirstByte(i)] = two[1], !.bytes[FirstByte(i) + 1] = two[2]]

save_fat(d) == [d EXCEPT !.copies = <<d.bytes, d.bytes>>]

(* FAT::FAT, load_first_table *)
Mount(d) == [d EXCEPT !.bytes = d.copies[1],
                      !.fat = convert_fat_to_dec(d.copies[1], N)]

(* The clusters from start to the end mark.  << >> stands for a walk that  *)
(* leaves the table, where the code reads out of bounds.                   *)
Follow(fat, p) ==
    IF p = <<>> \/ Last(p) \notin Clusters THEN <<>>
    ELSE IF fat[Last(p)] \in 4088 .. 4095 THEN p
    ELSE Append(p, fat[Last(p)])
EndedWalk(p) == IF Len(p) \in 1 .. N - 2 /\ Last(p) \in Clusters THEN p ELSE <<>>

retrieve_sectors_fs(fat, start) ==
    LET walk[n \in 0 .. N] == IF n = 0 THEN <<start>> ELSE Follow(fat, walk[n - 1])
    IN  EndedWalk(walk[N])

retrieve_free_index(d) ==
    LET free == {i \in 0 .. N - 1 : d.fat[i] = 0} IN
    IF free = {} THEN -1 ELSE CHOOSE i \in free : \A j \in free : i <= j

(* aloc_cluster: a free cluster behind the chain of start.  -1: disk full. *)
AlocBehind(d, new, back) ==
    IF new = -1 THEN [disk |-> d, new |-> -1]
    ELSE [disk |-> save_fat(SetEntry(SetEntry(d, new, EndMark), back, new)), new |-> new]
aloc_cluster(d, start) ==
    AlocBehind(d, retrieve_free_index(d), Last(retrieve_sectors_fs(d.fat, start)))

(* write_to_fs keeps the tail of the last sector. *)
write_to_fs(d, c, slots) ==
    [d EXCEPT !.data[c] = slots \o SubSeq(@, Len(slots) + 1, K)]

-----------------------------------------------------------------------------
(* Directories *)

get_dir_items(slots) ==
    LET z == SelectInSeq(slots, LAMBDA s : s = Zero) IN
    IF z = 0 THEN slots ELSE SubSeq(slots, 1, z - 1)

From(s, i) == SubSeq(s, i, Len(s))

(* Each cluster of a directory ends at its own first empty slot. *)
ItemsIn(d, chain) ==
    LET items[i \in 0 .. Len(chain)] ==
          IF i = 0 THEN <<>>
          ELSE items[i - 1] \o From(get_dir_items(d.data[chain[i]]), IF i = 1 THEN 3 ELSE 1)
    IN  items[Len(chain)]
retrieve_folders_from_folder(d, c) ==
    IF c = Root THEN From(get_dir_items(d.root), 2)
    ELSE ItemsIn(d, retrieve_sectors_fs(d.fat, c))

IndexOf(items, name) == SelectInSeq(items, LAMBDA s : NameOf(s) = name)

Found(items, name) ==
    LET j == IndexOf(items, name) IN IF j = 0 THEN NoItem ELSE items[j]

retrieve_item(d, path) ==
    LET walk[i \in 0 .. Len(path)] ==
          IF i = 0 THEN Slot(<<>>, <<>>, {"Volume_ID"}, Root, 0)
          ELSE LET up == walk[i - 1] IN
               IF up = NoItem THEN NoItem
               ELSE Found(retrieve_folders_from_folder(d, up.first), path[i])
    IN  walk[Len(path)]

file_exist(d, path) == retrieve_item(d, path) # NoItem

(* open and dirread drop a "." at the end of a path. *)
DropDot(path) == IF path # <<>> /\ Last(path) = <<Dot>> THEN Front(path) ELSE path

(* dirread, get_os_dir_content: all the clusters are read as one. *)
Content(d, chain) == [i \in 1 .. Len(chain) * K |->
                          d.data[chain[((i - 1) \div K) + 1]][((i - 1) % K) + 1]]
get_os_dir_content(d, first) ==
    IF first = Root THEN From(get_dir_items(d.root), 2)
    ELSE From(get_dir_items(Content(d, retrieve_sectors_fs(d.fat, first))), 3)
dirread(d, path) == get_os_dir_content(d, retrieve_item(d, DropDot(path)).first)

(* The directory that holds path: its clusters (<< >> if there is none),   *)
(* its slots and the index in front of its first entry.                    *)
UpperOf(c, chain) ==
    [first |-> c, chain |-> chain, room |-> Len(chain) * K, skip |-> 2]
UpperAt(d, c) == UpperOf(c, retrieve_sectors_fs(d.fat, c))
Upper(d, path) ==
    IF Len(path) = 1
    THEN [first |-> Root, chain |-> <<Root>>, room |-> R, skip |-> 1]
    ELSE UpperAt(d, retrieve_item(d, Front(path)).first)

(* Slot number index, from 0, of a directory with these clusters *)
GetSlot(d, chain, index) ==
    IF chain[1] = Root THEN d.root[index + 1]
    ELSE d.data[chain[(index \div K) + 1]][(index % K) + 1]
PutSlot(d, chain, index, slot) ==
    IF chain[1] = Root THEN [d EXCEPT !.root[index + 1] = slot]
    ELSE [d EXCEPT !.data[chain[(index \div K) + 1]][(index % K) + 1] = slot]

(* write_folder_into_fs.  The attribute of ".." is 10, not 0x10.           *)
write_folder_into_fs(d, index, upper) ==
    [d EXCEPT !.data[index] =
        <<Slot(<<Dot>>, <<>>, {"Directory"}, index, 0),
          Slot(<<Dot, Dot>>, <<>>, {"Hidden", "Volume_ID"},
               IF upper = Root THEN 0 ELSE upper, 0)>>
        \o Zeros(K - 2)]

(* Mutant of Undo: the cluster is not given back. *)
UndoNothing(d, new) == d

(* The way back of create_folder and create_file *)
Undo(d, new) == save_fat(SetEntry(d, new, 0))

(* create_folder and create_file: first the table, then the entry in the   *)
(* upper directory, for which that directory may have to grow.             *)
PutItem(d, chain, index, slot, folder) ==
    LET e == PutSlot(d, chain, index, slot) IN
    IF folder THEN write_folder_into_fs(e, slot.first, chain[1]) ELSE e

CreateGrown(taken, grown, up, index, slot, folder) ==
    IF grown.new = -1 THEN [ok |-> FALSE, disk |-> Undo(taken, slot.first)]
    ELSE [ok   |-> TRUE,
          disk |-> PutItem(grown.disk, Append(up.chain, grown.new), index, slot, folder)]

CreateAt(taken, up, index, slot, folder) ==
    IF index + 1 <= up.room
    THEN [ok |-> TRUE, disk |-> PutItem(taken, up.chain, index, slot, folder)]
    ELSE IF up.first = Root THEN [ok |-> FALSE, disk |-> Undo(taken, slot.first)]
    ELSE CreateGrown(taken, aloc_cluster(taken, up.first), up, index, slot, folder)

CreateIn(d, up, new, slot, folder) ==
    IF new = -1 THEN [ok |-> FALSE, disk |-> d]
    ELSE CreateAt(save_fat(SetEntry(d, new, EndMark)), up,
                  Len(retrieve_folders_from_folder(d, up.first)) + up.skip,
                  [slot EXCEPT !.first = new], folder)
CreateItem(d, path, slot, folder) ==
    CreateIn(d, Upper(d, path), retrieve_free_index(d), slot, folder)

create_folder(d, path, attr) ==
    CreateItem(d, path, Slot(Last(path), <<>>, attr, 0, 0), TRUE)
create_file(d, path, attr) ==
    CreateItem(d, path, Slot(StoredName(Last(path)), StoredExt(Last(path)),
                             attr, 0, 0), FALSE)

(* Mutant of EntryIndex: the index is one too small. *)
EntryBefore(d, up, path) ==
    IndexOf(retrieve_folders_from_folder(d, up.first), Last(path)) - 2 + up.skip

(* The slot of the entry of path in its upper directory.  An item that is  *)
(* not found has index -1, so it is the slot in front of the first entry.  *)
EntryIndex(d, up, path) ==
    IndexOf(retrieve_folders_from_folder(d, up.first), Last(path)) - 1 + up.skip

PutSize(d, up, index, size) ==
    PutSlot(d, up.chain, index, [GetSlot(d, up.chain, index) EXCEPT !.size = size])
UpdateIn(d, up, path, size) == PutSize(d, up, EntryIndex(d, up, path), size)
update_file_size(d, path, size) == UpdateIn(d, Upper(d, path), path, size)

(* set_file_attribute and get_file_attribute take the first entry of a     *)
(* directory for "not found".                                              *)
AttributeIndex(d, up, path) ==
    LET j == IndexOf(retrieve_folders_from_folder(d, up.first), Last(path))
    IN  IF j = 0 THEN 0 ELSE j - 1
PutAttribute(d, up, i, attr) ==
    IF i = 0 THEN [ok |-> FALSE, disk |-> d]
    ELSE [ok |-> TRUE, disk |-> PutSlot(d, up.chain, i + up.skip,
                        [GetSlot(d, up.chain, i + up.skip) EXCEPT !.attr = attr])]
SetAttributeIn(d, up, path, attr) ==
    PutAttribute(d, up, AttributeIndex(d, up, path), attr)
set_file_attribute(d, path, attr) == SetAttributeIn(d, Upper(d, path), path, attr)
GetAttributeIn(d, up, path) ==
    GetSlot(d, up.chain, AttributeIndex(d, up, path) + up.skip).attr
get_file_attribute(d, path) == GetAttributeIn(d, Upper(d, path), path)

(* rmdir, for directories and files: what is in the clusters is read as a  *)
(* directory, which must be empty.                                         *)
Release(d, chain) ==
    LET freed[i \in 0 .. Len(chain)] ==
          IF i = 0 THEN d
          ELSE write_to_fs(SetEntry(freed[i - 1], chain[i], 0), chain[i], Blank)
    IN  freed[Len(chain)]

EraseIn(d, chain, moved) ==
    [d EXCEPT !.data = [c \in Clusters |->
        LET i == SelectInSeq(chain, LAMBDA x : x = c) IN
        IF i = 0 THEN @[c] ELSE SubSeq(moved, ((i - 1) * K) + 1, i * K)]]
EraseSlot(d, up, index) ==
    IF up.first = Root THEN [d EXCEPT !.root = Append(RemoveAt(@, index + 1), Zero)]
    ELSE EraseIn(d, up.chain, Append(RemoveAt(Content(d, up.chain), index + 1), Zero))

EraseEntry(d, up, path) == EraseSlot(d, up, EntryIndex(d, up, path))
RemoveFreed(freed, path) == EraseEntry(freed, Upper(freed, path), path)
(* Mutant of RemoveItem: the table is not saved. *)
RemoveUnsaved(d, item, path) ==
    IF item = NoItem THEN [error |-> "File_Not_Found", disk |-> d]
    ELSE IF retrieve_folders_from_folder(d, item.first) # <<>>
         THEN [error |-> "Directory_Not_Empty", disk |-> d]
    ELSE [error |-> "Success",
          disk  |-> RemoveFreed(Release(d, retrieve_sectors_fs(d.fat, item.first)), path)]

RemoveItem(d, item, path) ==
    IF item = NoItem THEN [error |-> "File_Not_Found", disk |-> d]
    ELSE IF retrieve_folders_from_folder(d, item.first) # <<>>
         THEN [error |-> "Directory_Not_Empty", disk |-> d]
    ELSE [error |-> "Success",
          disk  |-> RemoveFreed(save_fat(Release(d, retrieve_sectors_fs(d.fat, item.first))),
                                path)]
rmdir(d, path) == RemoveItem(d, retrieve_item(d, path), path)

-----------------------------------------------------------------------------
(* Files *)

ClusterCount(n) == (n + K - 1) \div K

(* Mutant of SectorOf: the sector is counted from the end of the slot. *)
SectorBehind(offset) == (offset + 1) \div K

SectorOf(offset) == offset \div K

(* The loop of FAT::write over the parts of whole.  A new cluster is hung  *)
(* behind nums, the clusters of the file before the loop.                  *)
PartOf(whole, i) ==
    SubSeq(whole, ((i - 1) * K) + 1, IF i * K < Len(whole) THEN i * K ELSE Len(whole))
PutPart(r, d, c, part) ==
    [r EXCEPT !.disk = write_to_fs(d, c, part), !.done = @ + Len(part)]
(* Mutant of PutNew: the end mark of the new cluster is forgotten. *)
PutUnmarked(r, new, back, part) ==
    IF new = -1 THEN [r EXCEPT !.full = TRUE]
    ELSE PutPart(r, SetEntry(r.disk, back, new), new, part)

PutNew(r, new, back, part) ==
    IF new = -1 THEN [r EXCEPT !.full = TRUE]
    ELSE PutPart(r, SetEntry(SetEntry(r.disk, back, new), new, EndMark), new, part)
WritePart(r, nums, n, part) ==
    IF r.full THEN r
    ELSE IF n <= Len(nums) THEN PutPart(r, r.disk, nums[n], part)
    ELSE PutNew(r, retrieve_free_index(r.disk), Last(nums), part)
WriteParts(d, nums, sector, whole) ==
    LET run[i \in 0 .. ClusterCount(Len(whole))] ==
          IF i = 0 THEN [disk |-> d, done |-> 0, full |-> FALSE]
          ELSE WritePart(run[i - 1], nums, sector + i, PartOf(whole, i))
    IN  run[ClusterCount(Len(whole))]

(* FAT::write of buf at offset into an open file f.  size is the size that *)
(* the file has afterwards; "wild" stands for the exception of at().       *)
NotWritten(d, f, error) == [error |-> error, disk |-> d, written |-> 0, size |-> f.size]

WriteEnd(f, offset, r) ==
    LET done == r.done - (offset % K)
        end  == offset + done
    IN  [error   |-> IF r.full THEN "Not_Enough_Disk_Space" ELSE "Success",
         disk    |-> IF end = f.size THEN save_fat(r.disk)
                     ELSE update_file_size(save_fat(r.disk), f.path, end),
         written |-> IF r.full /\ end = f.size THEN 0 ELSE done,
         size    |-> end]

WriteInto(d, f, offset, buf, nums, sector) ==
    WriteEnd(f, offset,
             WriteParts(d, nums, sector,
                        SubSeq(d.data[nums[sector + 1]], 1, offset % K) \o buf))

WriteGrown(grown, d, f, offset, buf, chain, sector) ==
    IF grown.new = -1 THEN NotWritten(d, f, "Not_Enough_Disk_Space")
    ELSE IF sector > Len(chain) THEN NotWritten(d, f, "wild")
    ELSE WriteInto(grown.disk, f, offset, buf, Append(chain, grown.new), sector)

WriteBehind(d, f, offset, buf, chain, sector) ==
    IF chain = <<>> THEN NotWritten(d, f, "wild")
    ELSE IF sector < Len(chain) THEN WriteInto(d, f, offset, buf, chain, sector)
    ELSE WriteGrown(aloc_cluster(d, f.first), d, f, offset, buf, chain, sector)

FatWrite(d, f, offset, buf) ==
    IF offset > f.size THEN NotWritten(d, f, "IO_Error")
    ELSE WriteBehind(d, f, offset, buf, retrieve_sectors_fs(d.fat, f.first), SectorOf(offset))

Part(all, size, offset) ==
    IF offset + size > Len(all) THEN [error |-> "wild", out |-> <<>>]
    ELSE [error |-> "Success", out |-> SubSeq(all, offset + 1, offset + size)]

(* Mutant of FatRead: no comparison with the size. *)
FatReadAll(d, f, size, offset) ==
    Part(Content(d, retrieve_sectors_fs(d.fat, f.first)), size, offset)

(* FAT::read of size slots at offset *)
FatRead(d, f, size, offset) ==
    IF (offset + size) % W > f.size THEN [error |-> "IO_Error", out |-> <<>>]
    ELSE Part(Content(d, retrieve_sectors_fs(d.fat, f.first)), size, offset)

(* FAT::read of a directory counts TDir_Entry's.  The bound multiplies by  *)
(* the size of an entry a second time.                                     *)
CONSTANT EntrySize      \* sizeof(TDir_Entry), 14 in the code
PartOfDir(all, size, offset) ==
    IF (offset + size) % W > Len(all) * EntrySize THEN [error |-> "IO_Error", out |-> <<>>]
    ELSE Part(all, size, offset)
FatReadDir(d, f, size, offset) == PartOfDir(dirread(d, f.path), size, offset)
=============================================================================
