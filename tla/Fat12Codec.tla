----------------------------- MODULE Fat12Codec -----------------------------
(***************************************************************************)
(* The number formats of the disk (fsutils.cpp): 12-bit entries of the     *)
(* allocation table packed two to three bytes, 16-bit cluster numbers and  *)
(* 32-bit sizes of directory entries, and the 8.3 rule for names.  The     *)
(* code goes through strings of hexadecimal digits; a digit is a nibble    *)
(* here.  The table is a function on 0 .. n - 1, as the vectors are.       *)
(***************************************************************************)
EXTENDS Integers, Sequences

Byte  == 0 .. 255
Entry == 0 .. 4095

(* The first byte of entry i; the second one is shared with a neighbour. *)
FirstByte(i) == (3 * i) \div 2

(* num_to_bytes_fs for an even entry, given the bytes that hold it now *)
EvenBytes(first, second, num) ==
    <<num % 256, ((second \div 16) * 16) + (num \div 256)>>

(* num_to_bytes_fs for an odd entry *)
OddBytes(first, second, num) ==
    <<((num % 16) * 16) + (first % 16), num \div 16>>

num_to_bytes_fs(target, fat_table, num) ==
    LET first  == fat_table[FirstByte(target)]
        second == fat_table[FirstByte(target) + 1]
    IN  IF target % 2 = 0 THEN EvenBytes(first, second, num)
                          ELSE OddBytes(first, second, num)

(* convert_fat_to_dec reads three bytes at a time.  Its "%.2X%.2X%.2X"     *)
(* takes them from the last argument to the first, the order in which the  *)
(* compiler of this project evaluates them.                                *)
EvenEntry(b0, b1) == ((b1 % 16) * 256) + b0
OddEntry(b1, b2)  == (b2 * 16) + (b1 \div 16)

convert_fat_to_dec(fat_table, n) ==
    [i \in 0 .. n - 1 |->
        LET b == FirstByte(i) IN
        IF i % 2 = 0 THEN EvenEntry(fat_table[b], fat_table[b + 1])
                     ELSE OddEntry(fat_table[b], fat_table[b + 1])]

(* dec_to_hex and dec_t_to_hex: least significant byte first *)
dec_to_hex(n)   == <<n % 256, (n \div 256) % 256>>
dec_t_to_hex(n) == <<n % 256, (n \div 256) % 256,
                     (n \div 65536) % 256, (n \div 16777216) % 256>>

(* How get_dir_items reads them back *)
ClusterOf(b) == (b[2] * 256) + b[1]
SizeOf(b)    == (b[4] * 16777216) + (b[3] * 65536) + (b[2] * 256) + b[1]

-----------------------------------------------------------------------------
(* Names are sequences of characters. *)

CONSTANTS Dot,        \* the character '.'
          NameMax,    \* 8 in the code
          ExtMax      \* 3 in the code

folder_name_val(name) == Len(name) <= NameMax

Dots(name) == {i \in 1 .. Len(name) : name[i] = Dot}

(* The name and the extension that create_file stores: what follows the    *)
(* last dot is the extension.                                              *)
LastDot(name)   == CHOOSE i \in Dots(name) : \A j \in Dots(name) : j <= i
StoredName(name) == IF Dots(name) = {} THEN name
                    ELSE SubSeq(name, 1, LastDot(name) - 1)
StoredExt(name)  == IF Dots(name) = {} THEN <<>>
                    ELSE SubSeq(name, LastDot(name) + 1, Len(name))

file_name_val(name) ==
    /\ Dots(name) # {} => StoredExt(name) # <<>>
    /\ Len(StoredName(name)) <= NameMax
    /\ Len(StoredExt(name)) <= ExtMax

(* The name that the search loops compare: filename + "." + extension *)
JoinedName(filename, extension) ==
    IF extension = <<>> THEN filename ELSE filename \o <<Dot>> \o extension
=============================================================================
