---------------------------- MODULE FilesProofs ----------------------------
(***************************************************************************)
(* Proofs about the file system, for every size of the disk, any disks at  *)
(* boot whose tables agree, any paths and any number of calls: what the    *)
(* number formats preserve, and that the copies of the allocation table    *)
(* agree after every call.                                                 *)
(*                                                                         *)
(* Then the directory tree of a disk: what a chain is, which slots it has, *)
(* which entries a directory holds and what a path leads to.  A disk is    *)
(* Tidy if each directory holds a list of entries and nothing behind it,   *)
(* no name twice, and no two paths share a cluster; that is what SoundTree *)
(* and Kinds say.  TreeProofs shows what the calls do to such a disk.      *)
(***************************************************************************)
EXTENDS Files, SequenceTheorems, FiniteSetTheorems, WellFoundedInduction, TLAPS

-----------------------------------------------------------------------------
(* The number formats. *)

(* A byte is two nibbles and an entry three of them. *)
LEMMA Nibbles ==
    ASSUME NEW b \in Byte
    PROVE  /\ b \div 16 \in 0 .. 15 /\ b % 16 \in 0 .. 15
           /\ b = ((b \div 16) * 16) + (b % 16)
  BY SMT DEF Byte

LEMMA EntryParts ==
    ASSUME NEW n \in Entry
    PROVE  /\ n \div 256 \in 0 .. 15 /\ n % 256 \in Byte
           /\ n = ((n \div 256) * 256) + (n % 256)
           /\ n \div 16 \in Byte /\ n % 16 \in 0 .. 15
           /\ n = ((n \div 16) * 16) + (n % 16)
  BY SMT DEF Entry, Byte

LEMMA Joined ==
    ASSUME NEW hi \in 0 .. 15, NEW lo \in 0 .. 15
    PROVE  /\ (hi * 16) + lo \in Byte
           /\ ((hi * 16) + lo) \div 16 = hi
           /\ ((hi * 16) + lo) % 16 = lo
  BY SMT DEF Byte

(* An even entry is read back as written, and the odd entry that shares    *)
(* its second byte keeps its value (num_to_bytes_fs, convert_fat_to_dec).  *)
THEOREM EvenEntryWritten ==
    ASSUME NEW b0 \in Byte, NEW b1 \in Byte, NEW b2 \in Byte, NEW num \in Entry
    PROVE  LET c == EvenBytes(b0, b1, num) IN
           /\ c[1] \in Byte /\ c[2] \in Byte
           /\ EvenEntry(c[1], c[2]) = num
           /\ OddEntry(c[2], b2) = OddEntry(b1, b2)
<1>1. /\ b1 \div 16 \in 0 .. 15 /\ num \div 256 \in 0 .. 15 /\ num % 256 \in Byte
      /\ num = ((num \div 256) * 256) + (num % 256)
  BY Nibbles, EntryParts
<1>2. /\ ((b1 \div 16) * 16) + (num \div 256) \in Byte
      /\ (((b1 \div 16) * 16) + (num \div 256)) \div 16 = b1 \div 16
      /\ (((b1 \div 16) * 16) + (num \div 256)) % 16 = num \div 256
  BY <1>1, Joined
<1> QED
  BY <1>1, <1>2 DEF EvenBytes, EvenEntry, OddEntry

(* The same for an odd entry and the even one before it.                   *)
THEOREM OddEntryWritten ==
    ASSUME NEW b0 \in Byte, NEW b1 \in Byte, NEW b2 \in Byte, NEW num \in Entry
    PROVE  LET c == OddBytes(b1, b2, num) IN
           /\ c[1] \in Byte /\ c[2] \in Byte
           /\ OddEntry(c[1], c[2]) = num
           /\ EvenEntry(b0, c[1]) = EvenEntry(b0, b1)
<1>1. /\ b1 % 16 \in 0 .. 15 /\ num % 16 \in 0 .. 15 /\ num \div 16 \in Byte
      /\ num = ((num \div 16) * 16) + (num % 16)
  BY Nibbles, EntryParts
<1>2. /\ ((num % 16) * 16) + (b1 % 16) \in Byte
      /\ (((num % 16) * 16) + (b1 % 16)) \div 16 = num % 16
      /\ (((num % 16) * 16) + (b1 % 16)) % 16 = b1 % 16
  BY <1>1, Joined
<1> QED
  BY <1>1, <1>2 DEF OddBytes, EvenEntry, OddEntry

(* A cluster number stored in a directory entry (dec_to_hex) is the one    *)
(* that get_dir_items finds.                                               *)
THEOREM ClusterStored ==
    ASSUME NEW n \in Nat, n < 65536
    PROVE  ClusterOf(dec_to_hex(n)) = n
<1>1. n = ((n \div 256) * 256) + (n % 256)
  BY SMT
<1>2. n \div 256 \in 0 .. 255
  BY SMT
<1>3. (n \div 256) % 256 = n \div 256
  BY <1>2, SMT
<1> QED
  BY <1>1, <1>3 DEF ClusterOf, dec_to_hex

(* A size of 32 bits stored by update_file_size (dec_t_to_hex) is the one  *)
(* that get_dir_items finds.                                               *)
THEOREM SizeStored ==
    ASSUME NEW n \in Nat, n < 4294967296
    PROVE  SizeOf(dec_t_to_hex(n)) = n
<1>1. n = ((n \div 256) * 256) + (n % 256)
  BY SMT
<1>2. n \div 256 = ((n \div 65536) * 256) + ((n \div 256) % 256)
  BY SMT
<1>3. n \div 65536 = ((n \div 16777216) * 256) + ((n \div 65536) % 256)
  BY SMT
<1>4. n \div 16777216 \in 0 .. 255
  BY SMT
<1>5. (n \div 16777216) % 256 = n \div 16777216
  BY <1>4, SMT
<1> QED
  BY <1>1, <1>2, <1>3, <1>5 DEF SizeOf, dec_t_to_hex

-----------------------------------------------------------------------------
(* Numbers, sets of them, and functions defined by recursion. *)

LEMMA Least ==
    ASSUME NEW S \in SUBSET Nat, S # {}
    PROVE  \E m \in S : \A i \in S : m <= i
<1> DEFINE Less == {p \in Nat \X Nat : p[1] < p[2]}
<1>1. IsWellFoundedOn(Less, Nat)
  BY NatLessThanWellFounded DEF OpToRel
<1> HIDE DEF Less
<1>2. PICK m \in S : \A i \in S : <<i, m>> \notin Less
  BY <1>1, WFMin
<1>3. \A i \in S : ~(i < m)
  BY <1>2 DEF Less
<1> QED
  BY <1>2, <1>3

LEMMA Greatest ==
    ASSUME NEW n \in Nat, NEW S \in SUBSET (0 .. n), S # {}
    PROVE  \E m \in S : \A i \in S : i <= m
<1> DEFINE T == {n - i : i \in S}
<1>1. T \in SUBSET Nat /\ T # {}
  <2>1. \A i \in S : n - i \in Nat
    OBVIOUS
  <2>2. PICK i \in S : TRUE
    OBVIOUS
  <2> QED
    BY <2>1, <2>2
<1> HIDE DEF T
<1>2. PICK d \in T : \A j \in T : d <= j
  BY <1>1, Least
<1>3. PICK m \in S : d = n - m
  BY <1>2 DEF T
<1>4. ASSUME NEW i \in S PROVE i <= m
  <2>1. n - m <= n - i
    BY <1>2, <1>3 DEF T
  <2> QED
    BY <2>1
<1> QED
  BY <1>4

LEMMA NatSet ==
    ASSUME NEW S \in SUBSET Nat, 0 \in S, \A i \in S : i + 1 \in S
    PROVE  S = Nat
<1>1. SUFFICES ASSUME Nat \ S # {} PROVE FALSE
  OBVIOUS
<1>2. Nat \ S \in SUBSET Nat
  OBVIOUS
<1>3. PICK m \in Nat \ S : \A i \in Nat \ S : m <= i
  BY <1>1, <1>2, Least
<1>4. m - 1 \in Nat /\ m - 1 \notin Nat \ S
  BY <1>3
<1>5. (m - 1) + 1 \in S
  BY <1>4
<1> QED
  BY <1>3, <1>5

Within(u, Y) == \A i \in 1 .. Len(u) : u[i] \in Y

LEMMA SeqWithin ==
    ASSUME NEW X, NEW Y, NEW u, u \in Seq(X), Within(u, Y)
    PROVE  u \in Seq(Y)
<1>1. PICK n \in Nat : n = Len(u)
  BY LenProperties
<1>2. u = SubSeq(u, 1, n)
  BY <1>1, SubSeqFull
<1>3. \A i \in 1 .. n : u[i] \in Y
  BY <1>1 DEF Within
<1>4. SubSeq(u, 1, n) \in Seq(Y)
  BY <1>3, SubSeqProperties
<1> QED
  BY <1>2, <1>4

(* f goes from x along the numbers up to m as D says. *)
Along(D, x, m, f) == f[0] = x /\ \A i \in 1 .. m : f[i] = D[f[i - 1]][i]

(* x is a value of X, and D takes one and a number up to m to the next. *)
Step(X, m, D, x) == m \in Nat /\ x \in X /\ D \in [X -> [1 .. m -> X]]

LEMMA Recursion ==
    ASSUME NEW X, NEW m, NEW D, NEW x, Step(X, m, D, x)
    PROVE  \E f \in [0 .. m -> X] : Along(D, x, m, f)
<1>a. m \in Nat /\ x \in X /\ D \in [X -> [1 .. m -> X]]
  BY DEF Step
<1> DEFINE Good(n) == \E f \in [0 .. n -> X] : Along(D, x, n, f)
           S == {n \in Nat : n <= m => Good(n)}
<1>1. 0 \in S
  <2>1. [i \in {0} |-> x] \in [0 .. 0 -> X] /\ [i \in {0} |-> x][0] = x
    BY <1>a
  <2>2. Along(D, x, 0, [i \in {0} |-> x])
    BY <2>1 DEF Along
  <2> QED
    BY <2>1, <2>2
<1>2. ASSUME NEW n \in S PROVE n + 1 \in S
  <2>1. SUFFICES ASSUME n + 1 <= m PROVE Good(n + 1)
    OBVIOUS
  <2>2. n \in Nat /\ n + 1 \in 1 .. m /\ Good(n)
    BY <1>a, <2>1
  <2>3. PICK f \in [0 .. n -> X] : Along(D, x, n, f)
    BY <2>2
  <2> DEFINE y == D[f[n]][n + 1]
             g == [i \in 0 .. n + 1 |-> IF i = n + 1 THEN y ELSE f[i]]
  <2>4. f[0] = x /\ \A i \in 1 .. n : f[i] = D[f[i - 1]][i]
    BY <2>3 DEF Along
  <2>5. f[n] \in X
    BY <2>2, <2>3
  <2>6. y \in X
    BY <1>a, <2>2, <2>5
  <2> HIDE DEF S, Good, y
  <2>7. g \in [0 .. n + 1 -> X] /\ g[n + 1] = y /\ \A i \in 0 .. n : g[i] = f[i]
    BY <2>2, <2>3, <2>6
  <2> HIDE DEF g
  <2>8. ASSUME NEW i \in 1 .. n + 1 PROVE g[i] = D[g[i - 1]][i]
    <3>1. CASE i = n + 1
      BY <2>2, <2>7, <3>1 DEF y
    <3>2. CASE i \in 1 .. n
      <4>1. i - 1 \in 0 .. n /\ i \in 0 .. n
        BY <2>2, <3>2
      <4> QED
        BY <2>4, <2>7, <3>2, <4>1
    <3> QED
      BY <2>2, <3>1, <3>2
  <2>9. 0 \in 0 .. n
    BY <2>2
  <2>10. Along(D, x, n + 1, g)
    BY <2>4, <2>7, <2>8, <2>9 DEF Along
  <2> QED
    BY <2>7, <2>10 DEF Good
<1>3. S \in SUBSET Nat
  OBVIOUS
<1> HIDE DEF S
<1>4. S = Nat
  BY <1>1, <1>2, <1>3, NatSet
<1>5. m \in S /\ m <= m
  BY <1>4, <1>a
<1> QED
  BY <1>5 DEF S, Good

(* Whatever goes on as D says as long as it stays in X, stays in X. *)
Follows(X, D, x, m, g) ==
    g[0] = x /\ \A i \in 1 .. m : g[i - 1] \in X => g[i] = D[g[i - 1]][i]

LEMMA Stays ==
    ASSUME NEW X, NEW m, NEW D, NEW x, Step(X, m, D, x), NEW g, Follows(X, D, x, m, g)
    PROVE  \A i \in 0 .. m : g[i] \in X
<1> DEFINE S == {n \in Nat : n <= m => g[n] \in X}
<1>1. m \in Nat /\ x \in X /\ D \in [X -> [1 .. m -> X]]
  BY DEF Step
<1>2. g[0] = x /\ \A i \in 1 .. m : g[i - 1] \in X => g[i] = D[g[i - 1]][i]
  BY DEF Follows
<1>3. 0 \in S
  BY <1>1, <1>2
<1>4. ASSUME NEW n \in S PROVE n + 1 \in S
  <2>1. SUFFICES ASSUME n + 1 <= m PROVE g[n + 1] \in X
    OBVIOUS
  <2>2. n + 1 \in 1 .. m /\ (n + 1) - 1 = n /\ g[n] \in X
    BY <1>1, <2>1
  <2>3. g[n + 1] = D[g[n]][n + 1]
    BY <1>2, <2>2
  <2> QED
    BY <1>1, <2>2, <2>3
<1>5. S \in SUBSET Nat
  OBVIOUS
<1> HIDE DEF S
<1>6. S = Nat
  BY <1>3, <1>4, <1>5, NatSet
<1>7. ASSUME NEW i \in 0 .. m PROVE g[i] \in X
  <2>1. i \in S /\ i <= m
    BY <1>1, <1>6
  <2> QED
    BY <2>1 DEF S
<1> QED
  BY <1>7

-----------------------------------------------------------------------------
(* The table. *)

(* The disks whose table has the same entries as integers and as bytes,    *)
(* the first two of which are never free.                                  *)
Sound == {d \in Disks : d.fat = convert_fat_to_dec(d.bytes, N) /\ d.fat[0] # 0 /\ d.fat[1] # 0}
Ids   == 0 .. N - 1

LEMMA Sizes0 == /\ N \in Nat /\ N > 2 /\ N < 4080 /\ K \in Nat /\ K > 1 /\ R \in Nat /\ R > 0
                /\ W \in Nat /\ W > 0 /\ W > R /\ Clusters \subseteq Ids /\ EndMark \in Entry
                /\ \A i \in Ids : i \in Entry
<1>1. /\ N \in Nat /\ N > 2 /\ N < 4080 /\ K \in Nat /\ K > 1 /\ R \in Nat /\ R > 0
      /\ W \in Nat /\ W > R
  BY DiskAssumption
<1> QED
  BY <1>1 DEF Clusters, Ids, EndMark, Entry

(* Where the bytes of an entry are. *)
LEMMA BytesOf ==
    ASSUME NEW i \in Ids
    PROVE  /\ FirstByte(i) \in 0 .. ((3 * N) \div 2) - 1
           /\ FirstByte(i) + 1 \in 0 .. ((3 * N) \div 2) - 1
<1>1. N \in Nat /\ N % 2 = 0 /\ i \in Nat /\ i < N
  BY DiskAssumption DEF Ids
<1>2. (3 * N) \div 2 = 3 * (N \div 2) /\ N = 2 * (N \div 2) /\ N \div 2 \in Nat
  BY <1>1
<1>3. /\ i % 2 = 0 => (3 * i) \div 2 = 3 * (i \div 2) /\ i = 2 * (i \div 2)
      /\ i % 2 # 0 => (3 * i) \div 2 = 3 * (i \div 2) + 1 /\ i = 2 * (i \div 2) + 1
      /\ i \div 2 \in Nat
  BY <1>1
<1> QED
  BY <1>1, <1>2, <1>3 DEF FirstByte

(* Two entries share a byte only if the first is even and the other next.  *)
LEMMA BytesApart ==
    ASSUME NEW i \in Ids, NEW j \in Ids, i < j
    PROVE  IF i % 2 = 0 /\ j = i + 1 THEN j % 2 # 0 /\ FirstByte(j) = FirstByte(i) + 1
           ELSE FirstByte(j) > FirstByte(i) + 1
<1>1. i \in Nat /\ j \in Nat
  BY Sizes0 DEF Ids
<1>2. \A n \in Nat : /\ n % 2 = 0 => (3 * n) \div 2 = 3 * (n \div 2) /\ n = 2 * (n \div 2)
                     /\ n % 2 # 0 => (3 * n) \div 2 = 3 * (n \div 2) + 1 /\ n = 2 * (n \div 2) + 1
                     /\ n \div 2 \in Nat
  OBVIOUS
<1>3. PICK p \in Nat : p = i \div 2
  BY <1>1, <1>2
<1>4. PICK q \in Nat : q = j \div 2
  BY <1>1, <1>2
<1>5. /\ i % 2 = 0 => FirstByte(i) = 3 * p /\ i = 2 * p
      /\ i % 2 # 0 => FirstByte(i) = 3 * p + 1 /\ i = 2 * p + 1
  BY <1>1, <1>2, <1>3 DEF FirstByte
<1>6. /\ j % 2 = 0 => FirstByte(j) = 3 * q /\ j = 2 * q
      /\ j % 2 # 0 => FirstByte(j) = 3 * q + 1 /\ j = 2 * q + 1
  BY <1>1, <1>2, <1>4 DEF FirstByte
<1>7. CASE i % 2 = 0
  BY <1>1, <1>5, <1>6, <1>7
<1>8. CASE i % 2 # 0
  BY <1>1, <1>5, <1>6, <1>8
<1> QED
  BY <1>7, <1>8

(* An entry is written into a table of bytes. *)
Rewritten(b, i, num) ==
    [b EXCEPT ![FirstByte(i)] = num_to_bytes_fs(i, b, num)[1],
              ![FirstByte(i) + 1] = num_to_bytes_fs(i, b, num)[2]]

LEMMA EntryWritten ==
    ASSUME NEW b \in Tables, NEW i \in Ids, NEW num \in Entry
    PROVE  /\ Rewritten(b, i, num) \in Tables
           /\ convert_fat_to_dec(Rewritten(b, i, num), N) =
                 [convert_fat_to_dec(b, N) EXCEPT ![i] = num]
<1> DEFINE f == FirstByte(i)
           c1 == num_to_bytes_fs(i, b, num)[1]
           c2 == num_to_bytes_fs(i, b, num)[2]
           r == Rewritten(b, i, num)
           At(t, j) == IF j % 2 = 0 THEN EvenEntry(t[FirstByte(j)], t[FirstByte(j) + 1])
                                    ELSE OddEntry(t[FirstByte(j)], t[FirstByte(j) + 1])
<1>1. /\ f \in 0 .. ((3 * N) \div 2) - 1 /\ f + 1 \in 0 .. ((3 * N) \div 2) - 1 /\ f \in Int
      /\ b[f] \in Byte /\ b[f + 1] \in Byte
  BY BytesOf DEF Tables
<1>2. IF i % 2 = 0 THEN c1 = EvenBytes(b[f], b[f + 1], num)[1] /\ c2 = EvenBytes(b[f], b[f + 1], num)[2]
      ELSE c1 = OddBytes(b[f], b[f + 1], num)[1] /\ c2 = OddBytes(b[f], b[f + 1], num)[2]
  BY DEF num_to_bytes_fs
<1>3. c1 \in Byte /\ c2 \in Byte
  BY <1>1, <1>2, EvenEntryWritten, OddEntryWritten
<1>4. r = [b EXCEPT ![f] = c1, ![f + 1] = c2]
  BY DEF Rewritten
<1> HIDE DEF f, c1, c2, r
<1>5. /\ r \in Tables /\ r[f] = c1 /\ r[f + 1] = c2
      /\ \A x \in 0 .. ((3 * N) \div 2) - 1 : x # f /\ x # f + 1 => r[x] = b[x]
  BY <1>1, <1>3, <1>4 DEF Tables
<1>6. At(r, i) = num
  <2>1. CASE i % 2 = 0
    <3>1. EvenEntry(c1, c2) = num
      BY <1>1, <1>2, <2>1, EvenEntryWritten
    <3> QED
      BY <1>5, <2>1, <3>1 DEF f
  <2>2. CASE i % 2 # 0
    <3>1. OddEntry(c1, c2) = num
      BY <1>1, <1>2, <2>2, OddEntryWritten
    <3> QED
      BY <1>5, <2>2, <3>1 DEF f
  <2> QED
    BY <2>1, <2>2
<1>7. ASSUME NEW j \in Ids, i < j PROVE At(r, j) = At(b, j)
  <2> DEFINE g == FirstByte(j)
  <2>1. /\ g \in 0 .. ((3 * N) \div 2) - 1 /\ g + 1 \in 0 .. ((3 * N) \div 2) - 1
        /\ b[g] \in Byte /\ b[g + 1] \in Byte
    BY BytesOf DEF Tables
  <2>2. CASE i % 2 = 0 /\ j = i + 1
    <3>1. j % 2 # 0 /\ g = f + 1
      BY <1>7, <2>2, BytesApart DEF f
    <3> HIDE DEF g
    <3>2. r[g] = c2 /\ r[g + 1] = b[g + 1]
      BY <1>1, <1>5, <2>1, <3>1
    <3>3. OddEntry(c2, b[g + 1]) = OddEntry(b[f + 1], b[g + 1])
      BY <1>1, <1>2, <2>1, <2>2, EvenEntryWritten
    <3> QED
      BY <3>1, <3>2, <3>3 DEF g
  <2>3. CASE ~(i % 2 = 0 /\ j = i + 1)
    <3>1. g > f + 1
      BY <1>7, <2>3, BytesApart DEF f
    <3> HIDE DEF g
    <3>2. r[g] = b[g] /\ r[g + 1] = b[g + 1]
      BY <1>1, <1>5, <2>1, <3>1
    <3> QED
      BY <3>2 DEF g
  <2> QED
    BY <2>2, <2>3
<1>8. ASSUME NEW j \in Ids, j < i PROVE At(r, j) = At(b, j)
  <2> DEFINE g == FirstByte(j)
  <2>1. /\ g \in 0 .. ((3 * N) \div 2) - 1 /\ g + 1 \in 0 .. ((3 * N) \div 2) - 1
        /\ b[g] \in Byte /\ b[g + 1] \in Byte
    BY BytesOf DEF Tables
  <2>2. CASE j % 2 = 0 /\ i = j + 1
    <3>1. i % 2 # 0 /\ f = g + 1
      BY <1>8, <2>2, BytesApart DEF f
    <3> HIDE DEF g
    <3>2. r[g] = b[g] /\ r[g + 1] = c1
      BY <1>1, <1>5, <2>1, <3>1
    <3>3. EvenEntry(b[g], c1) = EvenEntry(b[g], b[f])
      BY <1>1, <1>2, <2>1, <3>1, OddEntryWritten
    <3> QED
      BY <2>2, <3>1, <3>2, <3>3 DEF g
  <2>3. CASE ~(j % 2 = 0 /\ i = j + 1)
    <3>1. f > g + 1
      BY <1>8, <2>3, BytesApart DEF f
    <3> HIDE DEF g
    <3>2. r[g] = b[g] /\ r[g + 1] = b[g + 1]
      BY <1>1, <1>5, <2>1, <3>1
    <3> QED
      BY <3>2 DEF g
  <2> QED
    BY <2>2, <2>3
<1>9. \A t : convert_fat_to_dec(t, N) = [j \in Ids |-> At(t, j)]
  BY DEF convert_fat_to_dec, Ids
<1> HIDE DEF At
<1>10. \A j \in Ids : At(r, j) = IF j = i THEN num ELSE At(b, j)
  <2>1. \A j \in Ids : j = i \/ i < j \/ j < i
    BY DEF Ids
  <2> QED
    BY <1>6, <1>7, <1>8, <2>1
<1>11. [convert_fat_to_dec(b, N) EXCEPT ![i] = num] = [j \in Ids |-> IF j = i THEN num ELSE At(b, j)]
  BY <1>9
<1> QED
  BY <1>5, <1>9, <1>10, <1>11 DEF r

(* SetEntry keeps a disk sound, and changes nothing but the table.  *)
LEMMA SetEntryKeeps ==
    ASSUME NEW d \in Sound, NEW i \in Clusters, NEW num \in Entry
    PROVE  LET e == SetEntry(d, i, num) IN
           /\ e \in Sound /\ e.fat = [d.fat EXCEPT ![i] = num]
           /\ e.data = d.data /\ e.root = d.root
<1> DEFINE e == SetEntry(d, i, num)
           b == Rewritten(d.bytes, i, num)
<1>1. /\ d \in Disks /\ d.bytes \in Tables /\ d.fat = convert_fat_to_dec(d.bytes, N)
      /\ d.fat \in [Ids -> Entry]
  BY DEF Sound, Disks, Ids
<1>i. i \in Ids /\ 0 \in Ids /\ 1 \in Ids /\ i # 0 /\ i # 1
  BY Sizes0 DEF Clusters, Ids
<1>2. /\ b \in Tables
      /\ convert_fat_to_dec(b, N) = [convert_fat_to_dec(d.bytes, N) EXCEPT ![i] = num]
  <2>1. PICK t \in Tables : t = d.bytes
    BY <1>1
  <2>2. PICK k \in Ids : k = i
    BY <1>i
  <2>3. /\ Rewritten(t, k, num) \in Tables
        /\ convert_fat_to_dec(Rewritten(t, k, num), N) = [convert_fat_to_dec(t, N) EXCEPT ![k] = num]
    BY EntryWritten
  <2> QED
    BY <2>1, <2>2, <2>3
<1>3. e = [d EXCEPT !.fat = [d.fat EXCEPT ![i] = num], !.bytes = b]
  <2>1. PICK two : two = num_to_bytes_fs(i, d.bytes, num)
    OBVIOUS
  <2>2. PICK j : j = FirstByte(i)
    OBVIOUS
  <2>3. b = [d.bytes EXCEPT ![j] = two[1], ![j + 1] = two[2]]
    BY <2>1, <2>2 DEF Rewritten
  <2>4. e = [d EXCEPT !.fat[i] = num, !.bytes[j] = two[1], !.bytes[j + 1] = two[2]]
    BY <2>1, <2>2 DEF SetEntry
  <2> HIDE DEF e, b
  <2>5. DOMAIN d = {"fat", "bytes", "copies", "data", "root"}
    BY <1>1 DEF Disks
  <2> QED
    BY <2>3, <2>4, <2>5
<1> HIDE DEF e, b
<1>4. [d.fat EXCEPT ![i] = num] \in [Ids -> Entry]
  BY <1>1
<1>5. /\ e \in Disks /\ e.fat = [d.fat EXCEPT ![i] = num] /\ e.bytes = b
      /\ e.data = d.data /\ e.root = d.root
  BY <1>1, <1>2, <1>3, <1>4 DEF Disks, Ids
<1>6. e.fat[0] # 0 /\ e.fat[1] # 0
  BY <1>1, <1>5, <1>i DEF Sound
<1> QED
  BY <1>1, <1>2, <1>5, <1>6 DEF Sound, e

LEMMA SaveKeeps ==
    ASSUME NEW d \in Sound
    PROVE  LET e == save_fat(d) IN
           /\ e \in Sound /\ e.fat = d.fat /\ e.bytes = d.bytes
           /\ e.data = d.data /\ e.root = d.root /\ e.copies = <<e.bytes, e.bytes>>
  BY DEF save_fat, Sound, Disks

LEMMA FreeIndex ==
    ASSUME NEW d \in Sound
    PROVE  LET new == retrieve_free_index(d) IN
           new = -1 \/ (new \in Clusters /\ d.fat[new] = 0)
<1> DEFINE free == {i \in 0 .. N - 1 : d.fat[i] = 0}
<1>1. ASSUME free # {} PROVE \E i \in free : \A j \in free : i <= j
  <2>1. free \in SUBSET Nat
    BY Sizes0
  <2> QED
    BY <1>1, <2>1, Least
<1>2. CASE free = {}
  BY <1>2 DEF retrieve_free_index
<1>3. CASE free # {}
  <2> DEFINE m == CHOOSE i \in free : \A j \in free : i <= j
  <2>1. m \in free
    BY <1>1, <1>3
  <2>2. retrieve_free_index(d) = m
    BY <1>3 DEF retrieve_free_index
  <2>3. m # 0 /\ m # 1 /\ N \in Nat
    <3>1. d.fat[0] # 0 /\ d.fat[1] # 0
      BY DEF Sound
    <3>2. d.fat[m] = 0
      BY <2>1
    <3> HIDE DEF m
    <3> QED
      BY <3>1, <3>2, Sizes0
  <2> QED
    BY <2>1, <2>2, <2>3 DEF Clusters
<1> QED
  BY <1>2, <1>3

-----------------------------------------------------------------------------
(* The walk along a chain. *)

FatTables == [Ids -> Entry]

(* The walks that follow the table from start. *)
Linked(fat, start) ==
    {p \in Seq(Entry \cup {start}) : p # <<>> =>
        /\ p[1] = start
        /\ \A i \in 1 .. Len(p) - 1 : p[i] \in Clusters /\ p[i + 1] = fat[p[i]]}

Walks(fat, start, g) ==
    g = [n \in 0 .. N |-> IF n = 0 THEN <<start>> ELSE Follow(fat, g[n - 1])]
WalkOf(fat, start) == CHOOSE g : Walks(fat, start, g)

LEMMA FollowLinked ==
    ASSUME NEW fat \in FatTables, NEW start, NEW p \in Linked(fat, start)
    PROVE  Follow(fat, p) \in Linked(fat, start)
<1>1. CASE p = <<>> \/ Last(p) \notin Clusters
  <2>1. <<>> \in Linked(fat, start)
    BY EmptySeq DEF Linked
  <2> QED
    BY <1>1, <2>1 DEF Follow
<1>2. CASE p # <<>> /\ Last(p) \in Clusters
  <2>1. PICK x \in Entry : x = fat[Last(p)]
    BY <1>2, Sizes0 DEF FatTables
  <2>2. CASE x \in 4088 .. 4095
    BY <1>2, <2>1, <2>2 DEF Follow
  <2>3. CASE x \notin 4088 .. 4095
    <3> DEFINE q == Append(p, x)
               Y == Entry \cup {start}
    <3>1. Follow(fat, p) = q
      BY <1>2, <2>1, <2>3 DEF Follow
    <3>2. /\ p \in Seq(Y) /\ p[1] = start
          /\ \A i \in 1 .. Len(p) - 1 : p[i] \in Clusters /\ p[i + 1] = fat[p[i]]
      BY <1>2 DEF Linked
    <3>3. x \in Y
      OBVIOUS
    <3> HIDE DEF Y
    <3>4. /\ q \in Seq(Y) /\ Len(q) = Len(p) + 1 /\ q[Len(p) + 1] = x
          /\ \A i \in 1 .. Len(p) : q[i] = p[i]
      BY <3>2, <3>3, AppendProperties
    <3>5. Len(p) \in Nat /\ Len(p) # 0
      BY <1>2, <3>2, EmptySeq, LenProperties
    <3>6. PICK m \in Nat : m = Len(p)
      BY <3>5
    <3>7. Last(p) = p[m] /\ p[m] \in Clusters /\ fat[p[m]] = x
      BY <1>2, <2>1, <3>6 DEF Last
    <3> HIDE DEF q
    <3>8. ASSUME NEW i \in 1 .. Len(q) - 1 PROVE q[i] \in Clusters /\ q[i + 1] = fat[q[i]]
      <4>1. i \in 1 .. m /\ q[i] = p[i]
        BY <3>4, <3>5, <3>6
      <4>2. CASE i = m
        BY <3>4, <3>6, <3>7, <4>1, <4>2
      <4>3. CASE i # m
        <5>1. i \in 1 .. Len(p) - 1 /\ i + 1 \in 1 .. Len(p)
          BY <3>6, <4>1, <4>3
        <5> QED
          BY <3>2, <3>4, <4>1, <5>1
      <4> QED
        BY <4>2, <4>3
    <3>9. q[1] = start
      <4>1. 1 \in 1 .. Len(p)
        BY <3>5
      <4> QED
        BY <3>2, <3>4, <4>1
    <3> QED
      BY <3>1, <3>4, <3>8, <3>9 DEF Linked, Y
  <2> QED
    BY <2>2, <2>3
<1> QED
  BY <1>1, <1>2

LEMMA WalkLinked ==
    ASSUME NEW fat \in FatTables, NEW start
    PROVE  LET w == WalkOf(fat, start) IN
           /\ w[0] = <<start>> /\ \A n \in 1 .. N : w[n] = Follow(fat, w[n - 1])
           /\ \A n \in 0 .. N : w[n] \in Linked(fat, start)
<1> DEFINE X == Linked(fat, start)
           D == [p \in X |-> [i \in 1 .. N |-> Follow(fat, p)]]
           w == WalkOf(fat, start)
<1>1. <<start>> \in X
  <2>1. <<start>> \in Seq(Entry \cup {start}) /\ Len(<<start>>) = 1 /\ <<start>>[1] = start
    OBVIOUS
  <2> QED
    BY <2>1 DEF Linked
<1>2. \A p \in X : Follow(fat, p) \in X
  BY FollowLinked
<1>n. N \in Nat
  BY Sizes0
<1> HIDE DEF X
<1>3. D \in [X -> [1 .. N -> X]] /\ \A p \in X : \A i \in 1 .. N : D[p][i] = Follow(fat, p)
  BY <1>2
<1> HIDE DEF D
<1>4. Step(X, N, D, <<start>>)
  BY <1>1, <1>3, <1>n DEF Step
<1>5. PICK f \in [0 .. N -> X] : Along(D, <<start>>, N, f)
  BY <1>4, Recursion
<1>6. Walks(fat, start, f)
  <2>1. f[0] = <<start>> /\ \A i \in 1 .. N : f[i] = D[f[i - 1]][i]
    BY <1>5 DEF Along
  <2>2. \A i \in 1 .. N : f[i - 1] \in X /\ f[i] = Follow(fat, f[i - 1])
    BY <1>3, <1>5, <1>n, <2>1
  <2>3. \A i \in 0 .. N : i = 0 \/ i \in 1 .. N
    BY <1>n
  <2>4. f = [n \in 0 .. N |-> IF n = 0 THEN <<start>> ELSE Follow(fat, f[n - 1])]
    BY <2>1, <2>2, <2>3
  <2> QED
    BY <2>4 DEF Walks
<1>7. Walks(fat, start, w)
  BY <1>6 DEF WalkOf
<1> HIDE DEF w
<1>8. w[0] = <<start>> /\ \A n \in 1 .. N : w[n] = Follow(fat, w[n - 1])
  <2>1. 0 \in 0 .. N /\ \A n \in 1 .. N : n \in 0 .. N /\ n # 0
    BY <1>n
  <2> QED
    BY <1>7, <2>1 DEF Walks
<1>9. Follows(X, D, <<start>>, N, w)
  BY <1>3, <1>8 DEF Follows
<1>10. \A n \in 0 .. N : w[n] \in X
  BY <1>4, <1>9, Stays
<1> QED
  BY <1>8, <1>10 DEF X, w

LEMMA SectorsAre ==
    ASSUME NEW fat, NEW start
    PROVE  retrieve_sectors_fs(fat, start) = EndedWalk(WalkOf(fat, start)[N])
  BY DEF retrieve_sectors_fs, WalkOf, Walks

(* A chain that is found is one of clusters. *)
LEMMA ChainType ==
    ASSUME NEW fat \in FatTables, NEW start, retrieve_sectors_fs(fat, start) # <<>>
    PROVE  LET p == retrieve_sectors_fs(fat, start) IN
           /\ p \in Seq(Clusters) /\ Len(p) \in 1 .. N - 2 /\ Last(p) \in Clusters
           /\ p[1] = start /\ start \in Clusters
           /\ \A i \in 1 .. Len(p) - 1 : p[i + 1] = fat[p[i]]
<1> DEFINE p == retrieve_sectors_fs(fat, start)
<1>1. /\ p = WalkOf(fat, start)[N] /\ Len(p) \in 1 .. N - 2 /\ Last(p) \in Clusters
  BY SectorsAre DEF EndedWalk
<1>2. p \in Linked(fat, start) /\ N \in Nat
  <2>1. N \in 0 .. N /\ N \in Nat
    BY Sizes0
  <2> QED
    BY <1>1, <2>1, WalkLinked
<1> HIDE DEF p
<1>3. /\ p \in Seq(Entry \cup {start}) /\ p # <<>> /\ p[1] = start
      /\ \A i \in 1 .. Len(p) - 1 : p[i] \in Clusters /\ p[i + 1] = fat[p[i]]
  BY <1>1, <1>2, EmptySeq DEF Linked
<1>4. \A i \in 1 .. Len(p) : p[i] \in Clusters
  <2>1. PICK m \in Nat : m = Len(p)
    BY <1>1, <1>2
  <2>2. p[m] \in Clusters
    BY <1>1, <2>1 DEF Last
  <2>3. \A i \in 1 .. m : i = m \/ i \in 1 .. m - 1
    BY <2>1
  <2> QED
    BY <1>3, <2>1, <2>2, <2>3
<1>5. p \in Seq(Clusters)
  <2>1. PICK X : X = Entry \cup {start}
    OBVIOUS
  <2>2. p \in Seq(X)
    BY <1>3, <2>1
  <2>3. Within(p, Clusters)
    BY <1>4 DEF Within
  <2>4. PICK u : u = p
    OBVIOUS
  <2> QED
    BY <2>2, <2>3, <2>4, SeqWithin
<1>6. start \in Clusters
  <2>1. 1 \in 1 .. Len(p)
    BY <1>1, <1>2
  <2> QED
    BY <1>3, <1>4, <2>1
<1> QED
  BY <1>1, <1>3, <1>5, <1>6 DEF p

(* A table that has all the entries of another one, and some more, has its *)
(* chains.                                                                 *)
Extends(fat, tab) == \A x \in Ids : fat[x] # 0 => tab[x] = fat[x]

LEMMA FollowSame ==
    ASSUME NEW fat \in FatTables, NEW tab \in FatTables, Extends(fat, tab),
           NEW start, NEW p \in Linked(fat, start),
           Follow(fat, p) # <<>>, Last(Follow(fat, p)) \in Clusters
    PROVE  p # <<>> /\ Last(p) \in Clusters /\ Follow(tab, p) = Follow(fat, p)
<1>1. p # <<>> /\ Last(p) \in Clusters
  BY DEF Follow
<1>2. PICK c \in Clusters : c = Last(p)
  BY <1>1
<1>3. PICK x : x = fat[c]
  OBVIOUS
<1>4. x # 0
  <2>1. CASE x \in 4088 .. 4095
    BY <2>1
  <2>2. CASE x \notin 4088 .. 4095
    <3>1. Follow(fat, p) = Append(p, x)
      BY <1>1, <1>2, <1>3, <2>2 DEF Follow
    <3>2. PICK Y : Y = Entry \cup {start, x}
      OBVIOUS
    <3>3. p \in Seq(Y)
      <4>1. PICK Z : Z = Entry \cup {start}
        OBVIOUS
      <4>2. p \in Seq(Z)
        BY <4>1 DEF Linked
      <4>3. Z \subseteq Y
        BY <3>2, <4>1
      <4> QED
        BY <4>2, <4>3, SeqMonotonic
    <3>4. x \in Y
      BY <3>2
    <3>5. Last(Append(p, x)) = x
      BY <3>3, <3>4, AppendProperties DEF Last
    <3>6. x \in Clusters
      BY <3>1, <3>5
    <3> QED
      BY <3>6, Sizes0 DEF Clusters
  <2> QED
    BY <2>1, <2>2
<1>5. tab[c] = x
  <2>1. c \in Ids
    BY Sizes0
  <2> QED
    BY <1>3, <1>4, <2>1 DEF Extends
<1> QED
  BY <1>1, <1>2, <1>3, <1>5 DEF Follow

LEMMA WalkSame ==
    ASSUME NEW fat \in FatTables, NEW tab \in FatTables, Extends(fat, tab),
           NEW start, retrieve_sectors_fs(fat, start) # <<>>
    PROVE  retrieve_sectors_fs(tab, start) = retrieve_sectors_fs(fat, start)
<1> DEFINE w == WalkOf(fat, start)
           v == WalkOf(tab, start)
           Here(n) == w[n] # <<>> /\ Last(w[n]) \in Clusters
           S == {n \in Nat : n <= N /\ Here(n) => v[n] = w[n]}
<1>1. /\ w[0] = <<start>> /\ \A n \in 1 .. N : w[n] = Follow(fat, w[n - 1])
      /\ \A n \in 0 .. N : w[n] \in Linked(fat, start)
  BY WalkLinked
<1>2. v[0] = <<start>> /\ \A n \in 1 .. N : v[n] = Follow(tab, v[n - 1])
  BY WalkLinked
<1>n. N \in Nat
  BY Sizes0
<1> HIDE DEF w, v
<1>3. 0 \in S
  BY <1>1, <1>2
<1>4. ASSUME NEW n \in S PROVE n + 1 \in S
  <2>1. SUFFICES ASSUME n + 1 <= N, Here(n + 1) PROVE v[n + 1] = w[n + 1]
    OBVIOUS
  <2>2. n + 1 \in 1 .. N /\ (n + 1) - 1 = n /\ n \in 0 .. N
    BY <1>n, <2>1
  <2>3. /\ w[n + 1] = Follow(fat, w[n]) /\ v[n + 1] = Follow(tab, v[n])
        /\ w[n] \in Linked(fat, start)
    BY <1>1, <1>2, <2>2
  <2>4. Here(n) /\ Follow(tab, w[n]) = Follow(fat, w[n])
    <3>1. PICK p \in Linked(fat, start) : p = w[n]
      BY <2>3
    <3>2. Follow(fat, p) # <<>> /\ Last(Follow(fat, p)) \in Clusters
      BY <2>1, <2>3, <3>1
    <3> QED
      BY <3>1, <3>2, FollowSame
  <2>5. v[n] = w[n]
    BY <2>2, <2>4, <1>n
  <2> QED
    BY <2>3, <2>4, <2>5
<1>5. S \in SUBSET Nat
  OBVIOUS
<1> HIDE DEF S, Here
<1>6. S = Nat
  BY <1>3, <1>4, <1>5, NatSet
<1>7. w[N] # <<>> /\ Last(w[N]) \in Clusters
  BY SectorsAre DEF EndedWalk, w
<1>8. v[N] = w[N]
  <2>1. N \in S /\ N <= N
    BY <1>6, <1>n
  <2> QED
    BY <1>7, <2>1 DEF S, Here
<1> QED
  BY <1>8, SectorsAre DEF w, v

-----------------------------------------------------------------------------
(* What is changed besides the table. *)

(* The disks that have been saved, and those that differ from d only in    *)
(* what is in clusters and in the root directory.                          *)
Saved == {d \in Sound : d.copies = <<d.bytes, d.bytes>>}
Refilled(d) == {e \in Disks : e.fat = d.fat /\ e.bytes = d.bytes /\ e.copies = d.copies}

Datas == [Clusters -> [1 .. K -> Slots]]
Roots == [1 .. R -> Slots]

LEMMA AlocKeeps ==
    ASSUME NEW d \in Sound, NEW start, retrieve_sectors_fs(d.fat, start) # <<>>
    PROVE  LET r == aloc_cluster(d, start) IN
           /\ r.disk \in Sound /\ r.disk.data = d.data /\ r.disk.root = d.root
           /\ d \in Saved => r.disk \in Saved
           /\ r.new = -1 \/ r.new \in Clusters
<1> DEFINE c == Last(retrieve_sectors_fs(d.fat, start))
           new == retrieve_free_index(d)
           r == AlocBehind(d, new, c)
<1>1. d.fat \in FatTables
  BY DEF Sound, Disks, FatTables, Ids
<1>2. c \in Clusters
  BY <1>1, ChainType
<1>3. c \in Clusters /\ EndMark \in Entry
  BY <1>2, Sizes0
<1>4. new = -1 \/ new \in Clusters
  BY FreeIndex
<1>5. aloc_cluster(d, start) = r
  BY DEF aloc_cluster
<1> HIDE DEF c, new
<1>6. CASE new = -1
  BY <1>5, <1>6 DEF AlocBehind
<1>7. CASE new # -1
  <2> DEFINE d1 == SetEntry(d, new, EndMark)
             d2 == SetEntry(d1, c, new)
             d3 == save_fat(d2)
  <2>1. new \in Clusters /\ new \in Entry
    BY <1>4, <1>7, Sizes0
  <2>2. d1 \in Sound /\ d1.data = d.data /\ d1.root = d.root
    BY <1>3, <2>1, SetEntryKeeps
  <2> HIDE DEF d1
  <2>3. d2 \in Sound /\ d2.data = d.data /\ d2.root = d.root
    <3>1. PICK e \in Sound : e = d1
      BY <2>2
    <3>2. PICK i \in Clusters : i = c
      BY <1>3
    <3>3. PICK n \in Entry : n = new
      BY <2>1
    <3>4. SetEntry(e, i, n) \in Sound /\ SetEntry(e, i, n).data = e.data
             /\ SetEntry(e, i, n).root = e.root
      BY SetEntryKeeps
    <3> QED
      BY <2>2, <3>1, <3>2, <3>3, <3>4
  <2> HIDE DEF d2
  <2>4. d3 \in Sound /\ d3.data = d.data /\ d3.root = d.root /\ d3.copies = <<d3.bytes, d3.bytes>>
    BY <2>3, SaveKeeps
  <2>5. r.disk = d3 /\ r.new = new
    BY <1>7 DEF AlocBehind, d1, d2
  <2> QED
    BY <1>5, <2>1, <2>4, <2>5 DEF Saved
<1> QED
  BY <1>6, <1>7

LEMMA Refill ==
    ASSUME NEW d \in Disks
    PROVE  /\ \A x \in Datas : [d EXCEPT !.data = x] \in Refilled(d)
           /\ \A x \in Roots : [d EXCEPT !.root = x] \in Refilled(d)
           /\ d \in Refilled(d)
  BY DEF Disks, Datas, Roots, Refilled

LEMMA RefilledKeeps ==
    ASSUME NEW d, NEW e \in Refilled(d)
    PROVE  /\ e \in Disks /\ e.fat = d.fat
           /\ d \in Sound => e \in Sound
           /\ d \in Saved => e \in Saved
           /\ Refilled(e) \subseteq Refilled(d)
  BY DEF Refilled, Sound, Saved

LEMMA SlotTypes ==
    /\ Zero \in Slots
    /\ \A v \in Values : Datum(v) \in Slots
    /\ \A s \in Slots, n \in 0 .. W - 1 : [s EXCEPT !.size = n] \in Slots
    /\ \A s \in Slots, a \in SUBSET Flags : [s EXCEPT !.attr = a] \in Slots
    /\ \A s \in Slots, i \in Ids : [s EXCEPT !.first = i] \in Slots
<1>1. /\ 0 \in 0 .. W - 1 /\ 0 \in 0 .. N - 1
      /\ <<>> \in Seq(Characters)
  BY Sizes0, EmptySeq
<1> QED
  BY <1>1 DEF Zero, Datum, Slot, Slots, Ids

(* What fills a cluster as a function fills it as a sequence. *)
LEMMA Filled ==
    ASSUME NEW n \in Nat, NEW u
    PROVE  u \in [1 .. n -> Slots] <=> u \in Seq(Slots) /\ Len(u) = n
<1>1. ASSUME u \in [1 .. n -> Slots] PROVE u \in Seq(Slots) /\ Len(u) = n
  BY <1>1
<1>2. ASSUME u \in Seq(Slots), Len(u) = n PROVE u \in [1 .. n -> Slots]
  BY <1>2, LenProperties
<1> QED
  BY <1>1, <1>2

LEMMA WriteKeeps ==
    ASSUME NEW d \in Disks, NEW c, NEW u \in Seq(Slots), Len(u) <= K
    PROVE  write_to_fs(d, c, u) \in Refilled(d)
<1> DEFINE v == u \o SubSeq(d.data[c], Len(u) + 1, K)
           x == [d.data EXCEPT ![c] = v]
<1>1. d.data \in Datas
  BY DEF Disks, Datas
<1>2. write_to_fs(d, c, u) = [d EXCEPT !.data = x]
  BY DEF write_to_fs, Disks
<1>3. ASSUME c \in Clusters PROVE v \in [1 .. K -> Slots]
  <2>1. PICK old \in [1 .. K -> Slots] : old = d.data[c]
    BY <1>1, <1>3 DEF Datas
  <2>2. PICK m \in Nat : m = Len(u)
    BY LenProperties
  <2> DEFINE t == SubSeq(old, m + 1, K)
  <2>3. K \in Nat /\ m <= K
    BY <2>2, Sizes0
  <2>4. \A i \in m + 1 .. K : old[i] \in Slots
    BY <2>3
  <2>5. t \in Seq(Slots) /\ Len(t) = K - m
    <3>1. t \in Seq(Slots) /\ Len(t) = IF m + 1 <= K THEN K - (m + 1) + 1 ELSE 0
      BY <2>3, <2>4, SubSeqProperties
    <3> QED
      BY <2>3, <3>1
  <2> HIDE DEF t
  <2>6. u \o t \in Seq(Slots) /\ Len(u \o t) = Len(u) + Len(t)
    BY <2>5, ConcatProperties
  <2>7. u \o t \in Seq(Slots) /\ Len(u \o t) = K
    BY <2>2, <2>3, <2>5, <2>6
  <2>8. u \o t = v
    BY <2>1, <2>2 DEF t
  <2> QED
    BY <2>3, <2>7, <2>8, Filled
<1> HIDE DEF v
<1>4. x \in Datas
  BY <1>1, <1>3 DEF Datas
<1> QED
  BY <1>2, <1>4, Refill

(* A slot is put where there is one, or nowhere. *)
LEMMA PutKeeps ==
    ASSUME NEW d \in Disks, NEW chain, NEW index \in Int, NEW s,
           GetSlot(d, chain, index) \in Slots => s \in Slots
    PROVE  PutSlot(d, chain, index, s) \in Refilled(d)
<1>1. d.data \in Datas /\ d.root \in Roots
  BY DEF Disks, Datas, Roots
<1>2. CASE chain[1] = Root
  <2> DEFINE x == [d.root EXCEPT ![index + 1] = s]
  <2>1. PutSlot(d, chain, index, s) = [d EXCEPT !.root = x]
    BY <1>2 DEF PutSlot, Disks
  <2>2. index + 1 \in 1 .. R => s \in Slots
    BY <1>1, <1>2 DEF GetSlot, Roots
  <2>3. x \in Roots
    BY <1>1, <2>2 DEF Roots
  <2> QED
    BY <2>1, <2>3, Refill
<1>3. CASE chain[1] # Root
  <2> DEFINE c == chain[(index \div K) + 1]
             j == (index % K) + 1
             x == [d.data EXCEPT ![c] = [d.data[c] EXCEPT ![j] = s]]
  <2>1. PutSlot(d, chain, index, s) = [d EXCEPT !.data = x]
    BY <1>3 DEF PutSlot, Disks
  <2>2. j \in 1 .. K
    <3>1. K \in Nat /\ K > 0
      BY Sizes0
    <3> QED
      BY <3>1
  <2>3. GetSlot(d, chain, index) = d.data[c][j]
    BY <1>3 DEF GetSlot
  <2> HIDE DEF c, j
  <2>4. ASSUME c \in Clusters PROVE s \in Slots
    <3>1. PICK u \in [1 .. K -> Slots] : u = d.data[c]
      BY <1>1, <2>4 DEF Datas
    <3>2. u[j] \in Slots
      BY <2>2
    <3> QED
      BY <2>3, <3>1, <3>2
  <2>5. x \in Datas
    BY <1>1, <2>4 DEF Datas
  <2> QED
    BY <2>1, <2>5, Refill
<1> QED
  BY <1>2, <1>3

-----------------------------------------------------------------------------
(* What is in a directory. *)

LEMMA FromKeeps ==
    ASSUME NEW u \in Seq(Slots), NEW i \in Nat \ {0}
    PROVE  /\ From(u, i) \in Seq(Slots)
           /\ Len(From(u, i)) = IF i <= Len(u) THEN Len(u) - i + 1 ELSE 0
<1>1. PICK m \in Nat : m = Len(u)
  BY LenProperties
<1>2. \A k \in i .. m : u[k] \in Slots
  <2>1. \A k \in i .. m : k \in 1 .. m
    OBVIOUS
  <2> QED
    BY <1>1, <2>1, ElementOfSeq
<1>3. /\ SubSeq(u, i, m) \in Seq(Slots)
      /\ Len(SubSeq(u, i, m)) = IF i <= m THEN m - i + 1 ELSE 0
  BY <1>2, SubSeqProperties
<1> QED
  BY <1>1, <1>3 DEF From

LEMMA DirItems ==
    ASSUME NEW u \in Seq(Slots)
    PROVE  get_dir_items(u) \in Seq(Slots) /\ Len(get_dir_items(u)) <= Len(u)
<1> DEFINE I == {i \in 1 .. Len(u) : u[i] = Zero}
           z == IF I # {} THEN Min(I) ELSE 0
<1>1. PICK m \in Nat : m = Len(u)
  BY LenProperties
<1>2. get_dir_items(u) = IF z = 0 THEN u ELSE SubSeq(u, 1, z - 1)
  BY DEF get_dir_items, SelectInSeq
<1>3. z \in 0 .. m
  <2>1. CASE I = {}
    BY <2>1
  <2>2. CASE I # {}
    <3>1. I \in SUBSET Nat
      BY <1>1
    <3>2. \E i \in I : \A j \in I : i <= j
      BY <2>2, <3>1, Least
    <3>3. Min(I) \in I
      BY <3>2 DEF Min
    <3> QED
      BY <1>1, <2>2, <3>3
  <2> QED
    BY <2>1, <2>2
<1> HIDE DEF z
<1>4. CASE z = 0
  BY <1>1, <1>2, <1>4
<1>5. CASE z # 0
  <2>1. PICK k \in 0 .. m : k = z - 1
    BY <1>3, <1>5
  <2>2. \A i \in 1 .. k : u[i] \in Slots
    <3>1. \A i \in 1 .. k : i \in 1 .. m
      BY <2>1
    <3> QED
      BY <1>1, <3>1, ElementOfSeq
  <2>3. SubSeq(u, 1, k) \in Seq(Slots) /\ Len(SubSeq(u, 1, k)) = IF 1 <= k THEN k ELSE 0
    <3>1. SubSeq(u, 1, k) \in Seq(Slots) /\ Len(SubSeq(u, 1, k)) = IF 1 <= k THEN k - 1 + 1 ELSE 0
      BY <2>2, SubSeqProperties
    <3> QED
      BY <3>1
  <2>4. Len(SubSeq(u, 1, k)) <= m
    BY <2>1, <2>3
  <2>5. get_dir_items(u) = SubSeq(u, 1, k)
    BY <1>2, <1>5, <2>1
  <2> QED
    BY <1>1, <2>3, <2>4, <2>5
<1> QED
  BY <1>4, <1>5

LEMMA IndexIs ==
    ASSUME NEW u \in Seq(Slots), NEW name
    PROVE  IndexOf(u, name) \in 0 .. Len(u)
<1> DEFINE I == {i \in 1 .. Len(u) : NameOf(u[i]) = name}
<1>1. PICK m \in Nat : m = Len(u)
  BY LenProperties
<1>2. IndexOf(u, name) = IF I # {} THEN Min(I) ELSE 0
  BY DEF IndexOf, SelectInSeq
<1>3. CASE I = {}
  BY <1>1, <1>2, <1>3
<1>4. CASE I # {}
  <2>1. I \in SUBSET Nat
    BY <1>1
  <2>2. \E i \in I : \A j \in I : i <= j
    BY <1>4, <2>1, Least
  <2>3. Min(I) \in I
    BY <2>2 DEF Min
  <2> QED
    BY <1>1, <1>2, <1>4, <2>3
<1> QED
  BY <1>3, <1>4

LEMMA FoundIs ==
    ASSUME NEW u \in Seq(Slots), NEW name
    PROVE  Found(u, name) \in Slots \cup {NoItem}
<1>1. PICK j \in 0 .. Len(u) : j = IndexOf(u, name)
  BY IndexIs
<1>2. CASE j = 0
  BY <1>1, <1>2 DEF Found
<1>3. CASE j # 0
  <2>1. j \in 1 .. Len(u)
    BY <1>3, LenProperties
  <2>2. u[j] \in Slots
    BY <2>1, ElementOfSeq
  <2> QED
    BY <1>1, <1>3, <2>2 DEF Found
<1> QED
  BY <1>2, <1>3

(* The items of a directory are gathered cluster by cluster. *)
Gathers(d, chain, g) ==
    g = [i \in 0 .. Len(chain) |->
            IF i = 0 THEN <<>>
            ELSE g[i - 1] \o From(get_dir_items(d.data[chain[i]]), IF i = 1 THEN 3 ELSE 1)]

ItemsOf(d, chain, i) == From(get_dir_items(d.data[chain[i]]), IF i = 1 THEN 3 ELSE 1)

GatheredBy(d, chain, g) ==
    /\ ItemsIn(d, chain) = g[Len(chain)] /\ g[0] = <<>>
    /\ \A i \in 0 .. Len(chain) : g[i] \in Seq(Slots)
    /\ \A i \in 1 .. Len(chain) :
          /\ g[i] = g[i - 1] \o ItemsOf(d, chain, i)
          /\ ItemsOf(d, chain, i) \in Seq(Slots)
          /\ Len(ItemsOf(d, chain, i)) <= IF i = 1 THEN K - 2 ELSE K

LEMMA Gathered ==
    ASSUME NEW d \in Disks, NEW chain \in Seq(Clusters)
    PROVE  \E g : GatheredBy(d, chain, g)
<1> DEFINE m == Len(chain)
           Part1(i) == ItemsOf(d, chain, i)
           D == [u \in Seq(Slots) |-> [i \in 1 .. m |-> u \o Part1(i)]]
           g == CHOOSE h : Gathers(d, chain, h)
<1>1. m \in Nat
  BY LenProperties
<1>2. \A i \in 1 .. m : Part1(i) \in Seq(Slots) /\ Len(Part1(i)) <= IF i = 1 THEN K - 2 ELSE K
  <2> TAKE i \in 1 .. m
  <2>1. chain[i] \in Clusters
    BY ElementOfSeq
  <2>2. K \in Nat /\ K > 1 /\ d.data[chain[i]] \in [1 .. K -> Slots]
    BY <2>1, Sizes0 DEF Disks
  <2>3. d.data[chain[i]] \in Seq(Slots) /\ Len(d.data[chain[i]]) = K
    BY <2>2, Filled
  <2>4. PICK u \in Seq(Slots) : u = get_dir_items(d.data[chain[i]]) /\ Len(u) <= K
    BY <2>3, DirItems
  <2>5. PICK k \in Nat \ {0} : k = IF i = 1 THEN 3 ELSE 1
    OBVIOUS
  <2>6. /\ From(u, k) \in Seq(Slots) /\ Len(u) \in Nat
        /\ Len(From(u, k)) = IF k <= Len(u) THEN Len(u) - k + 1 ELSE 0
    BY FromKeeps, LenProperties
  <2>7. Len(From(u, k)) <= IF i = 1 THEN K - 2 ELSE K
    BY <2>2, <2>4, <2>5, <2>6
  <2> QED
    BY <2>4, <2>5, <2>6, <2>7 DEF ItemsOf
<1>3. \A i \in 0 .. m : i = 0 \/ i \in 1 .. m
  BY <1>1
<1>4. \A h : Gathers(d, chain, h) <=> h = [i \in 0 .. m |-> IF i = 0 THEN <<>> ELSE h[i - 1] \o Part1(i)]
  BY DEF Gathers, ItemsOf
<1>5. ItemsIn(d, chain) = g[m]
  BY DEF ItemsIn, Gathers
<1> HIDE DEF Part1, m, g
<1>6. \A u \in Seq(Slots), i \in 1 .. m : u \o Part1(i) \in Seq(Slots)
  BY <1>2, ConcatProperties
<1>7. PICK X : X = Seq(Slots)
  OBVIOUS
<1>8. D \in [X -> [1 .. m -> X]] /\ \A u \in X, i \in 1 .. m : D[u][i] = u \o Part1(i)
  BY <1>6, <1>7
<1> HIDE DEF D
<1>9. Step(X, m, D, <<>>)
  BY <1>1, <1>7, <1>8, EmptySeq DEF Step
<1>10. PICK f \in [0 .. m -> X] : Along(D, <<>>, m, f)
  BY <1>9, Recursion
<1>11. Gathers(d, chain, f)
  <2>1. f[0] = <<>> /\ \A i \in 1 .. m : f[i] = D[f[i - 1]][i]
    BY <1>10 DEF Along
  <2>2. \A i \in 1 .. m : f[i - 1] \in X /\ f[i] = f[i - 1] \o Part1(i)
    <3> TAKE i \in 1 .. m
    <3>1. i - 1 \in 0 .. m
      BY <1>1
    <3>2. PICK u \in X : u = f[i - 1]
      BY <1>10, <3>1
    <3>3. f[i] = D[u][i]
      BY <2>1, <3>2
    <3> QED
      BY <1>8, <3>2, <3>3
  <2>3. f = [i \in 0 .. m |-> IF i = 0 THEN <<>> ELSE f[i - 1] \o Part1(i)]
    BY <1>3, <1>10, <2>1, <2>2
  <2> QED
    BY <1>4, <2>3
<1>12. Gathers(d, chain, g)
  BY <1>11 DEF g
<1>13. g = [i \in 0 .. m |-> IF i = 0 THEN <<>> ELSE g[i - 1] \o Part1(i)]
  BY <1>4, <1>12
<1>14. g[0] = <<>> /\ \A i \in 1 .. m : g[i] = g[i - 1] \o Part1(i)
  <2>1. 0 \in 0 .. m /\ \A i \in 1 .. m : i \in 0 .. m /\ i # 0
    BY <1>1
  <2> QED
    BY <1>13, <2>1
<1>15. Follows(X, D, <<>>, m, g)
  BY <1>8, <1>14 DEF Follows
<1>16. \A i \in 0 .. m : g[i] \in X
  BY <1>9, <1>15, Stays
<1> QED
  BY <1>2, <1>5, <1>7, <1>14, <1>16 DEF Part1, m, GatheredBy

LEMMA ItemsInAre ==
    ASSUME NEW d \in Disks, NEW chain \in Seq(Clusters)
    PROVE  /\ ItemsIn(d, chain) \in Seq(Slots)
           /\ chain # <<>> => Len(ItemsIn(d, chain)) <= (Len(chain) * K) - 2
<1>1. PICK m \in Nat : m = Len(chain)
  BY LenProperties
<1>2. PICK g : GatheredBy(d, chain, g)
  BY Gathered
<1>5. /\ ItemsIn(d, chain) = g[m] /\ g[0] = <<>>
      /\ \A i \in 0 .. m : g[i] \in Seq(Slots)
      /\ \A i \in 1 .. m : /\ g[i] = g[i - 1] \o ItemsOf(d, chain, i) /\ ItemsOf(d, chain, i) \in Seq(Slots)
                           /\ Len(ItemsOf(d, chain, i)) <= IF i = 1 THEN K - 2 ELSE K
  BY <1>1, <1>2 DEF GatheredBy
<1> DEFINE S == {n \in Nat : n <= m /\ n # 0 => Len(g[n]) <= (n * K) - 2}
<1>17. 0 \in S
  OBVIOUS
<1>18. ASSUME NEW n \in S PROVE n + 1 \in S
  <2>1. SUFFICES ASSUME n + 1 <= m PROVE Len(g[n + 1]) <= ((n + 1) * K) - 2
    OBVIOUS
  <2>2. n + 1 \in 1 .. m /\ (n + 1) - 1 = n /\ n \in 0 .. m /\ n + 1 \in 0 .. m
    BY <1>1, <2>1
  <2>3. PICK u \in Seq(Slots) : u = g[n]
    BY <1>5, <2>2
  <2>4. PICK v \in Seq(Slots) : v = ItemsOf(d, chain, n + 1) /\ Len(v) <= IF n + 1 = 1 THEN K - 2 ELSE K
    BY <1>5, <2>2
  <2>9. g[n + 1] = u \o v
    BY <1>5, <2>2, <2>3, <2>4
  <2>5. g[n + 1] = u \o v /\ Len(u \o v) = Len(u) + Len(v) /\ Len(u) \in Nat /\ Len(v) \in Nat
    BY <2>9, ConcatProperties, LenProperties
  <2>6. K \in Nat /\ (n + 1) * K = (n * K) + K /\ n * K \in Nat
    BY Sizes0
  <2>7. CASE n = 0
    <3>1. u = <<>>
      BY <1>5, <2>3, <2>7
    <3>2. Len(u) = 0
      BY <3>1, EmptySeq
    <3> QED
      BY <2>4, <2>5, <2>6, <2>7, <3>2
  <2>8. CASE n # 0
    <3>1. Len(u) <= (n * K) - 2
      BY <2>2, <2>3, <2>8, <1>1
    <3> QED
      BY <2>2, <2>4, <2>5, <2>6, <2>8, <3>1
  <2> QED
    BY <2>7, <2>8
<1>19. S \in SUBSET Nat
  OBVIOUS
<1> HIDE DEF S
<1>20. S = Nat
  BY <1>17, <1>18, <1>19, NatSet
<1>21. m # 0 => Len(g[m]) <= (m * K) - 2
  <2>1. m \in S /\ m <= m
    BY <1>1, <1>20
  <2> QED
    BY <2>1 DEF S
<1>22. chain # <<>> => m # 0
  BY <1>1, EmptySeq
<1>23. g[m] \in Seq(Slots)
  BY <1>1, <1>5
<1> QED
  BY <1>1, <1>5, <1>21, <1>22, <1>23

LEMMA ChainOf ==
    ASSUME NEW d \in Disks, NEW c
    PROVE  LET p == retrieve_sectors_fs(d.fat, c) IN
           /\ p \in Seq(Clusters) /\ Len(p) \in 0 .. N - 2
           /\ p # <<>> => p[1] = c /\ c \in Clusters /\ Last(p) \in Clusters
<1>1. d.fat \in FatTables
  BY DEF Disks, FatTables, Ids
<1>2. CASE retrieve_sectors_fs(d.fat, c) = <<>>
  BY <1>2, EmptySeq, Sizes0
<1>3. CASE retrieve_sectors_fs(d.fat, c) # <<>>
  BY <1>1, <1>3, ChainType
<1> QED
  BY <1>2, <1>3

LEMMA RootItems ==
    ASSUME NEW d \in Disks
    PROVE  /\ From(get_dir_items(d.root), 2) \in Seq(Slots)
           /\ Len(From(get_dir_items(d.root), 2)) \in 0 .. R - 1
<1>1. R \in Nat /\ R > 0 /\ d.root \in [1 .. R -> Slots]
  BY Sizes0 DEF Disks
<1>2. d.root \in Seq(Slots) /\ Len(d.root) = R
  BY <1>1, Filled
<1>3. PICK u \in Seq(Slots) : u = get_dir_items(d.root) /\ Len(u) <= R
  BY <1>2, DirItems
<1>4. From(u, 2) \in Seq(Slots) /\ Len(From(u, 2)) = IF 2 <= Len(u) THEN Len(u) - 2 + 1 ELSE 0
  <2>1. PICK i \in Nat \ {0} : i = 2
    OBVIOUS
  <2> QED
    BY <2>1, FromKeeps
<1>5. Len(u) \in Nat
  BY LenProperties
<1> QED
  BY <1>1, <1>3, <1>4, <1>5

LEMMA FolderItems ==
    ASSUME NEW d \in Disks, NEW c
    PROVE  /\ retrieve_folders_from_folder(d, c) \in Seq(Slots)
           /\ c = Root => Len(retrieve_folders_from_folder(d, c)) \in 0 .. R - 1
<1>1. CASE c = Root
  BY <1>1, RootItems DEF retrieve_folders_from_folder
<1>2. CASE c # Root
  <2>1. retrieve_sectors_fs(d.fat, c) \in Seq(Clusters)
    BY ChainOf
  <2> QED
    BY <1>2, <2>1, ItemsInAre DEF retrieve_folders_from_folder
<1> QED
  BY <1>1, <1>2

(* A path leads from the root from one item to the next. *)
RootItem == Slot(<<>>, <<>>, {"Volume_ID"}, Root, 0)

Leads(d, path, g) ==
    g = [i \in 0 .. Len(path) |->
            IF i = 0 THEN Slot(<<>>, <<>>, {"Volume_ID"}, Root, 0)
            ELSE LET up == g[i - 1] IN
                 IF up = NoItem THEN NoItem
                 ELSE Found(retrieve_folders_from_folder(d, up.first), path[i])]

NextItem(d, up, name) ==
    IF up = NoItem THEN NoItem ELSE Found(retrieve_folders_from_folder(d, up.first), name)

LedBy(d, path, g) ==
    /\ retrieve_item(d, path) = g[Len(path)] /\ g[0] = RootItem
    /\ \A i \in 1 .. Len(path) : g[i] = NextItem(d, g[i - 1], path[i])
    /\ \A i \in 1 .. Len(path) : g[i] \in Slots \cup {NoItem}

LEMMA Led ==
    ASSUME NEW d \in Disks, NEW path, Len(path) \in Nat
    PROVE  \E g : LedBy(d, path, g)
<1> DEFINE g == CHOOSE h : Leads(d, path, h)
           Y == Slots \cup {NoItem, RootItem}
           D == [up \in Y |-> [i \in 1 .. Len(path) |-> NextItem(d, up, path[i])]]
<1>1. PICK m \in Nat : m = Len(path)
  OBVIOUS
<1>2. retrieve_item(d, path) = g[m]
  BY <1>1 DEF retrieve_item, Leads
<1>3. \A h : Leads(d, path, h) <=>
           h = [i \in 0 .. m |-> IF i = 0 THEN RootItem ELSE NextItem(d, h[i - 1], path[i])]
  BY <1>1 DEF Leads, NextItem, RootItem
<1> HIDE DEF g
<1>4. \A up, name : NextItem(d, up, name) \in Slots \cup {NoItem}
  <2> TAKE up, name
  <2>1. PICK u \in Seq(Slots) : u = retrieve_folders_from_folder(d, up.first)
    BY FolderItems
  <2> QED
    BY <2>1, FoundIs DEF NextItem
<1>5. PICK X : X = Y
  OBVIOUS
<1>6. D \in [X -> [1 .. m -> X]] /\ \A up \in X, i \in 1 .. m : D[up][i] = NextItem(d, up, path[i])
  BY <1>1, <1>4, <1>5
<1>7. RootItem \in X
  BY <1>5
<1>8. Slots \cup {NoItem} \subseteq X
  BY <1>5
<1> HIDE DEF D, Y
<1>9. Step(X, m, D, RootItem)
  BY <1>6, <1>7 DEF Step
<1>10. PICK f \in [0 .. m -> X] : Along(D, RootItem, m, f)
  BY <1>9, Recursion
<1>11. Leads(d, path, f)
  <2>1. f[0] = RootItem /\ \A i \in 1 .. m : f[i] = D[f[i - 1]][i]
    BY <1>10 DEF Along
  <2>2. \A i \in 1 .. m : f[i] = NextItem(d, f[i - 1], path[i])
    <3> TAKE i \in 1 .. m
    <3>1. i - 1 \in 0 .. m
      BY <1>1
    <3>2. PICK u \in X : u = f[i - 1]
      BY <1>10, <3>1
    <3>3. f[i] = D[u][i]
      BY <2>1, <3>2
    <3> QED
      BY <1>6, <3>2, <3>3
  <2>3. \A i \in 0 .. m : i = 0 \/ i \in 1 .. m
    BY <1>1
  <2>4. f = [i \in 0 .. m |-> IF i = 0 THEN RootItem ELSE NextItem(d, f[i - 1], path[i])]
    BY <1>10, <2>1, <2>2, <2>3
  <2> QED
    BY <1>3, <2>4
<1>12. Leads(d, path, g)
  BY <1>11 DEF g
<1>13. g = [i \in 0 .. m |-> IF i = 0 THEN RootItem ELSE NextItem(d, g[i - 1], path[i])]
  BY <1>3, <1>12
<1>14. g[0] = RootItem /\ \A i \in 1 .. m : g[i] = NextItem(d, g[i - 1], path[i])
  <2>1. 0 \in 0 .. m /\ \A i \in 1 .. m : i \in 0 .. m /\ i # 0
    BY <1>1
  <2> QED
    BY <1>13, <2>1
<1> QED
  BY <1>1, <1>2, <1>4, <1>14 DEF LedBy

LEMMA ItemIs ==
    ASSUME NEW d \in Disks, NEW path, Len(path) \in Nat
    PROVE  /\ Len(path) = 0 => retrieve_item(d, path) = RootItem
           /\ Len(path) # 0 => retrieve_item(d, path) \in Slots \cup {NoItem}
<1>1. PICK g : LedBy(d, path, g)
  BY Led
<1>2. Len(path) # 0 => Len(path) \in 1 .. Len(path)
  OBVIOUS
<1> QED
  BY <1>1, <1>2 DEF LedBy

LEMMA SlotAt ==
    ASSUME NEW m \in Nat, NEW i \in 1 .. m * K
    PROVE  ((i - 1) \div K) + 1 \in 1 .. m /\ ((i - 1) % K) + 1 \in 1 .. K
<1>1. K \in Nat /\ K > 0
  BY Sizes0
<1>2. m * K \in Nat
  BY <1>1
<1>3. i - 1 \in Nat /\ i - 1 < m * K
  BY <1>2
<1>4. PICK a \in Nat : a = i - 1
  BY <1>3
<1>5. a \div K \in Nat /\ a % K \in 0 .. K - 1 /\ a \div K < m
  BY <1>1, <1>3, <1>4
<1> QED
  BY <1>4, <1>5, <1>1

LEMMA ContentIs ==
    ASSUME NEW d \in Disks, NEW chain \in Seq(Clusters)
    PROVE  Content(d, chain) \in Seq(Slots) /\ Len(Content(d, chain)) = Len(chain) * K
<1>1. PICK m \in Nat : m = Len(chain)
  BY LenProperties
<1>2. m * K \in Nat
  BY Sizes0
<1>3. d.data \in [Clusters -> [1 .. K -> Slots]]
  BY DEF Disks
<1>4. \A i \in 1 .. m * K : d.data[chain[((i - 1) \div K) + 1]][((i - 1) % K) + 1] \in Slots
  <2> TAKE i \in 1 .. m * K
  <2>1. PICK a \in 1 .. m : a = ((i - 1) \div K) + 1
    BY SlotAt
  <2>2. PICK b \in 1 .. K : b = ((i - 1) % K) + 1
    BY SlotAt
  <2>3. chain[a] \in Clusters
    BY <1>1, ElementOfSeq
  <2>4. d.data[chain[a]][b] \in Slots
    BY <1>3, <2>3
  <2> QED
    BY <2>1, <2>2, <2>4
<1>5. Content(d, chain) \in [1 .. m * K -> Slots]
  BY <1>1, <1>4 DEF Content
<1> QED
  BY <1>1, <1>2, <1>5, Filled

LEMMA ListIs ==
    ASSUME NEW d \in Disks, NEW first
    PROVE  /\ get_os_dir_content(d, first) \in Seq(Slots)
           /\ Len(get_os_dir_content(d, first)) \in 0 .. W - 1
<1>1. /\ N \in Nat /\ N > 2 /\ K \in Nat /\ K > 0 /\ R \in Nat /\ W \in Nat /\ W > R
      /\ W > 2 * N * K
  BY DiskAssumption
<1>2. CASE first = Root
  <2>1. 0 .. R - 1 \subseteq 0 .. W - 1
    BY <1>1
  <2> QED
    BY <1>2, <2>1, RootItems DEF get_os_dir_content
<1>3. CASE first # Root
  <2>1. PICK chain \in Seq(Clusters) : chain = retrieve_sectors_fs(d.fat, first) /\ Len(chain) \in 0 .. N - 2
    BY ChainOf
  <2>2. PICK m \in 0 .. N - 2 : m = Len(chain)
    BY <2>1
  <2>3. PICK u \in Seq(Slots) : u = Content(d, chain) /\ Len(u) = m * K
    BY <2>2, ContentIs
  <2>4. PICK v \in Seq(Slots) : v = get_dir_items(u) /\ Len(v) <= m * K
    BY <2>3, DirItems
  <2>5. From(v, 3) \in Seq(Slots) /\ Len(From(v, 3)) = IF 3 <= Len(v) THEN Len(v) - 3 + 1 ELSE 0
    <3>1. PICK i \in Nat \ {0} : i = 3
      OBVIOUS
    <3> QED
      BY <3>1, FromKeeps
  <2>6. Len(v) \in Nat
    BY LenProperties
  <2>7. m * K \in Nat /\ m * K <= 2 * N * K
    <3>1. m \in Nat /\ m <= 2 * N
      BY <1>1
    <3>2. m * K <= (2 * N) * K
      BY <1>1, <3>1
    <3> QED
      BY <1>1, <3>1, <3>2
  <2>8. Len(From(v, 3)) \in 0 .. W - 1
    <3>1. PICK b \in Nat : b = m * K /\ b < W
      BY <1>1, <2>7
    <3>2. Len(From(v, 3)) \in Nat /\ Len(From(v, 3)) <= b
      BY <2>4, <2>5, <2>6, <3>1
    <3> QED
      BY <1>1, <3>1, <3>2
  <2>9. get_os_dir_content(d, first) = From(v, 3)
    BY <1>3, <2>1, <2>3, <2>4 DEF get_os_dir_content
  <2> QED
    BY <2>5, <2>8, <2>9
<1> QED
  BY <1>2, <1>3

-----------------------------------------------------------------------------
(* Creating a file or a directory. *)

LEMMA NamesKept ==
    ASSUME NEW name \in Seq(Characters)
    PROVE  StoredName(name) \in Seq(Characters) /\ StoredExt(name) \in Seq(Characters)
<1>1. PICK m \in Nat : m = Len(name)
  BY LenProperties
<1>2. CASE Dots(name) = {}
  BY <1>2, EmptySeq DEF StoredName, StoredExt
<1>3. CASE Dots(name) # {}
  <2>1. Dots(name) \in SUBSET (1 .. m)
    BY <1>1 DEF Dots
  <2>2. Dots(name) \in SUBSET (0 .. m)
    BY <2>1
  <2>3. \E i \in Dots(name) : \A j \in Dots(name) : j <= i
    BY <1>3, <2>2, Greatest
  <2>4. LastDot(name) \in Dots(name)
    BY <2>3 DEF LastDot
  <2>5. PICK k \in 1 .. m : k = LastDot(name)
    BY <2>1, <2>4
  <2>6. \A i \in 1 .. m : name[i] \in Characters
    BY <1>1, ElementOfSeq
  <2>7. SubSeq(name, 1, k - 1) \in Seq(Characters)
    <3>1. \A i \in 1 .. k - 1 : i \in 1 .. m
      OBVIOUS
    <3>2. PICK j \in Int : j = k - 1
      OBVIOUS
    <3>3. \A i \in 1 .. j : name[i] \in Characters
      BY <2>6, <3>1, <3>2
    <3> QED
      BY <3>2, <3>3, SubSeqProperties
  <2>8. SubSeq(name, k + 1, m) \in Seq(Characters)
    <3>1. PICK j \in Int : j = k + 1
      OBVIOUS
    <3>2. \A i \in j .. m : i \in 1 .. m
      BY <3>1
    <3>3. \A i \in j .. m : name[i] \in Characters
      BY <2>6, <3>2
    <3> QED
      BY <3>1, <3>3, SubSeqProperties
  <2> QED
    BY <1>1, <1>3, <2>5, <2>7, <2>8 DEF StoredName, StoredExt
<1> QED
  BY <1>2, <1>3

LEMMA ZerosAre ==
    ASSUME NEW n \in Nat
    PROVE  Zeros(n) \in Seq(Slots) /\ Len(Zeros(n)) = n
<1>1. [i \in 1 .. n |-> Zero] \in [1 .. n -> Slots]
  BY SlotTypes
<1>2. PICK u \in Seq(Slots) : u = [i \in 1 .. n |-> Zero] /\ Len(u) = n
  BY <1>1, Filled
<1>3. <<>> \o u = u
  BY ConcatEmptySeq
<1> QED
  BY <1>2, <1>3 DEF Zeros

LEMMA FolderWritten ==
    ASSUME NEW d \in Disks, NEW i \in Ids, NEW upper \in Clusters \cup {Root}
    PROVE  write_folder_into_fs(d, i, upper) \in Refilled(d)
<1> DEFINE s1 == Slot(<<Dot>>, <<>>, {"Directory"}, i, 0)
           up == IF upper = Root THEN 0 ELSE upper
           s2 == Slot(<<Dot, Dot>>, <<>>, {"Hidden", "Volume_ID"}, up, 0)
           u == <<s1, s2>> \o Zeros(K - 2)
           x == [d.data EXCEPT ![i] = u]
<1>1. Dot \in Characters /\ K - 2 \in Nat /\ K \in Nat /\ 0 \in 0 .. W - 1 /\ 0 \in Ids
  BY DiskAssumption, Sizes0 DEF Ids
<1>2. up \in Ids
  BY <1>1, Sizes0
<1> HIDE DEF up
<1>3. <<Dot>> \in Seq(Characters) /\ <<Dot, Dot>> \in Seq(Characters) /\ <<>> \in Seq(Characters)
  BY <1>1
<1>4. s1 \in Slots /\ s2 \in Slots
  BY <1>1, <1>2, <1>3 DEF Slots, Slot, Flags, Ids
<1> HIDE DEF s1, s2
<1>5. PICK v \in Seq(Slots) : v = <<s1, s2>> /\ Len(v) = 2
  <2>1. PICK a \in Slots, b \in Slots : a = s1 /\ b = s2
    BY <1>4
  <2>2. PICK X : X = Slots
    OBVIOUS
  <2>3. <<a, b>> \in Seq(X) /\ Len(<<a, b>>) = 2
    BY <2>1, <2>2
  <2> QED
    BY <2>1, <2>2, <2>3
<1>6. PICK z \in Seq(Slots) : z = Zeros(K - 2) /\ Len(z) = K - 2
  BY <1>1, ZerosAre
<1>7. u \in Seq(Slots) /\ Len(u) = Len(v) + Len(z)
  BY <1>5, <1>6, ConcatProperties
<1>8. Len(u) = K
  BY <1>1, <1>5, <1>6, <1>7
<1>9. u \in [1 .. K -> Slots]
  BY <1>1, <1>7, <1>8, Filled
<1>10. write_folder_into_fs(d, i, upper) = [d EXCEPT !.data = x]
  BY DEF write_folder_into_fs, Disks, s1, s2, up
<1> HIDE DEF u
<1>11. x \in Datas
  BY <1>9 DEF Datas, Disks
<1> QED
  BY <1>10, <1>11, Refill

LEMMA PutItemKeeps ==
    ASSUME NEW d \in Disks, NEW chain, chain[1] \in Clusters \cup {Root}, NEW index \in Int,
           NEW slot \in Slots, slot.first \in Ids, NEW folder
    PROVE  PutItem(d, chain, index, slot, folder) \in Refilled(d)
<1>1. PICK e \in Refilled(d) : e = PutSlot(d, chain, index, slot)
  BY PutKeeps
<1>2. e \in Disks /\ Refilled(e) \subseteq Refilled(d)
  BY RefilledKeeps
<1>3. write_folder_into_fs(e, slot.first, chain[1]) \in Refilled(e)
  BY <1>2, FolderWritten
<1> QED
  BY <1>1, <1>2, <1>3 DEF PutItem

(* The directory that holds an item. *)
Room(d, up) ==
    /\ up.skip \in {1, 2}
    /\ up.chain # <<>> => up.chain[1] \in Clusters \cup {Root}
    /\ up.first # Root => up.skip = 2 /\ up.chain = retrieve_sectors_fs(d.fat, up.first)

LEMMA UpperIs ==
    ASSUME NEW d \in Disks, NEW path
    PROVE  Room(d, Upper(d, path))
<1>1. CASE Len(path) = 1
  BY <1>1 DEF Upper, Room
<1>2. CASE Len(path) # 1
  <2>1. PICK c : c = retrieve_item(d, Front(path)).first
    OBVIOUS
  <2>2. PICK chain : chain = retrieve_sectors_fs(d.fat, c)
    OBVIOUS
  <2>3. chain # <<>> => chain[1] \in Clusters
    BY <2>2, ChainOf
  <2>4. Upper(d, path) = [first |-> c, chain |-> chain, room |-> Len(chain) * K, skip |-> 2]
    BY <1>2, <2>1, <2>2 DEF Upper, UpperAt, UpperOf
  <2> QED
    BY <2>2, <2>3, <2>4 DEF Room
<1> QED
  BY <1>1, <1>2

LEMMA UndoKeeps ==
    ASSUME NEW d \in Sound, NEW i \in Clusters
    PROVE  Undo(d, i) \in Saved
<1>1. 0 \in Entry
  BY DEF Entry
<1>2. PICK e \in Sound : e = SetEntry(d, i, 0)
  BY <1>1, SetEntryKeeps
<1> QED
  BY <1>2, SaveKeeps DEF Undo, Saved

LEMMA CreateKeeps ==
    ASSUME NEW d \in Saved, NEW up, Room(d, up), up.chain # <<>>, NEW slot \in Slots, NEW folder
    PROVE  CreateIn(d, up, retrieve_free_index(d), slot, folder).disk \in Saved
<1>1. d \in Sound /\ d \in Disks
  BY DEF Saved, Sound
<1>2. PICK new : new = retrieve_free_index(d)
  OBVIOUS
<1>3. new = -1 \/ (new \in Clusters /\ d.fat[new] = 0)
  BY <1>1, <1>2, FreeIndex
<1>4. CASE new = -1
  BY <1>2, <1>4 DEF CreateIn
<1>5. CASE new \in Clusters /\ d.fat[new] = 0 /\ new # -1
  <2>1. PICK item \in Slots : item = [slot EXCEPT !.first = new] /\ item.first = new
    <3>1. [slot EXCEPT !.first = new] \in Slots
      BY <1>5, SlotTypes, Sizes0
    <3>2. [slot EXCEPT !.first = new].first = new
      BY DEF Slots
    <3> QED
      BY <3>1, <3>2
  <2>0. item.first \in Ids
    BY <1>5, <2>1, Sizes0
  <2>2. PICK d1 \in Sound : d1 = SetEntry(d, new, EndMark) /\ d1.fat = [d.fat EXCEPT ![new] = EndMark]
    BY <1>1, <1>5, Sizes0, SetEntryKeeps
  <2>3. PICK t \in Saved : t = save_fat(d1) /\ t.fat = d1.fat
    BY SaveKeeps DEF Saved
  <2>4. t \in Sound /\ t \in Disks
    BY DEF Saved, Sound
  <2>5. PICK index \in Int : index = Len(retrieve_folders_from_folder(d, up.first)) + up.skip
    <3>1. PICK u \in Seq(Slots) : u = retrieve_folders_from_folder(d, up.first)
      BY <1>1, FolderItems
    <3>2. Len(u) \in Nat /\ up.skip \in Nat
      BY LenProperties DEF Room
    <3> QED
      BY <3>1, <3>2
  <2>6. PICK chain : chain = up.chain /\ chain[1] \in Clusters \cup {Root}
    BY DEF Room
  <2>7. CreateIn(d, up, new, slot, folder) = CreateAt(t, up, index, item, folder)
    BY <1>5, <2>1, <2>2, <2>3, <2>5 DEF CreateIn
  <2>8. CASE index + 1 <= up.room
    <3>1. PutItem(t, chain, index, item, folder) \in Refilled(t)
      BY <2>1, <2>4, <2>6, <2>0, PutItemKeeps
    <3>2. PutItem(t, chain, index, item, folder) \in Saved
      BY <3>1, RefilledKeeps
    <3> QED
      BY <1>2, <2>6, <2>7, <2>8, <3>2 DEF CreateAt
  <2>9. CASE ~(index + 1 <= up.room) /\ up.first = Root
    BY <1>2, <1>5, <2>1, <2>4, <2>7, <2>9, UndoKeeps DEF CreateAt
  <2>10. CASE ~(index + 1 <= up.room) /\ up.first # Root
    <3> DEFINE grown == aloc_cluster(t, up.first)
    <3>1. chain = retrieve_sectors_fs(d.fat, up.first) /\ chain # <<>>
      BY <2>6, <2>10 DEF Room
    <3>2. d.fat \in FatTables /\ t.fat \in FatTables
      BY <1>1, <2>4 DEF Disks, FatTables, Ids
    <3>3. Extends(d.fat, t.fat)
      <4>1. t.fat = [d.fat EXCEPT ![new] = EndMark]
        BY <2>2, <2>3
      <4> QED
        BY <1>5, <3>2, <4>1 DEF Extends, FatTables
    <3>4. retrieve_sectors_fs(t.fat, up.first) # <<>>
      BY <3>1, <3>2, <3>3, WalkSame
    <3>5. grown.disk \in Saved /\ (grown.new = -1 \/ grown.new \in Ids)
      BY <2>4, <3>4, AlocKeeps, Sizes0
    <3>6. CreateIn(d, up, new, slot, folder) = CreateGrown(t, grown, up, index, item, folder)
      BY <2>7, <2>10 DEF CreateAt
    <3> HIDE DEF grown
    <3>7. CASE grown.new = -1
      BY <1>2, <1>5, <2>1, <2>4, <3>6, <3>7, UndoKeeps DEF CreateGrown
    <3>8. CASE grown.new # -1
      <4> DEFINE more == Append(chain, grown.new)
      <4>1. chain \in Seq(Clusters) /\ Len(chain) \in Nat
        BY <1>1, <3>1, ChainOf, LenProperties
      <4>2. 1 \in 1 .. Len(chain)
        BY <3>1, <4>1, EmptySeq
      <4>3. more[1] = chain[1]
        BY <4>1, <4>2
      <4>4. PICK e \in Saved : e = grown.disk
        BY <3>5
      <4>5. e \in Disks
        BY DEF Saved, Sound
      <4> HIDE DEF more
      <4>6. PutItem(e, more, index, item, folder) \in Refilled(e)
        BY <2>1, <2>6, <2>0, <4>3, <4>5, PutItemKeeps
      <4>7. PutItem(e, more, index, item, folder) \in Saved
        BY <4>6, RefilledKeeps
      <4> QED
        BY <1>2, <2>6, <3>6, <3>8, <4>4, <4>7 DEF CreateGrown, more
    <3> QED
      BY <3>7, <3>8
  <2> QED
    BY <2>8, <2>9, <2>10
<1> QED
  BY <1>3, <1>4, <1>5

LEMMA CreatedKeeps ==
    ASSUME NEW d \in Saved, NEW path \in Paths \ {<<>>}, NEW attr \in SUBSET Flags,
           Upper(d, path).chain # <<>>
    PROVE  create_file(d, path, attr).disk \in Saved /\ create_folder(d, path, attr).disk \in Saved
<1>1. d \in Disks
  BY DEF Saved, Sound
<1>2. Last(path) \in Seq(Characters)
  <2>1. path \in Seq(Seq(Characters)) /\ path # <<>>
    BY FilesAssumption
  <2>2. Len(path) \in 1 .. Len(path)
    BY <2>1, EmptySeq
  <2> QED
    BY <2>1, <2>2, ElementOfSeq DEF Last
<1>3. PICK name \in Seq(Characters) : name = Last(path)
  BY <1>2
<1>4. 0 \in 0 .. N - 1 /\ 0 \in 0 .. W - 1 /\ <<>> \in Seq(Characters)
  BY Sizes0, EmptySeq
<1>5. /\ Slot(name, <<>>, attr, 0, 0) \in Slots
      /\ Slot(StoredName(name), StoredExt(name), attr, 0, 0) \in Slots
  BY <1>4, NamesKept DEF Slot, Slots
<1>6. PICK up : up = Upper(d, path)
  OBVIOUS
<1>7. Room(d, up) /\ up.chain # <<>>
  BY <1>1, <1>6, UpperIs
<1>8. \A slot \in Slots : \A folder : CreateIn(d, up, retrieve_free_index(d), slot, folder).disk \in Saved
  BY <1>7, CreateKeeps
<1> QED
  BY <1>3, <1>5, <1>6, <1>8 DEF create_file, create_folder, CreateItem

-----------------------------------------------------------------------------
(* The entry of a file or a directory is changed. *)

LEMMA EntryIndexIs ==
    ASSUME NEW d \in Disks, NEW up, Room(d, up), NEW path
    PROVE  LET items == retrieve_folders_from_folder(d, up.first) IN
           /\ EntryIndex(d, up, path) \in Int
           /\ EntryIndex(d, up, path) + 1 - up.skip \in 0 .. Len(items)
<1>1. PICK u \in Seq(Slots) : u = retrieve_folders_from_folder(d, up.first)
  BY FolderItems
<1>2. PICK j \in 0 .. Len(u) : j = IndexOf(u, Last(path))
  BY IndexIs
<1>3. up.skip \in Int /\ j \in Int
  BY DEF Room
<1>4. EntryIndex(d, up, path) = j - 1 + up.skip
  BY <1>1, <1>2 DEF EntryIndex
<1>5. EntryIndex(d, up, path) + 1 - up.skip = j /\ EntryIndex(d, up, path) \in Int
  BY <1>3, <1>4
<1> QED
  BY <1>1, <1>2, <1>5

LEMMA SizeUpdated ==
    ASSUME NEW d \in Disks, NEW path, NEW size \in 0 .. W - 1
    PROVE  update_file_size(d, path, size) \in Refilled(d)
<1>1. PICK up : up = Upper(d, path)
  OBVIOUS
<1>2. Room(d, up)
  BY <1>1, UpperIs
<1>3. PICK index \in Int : index = EntryIndex(d, up, path)
  BY <1>2, EntryIndexIs
<1>4. PICK s : s = GetSlot(d, up.chain, index)
  OBVIOUS
<1>5. s \in Slots => [s EXCEPT !.size = size] \in Slots
  BY SlotTypes
<1>6. PutSlot(d, up.chain, index, [s EXCEPT !.size = size]) \in Refilled(d)
  BY <1>4, <1>5, PutKeeps
<1> QED
  BY <1>1, <1>3, <1>4, <1>6 DEF update_file_size, UpdateIn, PutSize

LEMMA AttributeSet ==
    ASSUME NEW d \in Disks, NEW path, NEW attr \in SUBSET Flags
    PROVE  set_file_attribute(d, path, attr).disk \in Refilled(d)
<1>1. PICK up : up = Upper(d, path)
  OBVIOUS
<1>2. Room(d, up)
  BY <1>1, UpperIs
<1>3. PICK u \in Seq(Slots) : u = retrieve_folders_from_folder(d, up.first)
  BY FolderItems
<1>4. PICK j \in 0 .. Len(u) : j = IndexOf(u, Last(path))
  BY IndexIs
<1>5. PICK i \in Int : i = AttributeIndex(d, up, path)
  BY <1>3, <1>4 DEF AttributeIndex
<1>6. set_file_attribute(d, path, attr) = PutAttribute(d, up, i, attr)
  BY <1>1, <1>5 DEF set_file_attribute, SetAttributeIn
<1>7. CASE i = 0
  BY <1>6, <1>7, Refill DEF PutAttribute
<1>8. CASE i # 0
  <2>1. PICK k \in Int : k = i + up.skip
    BY <1>2 DEF Room
  <2>2. PICK s : s = GetSlot(d, up.chain, k)
    OBVIOUS
  <2>3. s \in Slots => [s EXCEPT !.attr = attr] \in Slots
    BY SlotTypes
  <2>4. PutSlot(d, up.chain, k, [s EXCEPT !.attr = attr]) \in Refilled(d)
    BY <2>2, <2>3, PutKeeps
  <2> QED
    BY <1>6, <1>8, <2>1, <2>2, <2>4 DEF PutAttribute
<1> QED
  BY <1>7, <1>8

-----------------------------------------------------------------------------
(* Removal. *)

Releases(d, chain, g) ==
    g = [i \in 0 .. Len(chain) |->
            IF i = 0 THEN d
            ELSE write_to_fs(SetEntry(g[i - 1], chain[i], 0), chain[i], Blank)]

ReleasedBy(d, chain, g) ==
    /\ Release(d, chain) = g[Len(chain)] /\ g[0] = d
    /\ \A i \in 0 .. Len(chain) : g[i] \in Sound
    /\ \A i \in 1 .. Len(chain) :
          g[i] = write_to_fs(SetEntry(g[i - 1], chain[i], 0), chain[i], Blank)

LEMMA Released ==
    ASSUME NEW d \in Sound, NEW chain \in Seq(Clusters)
    PROVE  \E g : ReleasedBy(d, chain, g)
<1> DEFINE m == Len(chain)
           Freed(e, i) == write_to_fs(SetEntry(e, chain[i], 0), chain[i], Blank)
           D == [e \in Sound |-> [i \in 1 .. m |-> Freed(e, i)]]
           g == CHOOSE h : Releases(d, chain, h)
<1>1. m \in Nat
  BY LenProperties
<1>2. \A e \in Sound, i \in 1 .. m : Freed(e, i) \in Sound
  <2> TAKE e \in Sound, i \in 1 .. m
  <2>1. chain[i] \in Clusters
    BY ElementOfSeq
  <2>2. PICK c \in Clusters : c = chain[i]
    BY <2>1
  <2>3. 0 \in Entry
    BY DEF Entry
  <2>4. PICK f \in Sound : f = SetEntry(e, c, 0)
    BY <2>3, SetEntryKeeps
  <2>5. Blank \in Seq(Slots) /\ Len(Blank) <= K
    BY ZerosAre, Sizes0 DEF Blank
  <2>6. f \in Disks
    BY DEF Sound
  <2>7. write_to_fs(f, c, Blank) \in Refilled(f)
    BY <2>5, <2>6, WriteKeeps
  <2>8. write_to_fs(f, c, Blank) \in Sound
    BY <2>7, RefilledKeeps
  <2> QED
    BY <2>2, <2>4, <2>8
<1>3. \A i \in 0 .. m : i = 0 \/ i \in 1 .. m
  BY <1>1
<1>4. \A h : Releases(d, chain, h) <=> h = [i \in 0 .. m |-> IF i = 0 THEN d ELSE Freed(h[i - 1], i)]
  BY DEF Releases
<1>5. Release(d, chain) = g[m]
  BY DEF Release, Releases
<1> HIDE DEF Freed, m, g
<1>6. PICK X : X = Sound
  OBVIOUS
<1>7. D \in [X -> [1 .. m -> X]] /\ \A e \in X, i \in 1 .. m : D[e][i] = Freed(e, i)
  BY <1>2, <1>6
<1> HIDE DEF D
<1>8. Step(X, m, D, d)
  BY <1>1, <1>6, <1>7 DEF Step
<1>9. PICK f \in [0 .. m -> X] : Along(D, d, m, f)
  BY <1>8, Recursion
<1>10. Releases(d, chain, f)
  <2>1. f[0] = d /\ \A i \in 1 .. m : f[i] = D[f[i - 1]][i]
    BY <1>9 DEF Along
  <2>2. \A i \in 1 .. m : f[i] = Freed(f[i - 1], i)
    <3> TAKE i \in 1 .. m
    <3>1. i - 1 \in 0 .. m
      BY <1>1
    <3>2. PICK e \in X : e = f[i - 1]
      BY <1>9, <3>1
    <3>3. f[i] = D[e][i]
      BY <2>1, <3>2
    <3> QED
      BY <1>7, <3>2, <3>3
  <2>3. f = [i \in 0 .. m |-> IF i = 0 THEN d ELSE Freed(f[i - 1], i)]
    BY <1>3, <1>9, <2>1, <2>2
  <2> QED
    BY <1>4, <2>3
<1>11. Releases(d, chain, g)
  BY <1>10 DEF g
<1>12. g = [i \in 0 .. m |-> IF i = 0 THEN d ELSE Freed(g[i - 1], i)]
  BY <1>4, <1>11
<1>13. g[0] = d /\ \A i \in 1 .. m : g[i] = Freed(g[i - 1], i)
  <2>1. 0 \in 0 .. m /\ \A i \in 1 .. m : i \in 0 .. m /\ i # 0
    BY <1>1
  <2> QED
    BY <1>12, <2>1
<1>14. Follows(X, D, d, m, g)
  BY <1>7, <1>13 DEF Follows
<1>15. \A i \in 0 .. m : g[i] \in Sound
  BY <1>6, <1>8, <1>14, Stays
<1>16. ReleasedBy(d, chain, g)
  BY <1>5, <1>13, <1>15 DEF ReleasedBy, m, Freed
<1> QED
  BY <1>16

LEMMA ReleaseKeeps ==
    ASSUME NEW d \in Sound, NEW chain \in Seq(Clusters)
    PROVE  Release(d, chain) \in Sound
<1>1. PICK g : ReleasedBy(d, chain, g)
  BY Released
<1>2. Len(chain) \in 0 .. Len(chain)
  BY LenProperties
<1> QED
  BY <1>1, <1>2 DEF ReleasedBy

(* One slot is taken out and the others move up.  If there is no such slot *)
(* nothing moves.                                                          *)
LEMMA MovedUp ==
    ASSUME NEW n \in Nat, NEW u \in [1 .. n -> Slots], NEW i \in 1 .. n + 1
    PROVE  LET v == Append(RemoveAt(u, i), Zero) IN
           /\ v \in Seq(Slots)
           /\ Len(v) = IF i <= n THEN n ELSE n + 1
<1> DEFINE a == SubSeq(u, 1, i - 1)
           b == SubSeq(u, i + 1, n)
<1>1. u \in Seq(Slots) /\ Len(u) = n
  BY Filled
<1>2. PICK k \in Int : k = i - 1
  OBVIOUS
<1>3. \A j \in 1 .. k : u[j] \in Slots
  <2>1. \A j \in 1 .. k : j \in 1 .. n
    BY <1>2
  <2> QED
    BY <2>1
<1>4. a \in Seq(Slots) /\ Len(a) = i - 1
  <2>1. SubSeq(u, 1, k) \in Seq(Slots) /\ Len(SubSeq(u, 1, k)) = IF 1 <= k THEN k - 1 + 1 ELSE 0
    BY <1>3, SubSeqProperties
  <2> QED
    BY <1>2, <2>1
<1>5. PICK l \in Int : l = i + 1
  OBVIOUS
<1>6. \A j \in l .. n : u[j] \in Slots
  <2>1. \A j \in l .. n : j \in 1 .. n
    BY <1>5
  <2> QED
    BY <2>1
<1>7. b \in Seq(Slots) /\ Len(b) = IF i <= n THEN n - i ELSE 0
  <2>1. SubSeq(u, l, n) \in Seq(Slots) /\ Len(SubSeq(u, l, n)) = IF l <= n THEN n - l + 1 ELSE 0
    BY <1>6, SubSeqProperties
  <2> QED
    BY <1>5, <2>1
<1> HIDE DEF a, b
<1>8. PICK w \in Seq(Slots) : w = a \o b /\ Len(w) = Len(a) + Len(b)
  BY <1>4, <1>7, ConcatProperties
<1>9. Append(w, Zero) \in Seq(Slots) /\ Len(Append(w, Zero)) = Len(w) + 1
  BY SlotTypes, AppendProperties
<1>10. RemoveAt(u, i) = w
  BY <1>1, <1>8 DEF RemoveAt, a, b
<1>11. Len(w) + 1 = IF i <= n THEN n ELSE n + 1
  BY <1>4, <1>7, <1>8
<1> QED
  BY <1>9, <1>10, <1>11

LEMMA EraseInKeeps ==
    ASSUME NEW d \in Disks, NEW chain \in Seq(Clusters), NEW moved \in Seq(Slots),
           Len(chain) * K <= Len(moved)
    PROVE  EraseIn(d, chain, moved) \in Refilled(d)
<1> DEFINE m == Len(chain)
           I(c) == {i \in 1 .. m : chain[i] = c}
           at(c) == IF I(c) # {} THEN Min(I(c)) ELSE 0
           x == [c \in Clusters |-> IF at(c) = 0 THEN d.data[c]
                                    ELSE SubSeq(moved, ((at(c) - 1) * K) + 1, at(c) * K)]
<1>1. m \in Nat /\ K \in Nat /\ K > 1 /\ d.data \in Datas
  BY LenProperties, Sizes0 DEF Disks, Datas
<1>2. ASSUME NEW c \in Clusters PROVE at(c) \in 0 .. m
  <2>1. CASE I(c) = {}
    BY <1>1, <2>1
  <2>2. CASE I(c) # {}
    <3>1. I(c) \in SUBSET Nat
      BY <1>1
    <3>2. \E i \in I(c) : \A j \in I(c) : i <= j
      BY <2>2, <3>1, Least
    <3>3. Min(I(c)) \in I(c)
      BY <3>2 DEF Min
    <3> QED
      BY <1>1, <2>2, <3>3
  <2> QED
    BY <2>1, <2>2
<1>3. EraseIn(d, chain, moved) = [d EXCEPT !.data = x]
  BY DEF EraseIn, SelectInSeq, Disks
<1>4. ASSUME NEW i \in 1 .. m
      PROVE  SubSeq(moved, ((i - 1) * K) + 1, i * K) \in [1 .. K -> Slots]
  <2>1. PICK q \in Nat : q = (i - 1) * K
    BY <1>1
  <2>2. i * K = q + K
    BY <1>1, <2>1
  <2>3. q + K <= Len(moved)
    <3>1. i * K <= m * K
      BY <1>1
    <3>2. m * K \in Nat /\ Len(moved) \in Nat
      BY <1>1, LenProperties
    <3>3. m * K <= Len(moved)
      OBVIOUS
    <3> QED
      BY <2>1, <2>2, <3>1, <3>2, <3>3, <1>1
  <2>4. PICK a \in Int, b \in Int : a = q + 1 /\ b = q + K
    BY <1>1
  <2>5. \A j \in a .. b : moved[j] \in Slots
    <3>1. Len(moved) \in Nat
      BY LenProperties
    <3>2. \A j \in a .. b : j \in 1 .. Len(moved)
      BY <2>1, <2>3, <2>4, <3>1, <1>1
    <3> QED
      BY <3>2, ElementOfSeq
  <2>6. /\ SubSeq(moved, a, b) \in Seq(Slots)
        /\ Len(SubSeq(moved, a, b)) = IF a <= b THEN b - a + 1 ELSE 0
    BY <2>5, SubSeqProperties
  <2>7. Len(SubSeq(moved, a, b)) = K
    BY <1>1, <2>4, <2>6
  <2>8. SubSeq(moved, a, b) \in [1 .. K -> Slots]
    BY <1>1, <2>6, <2>7, Filled
  <2> QED
    BY <2>1, <2>2, <2>4, <2>8
<1> HIDE DEF at, m
<1>5. x \in Datas
  <2>1. ASSUME NEW c \in Clusters PROVE x[c] \in [1 .. K -> Slots]
    <3>1. CASE at(c) = 0
      BY <1>1, <3>1 DEF Datas
    <3>2. CASE at(c) # 0
      <4>1. PICK i \in 1 .. m : i = at(c)
        BY <1>1, <1>2, <3>2
      <4> QED
        BY <1>4, <3>2, <4>1
    <3> QED
      BY <3>1, <3>2
  <2> HIDE DEF x
  <2>2. x = [c \in Clusters |-> x[c]]
    BY DEF x
  <2> QED
    BY <2>1, <2>2 DEF Datas
<1> QED
  BY <1>3, <1>5, Refill

LEMMA UpperFirst ==
    ASSUME NEW d \in Disks, NEW path \in Named, Upper(d, path).first = Root
    PROVE  Upper(d, path).skip = 1
<1>1. path \in Seq(Seq(Characters)) /\ path # <<>>
  BY FilesAssumption DEF Named
<1>2. PICK m \in Nat : m = Len(path) /\ m # 0
  BY <1>1, EmptySeq
<1>3. CASE m = 1
  BY <1>2, <1>3 DEF Upper
<1>4. CASE m # 1
  <2>1. Len(Front(path)) \in Nat /\ Len(Front(path)) # 0
    <3>1. PICK k \in Nat : k = m - 1 /\ k # 0
      BY <1>2, <1>4
    <3>2. \A i \in 1 .. k : path[i] \in Seq(Characters)
      <4>1. \A i \in 1 .. k : i \in 1 .. m
        BY <3>1
      <4> QED
        BY <1>1, <1>2, <4>1, ElementOfSeq
    <3>3. Len(SubSeq(path, 1, k)) = IF 1 <= k THEN k - 1 + 1 ELSE 0
      BY <3>2, SubSeqProperties
    <3>4. Front(path) = SubSeq(path, 1, k)
      BY <1>2, <3>1 DEF Front
    <3> QED
      BY <3>1, <3>3, <3>4
  <2>2. PICK item \in Slots \cup {NoItem} : item = retrieve_item(d, Front(path))
    BY <2>1, ItemIs
  <2>3. item.first # Root
    <3>1. CASE item \in Slots
      <4>1. item.first \in (0 .. N - 1) \cup Values
        BY <3>1 DEF Slots
      <4>2. Root \notin Values /\ \A i \in 0 .. N - 1 : i # Root
        BY DiskAssumption
      <4> QED
        BY <4>1, <4>2
    <3>2. CASE item = NoItem
      BY <3>2, DiskAssumption DEF NoItem, Slot
    <3> QED
      BY <3>1, <3>2
  <2>4. Upper(d, path).first = item.first
    BY <1>2, <1>4, <2>2 DEF Upper, UpperAt, UpperOf
  <2> QED
    BY <2>3, <2>4
<1> QED
  BY <1>3, <1>4

LEMMA EraseKeeps ==
    ASSUME NEW d \in Disks, NEW path \in Named
    PROVE  EraseEntry(d, Upper(d, path), path) \in Refilled(d)
<1>1. PICK up : up = Upper(d, path)
  OBVIOUS
<1>2. Room(d, up) /\ (up.first = Root => up.skip = 1)
  BY <1>1, UpperIs, UpperFirst
<1>3. PICK items \in Seq(Slots) :
          /\ items = retrieve_folders_from_folder(d, up.first)
          /\ up.first = Root => Len(items) \in 0 .. R - 1
  BY FolderItems
<1>4. PICK index \in Int : index = EntryIndex(d, up, path) /\ index + 1 - up.skip \in 0 .. Len(items)
  BY <1>2, <1>3, EntryIndexIs
<1>5. EraseEntry(d, Upper(d, path), path) = EraseSlot(d, up, index)
  BY <1>1, <1>4 DEF EraseEntry
<1>6. CASE up.first = Root
  <2>1. R \in Nat /\ d.root \in [1 .. R -> Slots]
    BY Sizes0 DEF Disks
  <2>2. PICK i \in 1 .. R : i = index + 1
    BY <1>2, <1>3, <1>4, <1>6, <2>1
  <2>3. R <= R /\ i \in 1 .. R + 1 /\ i <= R
    BY <2>1
  <2>4. PICK v \in Seq(Slots) : v = Append(RemoveAt(d.root, i), Zero) /\ Len(v) = R
    BY <2>1, <2>3, MovedUp
  <2>5. v \in Roots
    BY <2>1, <2>4, Filled DEF Roots
  <2>6. [d EXCEPT !.root = v] \in Refilled(d)
    BY <2>5, Refill
  <2>7. EraseSlot(d, up, index) = [d EXCEPT !.root = v]
    BY <1>6, <2>2, <2>4 DEF EraseSlot, Disks
  <2> QED
    BY <1>5, <2>6, <2>7
<1>7. CASE up.first # Root
  <2>1. PICK chain \in Seq(Clusters) : chain = up.chain /\ chain = retrieve_sectors_fs(d.fat, up.first)
    BY <1>2, <1>7, ChainOf DEF Room
  <2>2. PICK m \in Nat : m = Len(chain)
    BY LenProperties
  <2>3. PICK l \in Nat : l = m * K
    BY Sizes0
  <2>4. PICK u \in [1 .. l -> Slots] : u = Content(d, chain)
    BY <2>2, <2>3, ContentIs, Filled
  <2>5. PICK i \in Int : i = index + 1
    OBVIOUS
  <2>6. EraseSlot(d, up, index) = EraseIn(d, chain, Append(RemoveAt(u, i), Zero))
    BY <1>7, <2>1, <2>4, <2>5 DEF EraseSlot
  <2>7. CASE chain = <<>>
    <3>1. EraseIn(d, chain, Append(RemoveAt(u, i), Zero)) = d
      <4>1. Len(chain) = 0
        BY <2>7
      <4>2. \A c : {j \in 1 .. Len(chain) : chain[j] = c} = {}
        BY <4>1
      <4>3. EraseIn(d, chain, Append(RemoveAt(u, i), Zero)) = [d EXCEPT !.data = [c \in Clusters |-> d.data[c]]]
        BY <4>2 DEF EraseIn, SelectInSeq, Disks
      <4>4. d.data = [c \in Clusters |-> d.data[c]]
        BY DEF Disks
      <4> QED
        BY <4>3, <4>4 DEF Disks
    <3> QED
      BY <1>5, <2>6, <3>1, Refill
  <2>8. CASE chain # <<>>
    <3>1. items = ItemsIn(d, chain)
      BY <1>3, <1>7, <2>1 DEF retrieve_folders_from_folder
    <3>2. Len(items) \in Nat /\ Len(items) <= l - 2
      BY <2>2, <2>3, <2>8, <3>1, ItemsInAre, LenProperties
    <3>3. i \in 1 .. l + 1
      BY <1>2, <1>4, <1>7, <2>5, <3>2 DEF Room
    <3>4. PICK v \in Seq(Slots) : v = Append(RemoveAt(u, i), Zero) /\ Len(v) = IF i <= l THEN l ELSE l + 1
      BY <3>3, MovedUp
    <3>5. Len(chain) * K <= Len(v)
      BY <2>2, <2>3, <3>4
    <3>6. EraseIn(d, chain, v) \in Refilled(d)
      BY <3>5, EraseInKeeps
    <3> QED
      BY <1>5, <2>6, <3>4, <3>6
  <2> QED
    BY <2>7, <2>8
<1> QED
  BY <1>6, <1>7

LEMMA RemoveKeeps ==
    ASSUME NEW d \in Saved, NEW path \in Named
    PROVE  rmdir(d, path).disk \in Saved
<1>1. d \in Sound /\ d \in Disks
  BY DEF Saved, Sound
<1>2. PICK item : item = retrieve_item(d, path)
  OBVIOUS
<1>3. PICK chain \in Seq(Clusters) : chain = retrieve_sectors_fs(d.fat, item.first)
  BY <1>1, ChainOf
<1>4. PICK e \in Sound : e = Release(d, chain)
  BY <1>1, ReleaseKeeps
<1>5. PICK f \in Saved : f = save_fat(e)
  BY SaveKeeps DEF Saved
<1>6. f \in Disks
  BY DEF Saved, Sound
<1>7. EraseEntry(f, Upper(f, path), path) \in Saved
  BY <1>6, EraseKeeps, RefilledKeeps
<1>8. RemoveFreed(f, path) \in Saved
  BY <1>7 DEF RemoveFreed
<1> QED
  BY <1>2, <1>3, <1>4, <1>5, <1>8 DEF rmdir, RemoveItem

-----------------------------------------------------------------------------
(* FAT::write. *)

Runs == [disk : Sound, done : Nat, full : BOOLEAN]

LEMMA PartIs ==
    ASSUME NEW whole \in Seq(Slots), NEW i \in 1 .. ClusterCount(Len(whole))
    PROVE  /\ PartOf(whole, i) \in Seq(Slots)
           /\ Len(PartOf(whole, i)) <= K
           /\ ((i - 1) * K) + Len(PartOf(whole, i)) <= Len(whole)
<1>1. PICK l \in Nat : l = Len(whole)
  BY LenProperties
<1>2. K \in Nat /\ K > 1
  BY Sizes0
<1>3. PICK k \in Nat : k = i - 1
  OBVIOUS
<1>4. PICK q \in Nat : q = k * K
  BY <1>2
<1>5. i * K = q + K
  BY <1>2, <1>3, <1>4
<1>6. q < l
  <2>1. PICK c \in Nat : c = (l + K - 1) \div K /\ c * K <= l + K - 1
    <3>0. l + K - 1 \in Nat
      BY <1>2
    <3>1. PICK t \in Nat : t = l + K - 1
      BY <3>0
    <3>2. t \div K \in Nat /\ (t \div K) * K <= t
      BY <1>2, <3>1
    <3> QED
      BY <3>1, <3>2
  <2>2. i <= c
    BY <1>1, <2>1 DEF ClusterCount
  <2>3. i * K <= c * K
    BY <1>2, <2>1, <2>2
  <2>4. PICK b \in Nat : b = c * K
    BY <1>2
  <2> QED
    BY <1>1, <1>2, <1>4, <1>5, <2>1, <2>3, <2>4
<1>7. PICK a \in Int, b \in Int : a = q + 1 /\ b = IF q + K < l THEN q + K ELSE l
  BY <1>1, <1>2, <1>4
<1>8. PartOf(whole, i) = SubSeq(whole, a, b)
  BY <1>1, <1>3, <1>4, <1>5, <1>7 DEF PartOf
<1>9. \A j \in a .. b : whole[j] \in Slots
  <2>1. \A j \in a .. b : j \in 1 .. l
    BY <1>1, <1>4, <1>7
  <2> QED
    BY <1>1, <2>1, ElementOfSeq
<1>10. /\ SubSeq(whole, a, b) \in Seq(Slots)
       /\ Len(SubSeq(whole, a, b)) = IF a <= b THEN b - a + 1 ELSE 0
  BY <1>9, SubSeqProperties
<1>11. Len(SubSeq(whole, a, b)) <= K /\ q + Len(SubSeq(whole, a, b)) <= l
  <2>1. CASE q + K < l
    <3>1. b = q + K /\ a <= b
      BY <1>2, <1>7, <2>1
    <3>2. Len(SubSeq(whole, a, b)) = K
      BY <1>2, <1>7, <1>10, <3>1
    <3> QED
      BY <1>2, <2>1, <3>2
  <2>2. CASE ~(q + K < l)
    <3>1. b = l /\ a <= b
      BY <1>6, <1>7, <2>2
    <3>2. Len(SubSeq(whole, a, b)) = l - q
      BY <1>7, <1>10, <3>1
    <3> QED
      BY <1>2, <2>2, <3>2
  <2> QED
    BY <2>1, <2>2
<1> QED
  BY <1>1, <1>3, <1>4, <1>8, <1>10, <1>11

LEMMA PutPartKeeps ==
    ASSUME NEW r \in Runs, NEW d \in Sound, NEW c, NEW part \in Seq(Slots), Len(part) <= K
    PROVE  /\ PutPart(r, d, c, part) \in Runs
           /\ PutPart(r, d, c, part).done = r.done + Len(part)
<1>1. d \in Disks
  BY DEF Sound
<1>2. PICK e \in Sound : e = write_to_fs(d, c, part)
  BY <1>1, WriteKeeps, RefilledKeeps
<1>3. PICK l \in Nat : l = Len(part)
  BY LenProperties
<1>4. PutPart(r, d, c, part) = [r EXCEPT !.disk = e, !.done = r.done + l]
  BY <1>2, <1>3 DEF PutPart, Runs
<1>5. r.done + l \in Nat
  BY DEF Runs
<1> QED
  BY <1>3, <1>4, <1>5 DEF Runs

LEMMA WritePartKeeps ==
    ASSUME NEW r \in Runs, NEW nums \in Seq(Clusters), nums # <<>>, NEW n,
           NEW part \in Seq(Slots), Len(part) <= K
    PROVE  /\ WritePart(r, nums, n, part) \in Runs
           /\ WritePart(r, nums, n, part).done \in {r.done, r.done + Len(part)}
<1>1. PICK d \in Sound : d = r.disk
  BY DEF Runs
<1>2. CASE r.full
  BY <1>2 DEF WritePart
<1>3. CASE ~r.full /\ n <= Len(nums)
  <2>1. WritePart(r, nums, n, part) = PutPart(r, d, nums[n], part)
    BY <1>1, <1>3 DEF WritePart
  <2> QED
    BY <2>1, PutPartKeeps
<1>4. CASE ~r.full /\ ~(n <= Len(nums))
  <2>1. PICK back \in Clusters : back = Last(nums)
    <3>1. Len(nums) \in 1 .. Len(nums)
      BY EmptySeq
    <3> QED
      BY <3>1, ElementOfSeq DEF Last
  <2>2. PICK new : new = retrieve_free_index(d) /\ (new = -1 \/ new \in Clusters)
    BY FreeIndex
  <2>3. WritePart(r, nums, n, part) = PutNew(r, new, back, part)
    BY <1>1, <1>4, <2>1, <2>2 DEF WritePart
  <2>4. CASE new = -1
    BY <2>3, <2>4 DEF PutNew, Runs
  <2>5. CASE new # -1
    <3>1. new \in Clusters /\ new \in Entry /\ EndMark \in Entry
      BY <2>2, <2>5, Sizes0
    <3>2. PICK d1 \in Sound : d1 = SetEntry(d, back, new)
      BY <3>1, SetEntryKeeps
    <3>3. PICK d2 \in Sound : d2 = SetEntry(d1, new, EndMark)
      BY <3>1, SetEntryKeeps
    <3>4. WritePart(r, nums, n, part) = PutPart(r, d2, new, part)
      BY <1>1, <2>3, <2>5, <3>2, <3>3 DEF PutNew
    <3> QED
      BY <3>4, PutPartKeeps
  <2> QED
    BY <2>4, <2>5
<1> QED
  BY <1>2, <1>3, <1>4

Writes(d, nums, sector, whole, g) ==
    g = [i \in 0 .. ClusterCount(Len(whole)) |->
            IF i = 0 THEN [disk |-> d, done |-> 0, full |-> FALSE]
            ELSE WritePart(g[i - 1], nums, sector + i, PartOf(whole, i))]

StartRun(d) == [disk |-> d, done |-> 0, full |-> FALSE]
WrittenBy(d, nums, sector, whole, m, g) ==
    /\ m \in Nat /\ m = ClusterCount(Len(whole))
    /\ WriteParts(d, nums, sector, whole) = g[m] /\ g[0] = StartRun(d)
    /\ \A i \in 0 .. m : g[i] \in Runs
    /\ \A i \in 1 .. m : g[i] = WritePart(g[i - 1], nums, sector + i, PartOf(whole, i))

LEMMA RunsAre ==
    ASSUME NEW d \in Sound, NEW nums \in Seq(Clusters), nums # <<>>, NEW sector \in Nat,
           NEW whole \in Seq(Slots)
    PROVE  \E g, m : WrittenBy(d, nums, sector, whole, m, g)
<1> DEFINE m == ClusterCount(Len(whole))
           first == [disk |-> d, done |-> 0, full |-> FALSE]
           Go(r, i) == WritePart(r, nums, sector + i, PartOf(whole, i))
           D == [r \in Runs |-> [i \in 1 .. m |-> Go(r, i)]]
           g == CHOOSE h : Writes(d, nums, sector, whole, h)
<1>k. K \in Nat /\ K > 1 /\ Len(whole) \in Nat
  BY Sizes0, LenProperties
<1>1. m \in Nat
  <2>0. PICK l \in Nat : l = Len(whole)
    BY <1>k
  <2>4. l + K - 1 \in Nat
    BY <1>k
  <2>1. PICK t \in Nat : t = Len(whole) + K - 1
    BY <2>0, <2>4
  <2>2. t \div K \in Nat
    BY <1>k, <2>1
  <2> QED
    BY <2>1, <2>2 DEF ClusterCount
<1>2. \A r \in Runs, i \in 1 .. m :
          /\ Go(r, i) \in Runs
          /\ Go(r, i).done \in {r.done, r.done + Len(PartOf(whole, i))}
  <2> TAKE r \in Runs, i \in 1 .. m
  <2>1. PICK part \in Seq(Slots) : part = PartOf(whole, i) /\ Len(part) <= K
    BY PartIs
  <2>2. PICK n : n = sector + i
    OBVIOUS
  <2> QED
    BY <2>1, <2>2, WritePartKeeps
<1>3. \A i \in 0 .. m : i = 0 \/ i \in 1 .. m
  BY <1>1
<1>4. \A h : Writes(d, nums, sector, whole, h) <=> h = [i \in 0 .. m |-> IF i = 0 THEN first ELSE Go(h[i - 1], i)]
  BY DEF Writes
<1>5. WriteParts(d, nums, sector, whole) = g[m]
  BY DEF WriteParts, Writes
<1>6. first \in Runs /\ first.done = 0
  BY DEF Runs
<1>p. \A i \in 1 .. m : /\ PartOf(whole, i) \in Seq(Slots)
                        /\ ((i - 1) * K) + Len(PartOf(whole, i)) <= Len(whole)
                        /\ Len(PartOf(whole, i)) <= K
  BY PartIs
<1> HIDE DEF Go, first, m, g
<1>7. PICK X : X = Runs
  OBVIOUS
<1>8. D \in [X -> [1 .. m -> X]] /\ \A r \in X, i \in 1 .. m : D[r][i] = Go(r, i)
  BY <1>2, <1>7
<1> HIDE DEF D
<1>9. Step(X, m, D, first)
  BY <1>1, <1>6, <1>7, <1>8 DEF Step
<1>10. PICK f \in [0 .. m -> X] : Along(D, first, m, f)
  BY <1>9, Recursion
<1>11. Writes(d, nums, sector, whole, f)
  <2>1. f[0] = first /\ \A i \in 1 .. m : f[i] = D[f[i - 1]][i]
    BY <1>10 DEF Along
  <2>2. \A i \in 1 .. m : f[i] = Go(f[i - 1], i)
    <3> TAKE i \in 1 .. m
    <3>1. i - 1 \in 0 .. m
      BY <1>1
    <3>2. PICK r \in X : r = f[i - 1]
      BY <1>10, <3>1
    <3>3. f[i] = D[r][i]
      BY <2>1, <3>2
    <3> QED
      BY <1>8, <3>2, <3>3
  <2>3. f = [i \in 0 .. m |-> IF i = 0 THEN first ELSE Go(f[i - 1], i)]
    BY <1>3, <1>10, <2>1, <2>2
  <2> QED
    BY <1>4, <2>3
<1>12. Writes(d, nums, sector, whole, g)
  BY <1>11 DEF g
<1>13. g = [i \in 0 .. m |-> IF i = 0 THEN first ELSE Go(g[i - 1], i)]
  BY <1>4, <1>12
<1>14. g[0] = first /\ \A i \in 1 .. m : g[i] = Go(g[i - 1], i)
  <2>1. 0 \in 0 .. m /\ \A i \in 1 .. m : i \in 0 .. m /\ i # 0
    BY <1>1
  <2> QED
    BY <1>13, <2>1
<1>15. Follows(X, D, first, m, g)
  BY <1>8, <1>14 DEF Follows
<1>16. \A i \in 0 .. m : g[i] \in Runs
  BY <1>7, <1>9, <1>15, Stays
<1>17. WrittenBy(d, nums, sector, whole, m, g)
  BY <1>1, <1>5, <1>14, <1>16 DEF WrittenBy, StartRun, first, Go, m
<1> QED
  BY <1>17

LEMMA PartsWritten ==
    ASSUME NEW d \in Sound, NEW nums \in Seq(Clusters), nums # <<>>, NEW sector \in Nat,
           NEW whole \in Seq(Slots)
    PROVE  /\ WriteParts(d, nums, sector, whole) \in Runs
           /\ WriteParts(d, nums, sector, whole).done <= Len(whole)
<1>0. PICK g, m : WrittenBy(d, nums, sector, whole, m, g)
  BY RunsAre
<1>1. m \in Nat /\ m = ClusterCount(Len(whole))
  BY <1>0 DEF WrittenBy
<1>5. WriteParts(d, nums, sector, whole) = g[m]
  BY <1>0 DEF WrittenBy
<1>14. g[0] = StartRun(d) /\ \A i \in 1 .. m : g[i] = WritePart(g[i - 1], nums, sector + i, PartOf(whole, i))
  BY <1>0 DEF WrittenBy
<1>16. \A i \in 0 .. m : g[i] \in Runs
  BY <1>0 DEF WrittenBy
<1>6. StartRun(d).done = 0
  BY DEF StartRun
<1>k. K \in Nat /\ K > 1 /\ Len(whole) \in Nat
  BY Sizes0, LenProperties
<1>p. \A i \in 1 .. m : /\ PartOf(whole, i) \in Seq(Slots)
                        /\ ((i - 1) * K) + Len(PartOf(whole, i)) <= Len(whole)
                        /\ Len(PartOf(whole, i)) <= K
  BY <1>1, PartIs
<1>2. \A r \in Runs, i \in 1 .. m :
          WritePart(r, nums, sector + i, PartOf(whole, i)).done
            \in {r.done, r.done + Len(PartOf(whole, i))}
  <2> TAKE r \in Runs, i \in 1 .. m
  <2>1. PICK part \in Seq(Slots) : part = PartOf(whole, i) /\ Len(part) <= K
    BY <1>p
  <2>2. PICK n : n = sector + i
    OBVIOUS
  <2> QED
    BY <2>1, <2>2, WritePartKeeps
<1> DEFINE S == {n \in Nat : n <= m => g[n].done <= n * K /\ g[n].done <= Len(whole)}
<1>17. 0 \in S
  BY <1>6, <1>14, <1>k
<1>18. ASSUME NEW n \in S PROVE n + 1 \in S
  <2>1. SUFFICES ASSUME n + 1 <= m
                 PROVE  g[n + 1].done <= (n + 1) * K /\ g[n + 1].done <= Len(whole)
    OBVIOUS
  <2>2. n \in Nat /\ n + 1 \in 1 .. m /\ (n + 1) - 1 = n /\ n \in 0 .. m /\ n <= m
    BY <1>1, <2>1
  <2>3. PICK r \in Runs : r = g[n]
    BY <1>16, <2>2
  <2>4. PICK l \in Nat : l = Len(PartOf(whole, n + 1)) /\ (n * K) + l <= Len(whole) /\ l <= K
    BY <1>p, <2>2, LenProperties
  <2>5. g[n + 1].done \in {r.done, r.done + l}
    BY <1>2, <1>14, <2>2, <2>3, <2>4
  <2>6. r.done \in Nat /\ r.done <= n * K /\ r.done <= Len(whole)
    BY <2>2, <2>3 DEF Runs
  <2>7. PICK q \in Nat : q = n * K /\ (n + 1) * K = q + K
    BY <1>k, <2>2
  <2> QED
    BY <1>k, <2>4, <2>5, <2>6, <2>7
<1>19. S \in SUBSET Nat
  OBVIOUS
<1> HIDE DEF S
<1>20. S = Nat
  BY <1>17, <1>18, <1>19, NatSet
<1>21. m \in S /\ m <= m /\ m \in 0 .. m
  BY <1>1, <1>20
<1>22. g[m].done <= Len(whole)
  BY <1>21 DEF S
<1> QED
  BY <1>5, <1>16, <1>21, <1>22

(* What a write of n slots at offset returns. *)
Written(r) == r.disk \in Saved /\ r.size \in 0 .. W - 1 /\ r.written \in Int

LEMMA WriteEndKeeps ==
    ASSUME NEW f, NEW offset \in Nat, NEW n \in Nat, offset + n < W, NEW r \in Runs,
           r.done <= (offset % K) + n
    PROVE  Written(WriteEnd(f, offset, r))
<1>1. K \in Nat /\ K > 1 /\ W \in Nat
  BY Sizes0
<1>2. PICK m \in Nat : m = offset % K /\ m <= offset
  <2>1. offset % K \in Nat /\ offset % K <= offset
    BY <1>1
  <2> QED
    BY <2>1
<1>3. PICK done \in Int : done = r.done - (offset % K)
  BY <1>2 DEF Runs
<1>4. PICK end \in 0 .. W - 1 : end = offset + done
  <2>1. r.done \in Nat /\ r.done <= m + n
    BY <1>2 DEF Runs
  <2>2. offset + done \in 0 .. W - 1
    BY <1>1, <1>2, <1>3, <2>1
  <2> QED
    BY <2>2
<1>5. PICK d \in Saved : d = save_fat(r.disk)
  BY SaveKeeps DEF Saved, Runs
<1>6. d \in Disks
  BY DEF Saved, Sound
<1>7. update_file_size(d, f.path, end) \in Saved
  BY <1>6, SizeUpdated, RefilledKeeps
<1>8. /\ WriteEnd(f, offset, r).disk \in {d, update_file_size(d, f.path, end)}
      /\ WriteEnd(f, offset, r).written \in {0, done}
      /\ WriteEnd(f, offset, r).size = end
  BY <1>3, <1>4, <1>5 DEF WriteEnd
<1> QED
  BY <1>5, <1>7, <1>8 DEF Written

LEMMA WriteIntoKeeps ==
    ASSUME NEW d \in Sound, NEW f, NEW offset \in Nat, NEW buf \in Seq(Slots),
           offset + Len(buf) < W, NEW nums \in Seq(Clusters), nums # <<>>,
           NEW sector \in Nat, sector + 1 \in 1 .. Len(nums)
    PROVE  Written(WriteInto(d, f, offset, buf, nums, sector))
<1>1. K \in Nat /\ K > 1
  BY Sizes0
<1>2. PICK m \in Nat : m = offset % K /\ m < K
  <2>1. offset % K \in Nat /\ offset % K < K
    BY <1>1
  <2> QED
    BY <2>1
<1>3. PICK n \in Nat : n = Len(buf)
  BY LenProperties
<1>4. PICK old \in [1 .. K -> Slots] : old = d.data[nums[sector + 1]]
  <2>1. nums[sector + 1] \in Clusters
    BY ElementOfSeq
  <2> QED
    BY <2>1 DEF Sound, Disks
<1>5. PICK a \in Seq(Slots) : a = SubSeq(old, 1, m) /\ Len(a) = m
  <2>1. \A i \in 1 .. m : old[i] \in Slots
    <3>1. \A i \in 1 .. m : i \in 1 .. K
      BY <1>1, <1>2
    <3> QED
      BY <3>1
  <2>2. SubSeq(old, 1, m) \in Seq(Slots) /\ Len(SubSeq(old, 1, m)) = IF 1 <= m THEN m - 1 + 1 ELSE 0
    BY <2>1, SubSeqProperties
  <2>3. Len(SubSeq(old, 1, m)) = m
    BY <2>2
  <2> QED
    BY <2>2, <2>3
<1>6. PICK whole \in Seq(Slots) : whole = a \o buf /\ Len(whole) = m + n
  <2>1. a \o buf \in Seq(Slots) /\ Len(a \o buf) = Len(a) + Len(buf)
    BY ConcatProperties
  <2> QED
    BY <1>3, <1>5, <2>1
<1>7. PICK r \in Runs : r = WriteParts(d, nums, sector, whole) /\ r.done <= m + n
  BY <1>6, PartsWritten
<1>8. r.done <= (offset % K) + n /\ offset + n < W
  BY <1>2, <1>3, <1>7
<1>9. Written(WriteEnd(f, offset, r))
  BY <1>8, WriteEndKeeps
<1> QED
  BY <1>2, <1>4, <1>5, <1>6, <1>7, <1>9 DEF WriteInto

LEMMA FatWriteKeeps ==
    ASSUME NEW d \in Saved, NEW f, f.size \in 0 .. W - 1, NEW offset \in 0 .. W - 1,
           NEW buf \in Seq(Slots), Len(buf) + (N * K) <= W
    PROVE  Written(FatWrite(d, f, offset, buf))
<1>1. d \in Sound /\ d \in Disks
  BY DEF Saved, Sound
<1>2. /\ K \in Nat /\ K > 1 /\ N \in Nat /\ N > 2 /\ W \in Nat /\ Len(buf) \in Nat
      /\ offset \in Nat
  BY Sizes0, LenProperties
<1>3. \A error : Written(NotWritten(d, f, error))
  BY DEF Written, NotWritten
<1>4. PICK chain \in Seq(Clusters) :
          /\ chain = retrieve_sectors_fs(d.fat, f.first)
          /\ Len(chain) \in 0 .. N - 2
  BY <1>1, ChainOf
<1>5. PICK m \in 0 .. N - 2 : m = Len(chain)
  BY <1>4
<1>6. PICK sector \in Nat : sector = SectorOf(offset) /\ offset < (sector * K) + K
  <2>1. offset \div K \in Nat /\ offset < ((offset \div K) * K) + K
    BY <1>2
  <2> QED
    BY <2>1 DEF SectorOf
<1>7. ASSUME sector <= m PROVE offset + Len(buf) < W
  <2>1. PICK a \in Nat : a = sector * K
    BY <1>2
  <2>2. PICK b \in Nat : b = N * K
    BY <1>2
  <2>3. a + K <= b
    <3>1. sector + 1 <= N
      BY <1>2, <1>7
    <3>2. (sector + 1) * K <= N * K
      BY <1>2, <3>1
    <3> QED
      BY <1>2, <2>1, <2>2, <3>2
  <2>4. Len(buf) + b <= W
    BY <2>2
  <2>5. offset < a + K
    BY <1>6, <2>1
  <2>6. PICK n \in Nat : n = Len(buf)
    BY <1>2
  <2>7. n + b <= W /\ offset < b
    BY <1>2, <2>3, <2>4, <2>5, <2>6
  <2> QED
    BY <1>2, <2>6, <2>7
<1>8. CASE offset > f.size
  BY <1>3, <1>8 DEF FatWrite
<1>9. CASE ~(offset > f.size) /\ chain = <<>>
  BY <1>3, <1>4, <1>9 DEF FatWrite, WriteBehind
<1>10. CASE ~(offset > f.size) /\ chain # <<>> /\ sector < Len(chain)
  <2>1. sector + 1 \in 1 .. Len(chain) /\ sector <= m
    BY <1>5, <1>10
  <2>2. Written(WriteInto(d, f, offset, buf, chain, sector))
    BY <1>1, <1>2, <1>7, <1>10, <2>1, WriteIntoKeeps
  <2> QED
    BY <1>4, <1>6, <1>10, <2>2 DEF FatWrite, WriteBehind
<1>11. CASE ~(offset > f.size) /\ chain # <<>> /\ ~(sector < Len(chain))
  <2>1. PICK grown : grown = aloc_cluster(d, f.first)
    OBVIOUS
  <2>2. grown.disk \in Sound /\ (grown.new = -1 \/ grown.new \in Clusters)
    BY <1>1, <1>4, <1>11, <2>1, AlocKeeps
  <2>3. FatWrite(d, f, offset, buf) = WriteGrown(grown, d, f, offset, buf, chain, sector)
    BY <1>4, <1>6, <1>11, <2>1 DEF FatWrite, WriteBehind
  <2>4. CASE grown.new = -1 \/ sector > Len(chain)
    BY <1>3, <2>3, <2>4 DEF WriteGrown
  <2>5. CASE grown.new # -1 /\ ~(sector > Len(chain))
    <3>1. PICK e \in Sound, new \in Clusters : e = grown.disk /\ new = grown.new
      BY <2>2, <2>5
    <3>2. PICK nums \in Seq(Clusters) : nums = Append(chain, new) /\ nums # <<>> /\ Len(nums) = m + 1
      BY <1>5, AppendProperties
    <3>3. sector + 1 \in 1 .. Len(nums) /\ sector <= m
      BY <1>5, <2>5, <3>2
    <3>4. Written(WriteInto(e, f, offset, buf, nums, sector))
      BY <1>2, <1>7, <3>2, <3>3, WriteIntoKeeps
    <3> QED
      BY <2>3, <2>5, <3>1, <3>2, <3>4 DEF WriteGrown
  <2> QED
    BY <2>4, <2>5
<1> QED
  BY <1>8, <1>9, <1>10, <1>11

-----------------------------------------------------------------------------
(* The system calls. *)

Firsts == Ids \cup Values \cup {-1, Root}
Opened ==
    {f \in [path : Named \cup {<<>>}, first : Firsts, attr : SUBSET Flags, pos : 0 .. W - 1,
            size : 0 .. W - 1, stale : BOOLEAN, touched : BOOLEAN] :
        f.path = <<>> => "Volume_ID" \in f.attr}

(* The inductive invariant: what every call finds and leaves. *)
FilesInv ==
    /\ disk \in Saved
    /\ file \in [Handles -> Opened \cup {Closed}]
    /\ tainted \subseteq Named

LEMMA Wrapped ==
    ASSUME NEW n \in Int
    PROVE  Wrap(n) \in 0 .. W - 1
<1>1. W \in Nat /\ W > 0
  BY Sizes0
<1>2. n % W \in 0 .. W - 1
  BY <1>1
<1> QED
  BY <1>2 DEF Wrap

LEMMA PathsAre ==
    ASSUME NEW path \in Paths
    PROVE  Len(DropDot(path)) \in Nat /\ Len(path) \in Nat /\ (path = <<>> <=> Len(path) = 0)
<1>1. path \in Seq(Seq(Characters))
  BY FilesAssumption
<1>2. PICK m \in Nat : m = Len(path)
  BY <1>1, LenProperties
<1>3. path = <<>> <=> m = 0
  BY <1>1, <1>2, EmptySeq
<1>4. CASE DropDot(path) = path
  BY <1>2, <1>3, <1>4
<1>5. CASE DropDot(path) # path
  <2>1. DropDot(path) = Front(path) /\ path # <<>>
    BY <1>5 DEF DropDot
  <2>2. PICK k \in Nat : k = m - 1
    BY <1>3, <2>1
  <2>3. \A i \in 1 .. k : path[i] \in Seq(Characters)
    <3>1. \A i \in 1 .. k : i \in 1 .. m
      BY <2>2
    <3> QED
      BY <1>1, <1>2, <3>1, ElementOfSeq
  <2>4. Len(SubSeq(path, 1, k)) = IF 1 <= k THEN k - 1 + 1 ELSE 0
    BY <2>3, SubSeqProperties
  <2>5. Len(SubSeq(path, 1, k)) \in Nat
    BY <2>4
  <2>6. DropDot(path) = SubSeq(path, 1, k)
    BY <1>2, <2>1, <2>2 DEF Front
  <2> QED
    BY <1>2, <1>3, <2>5, <2>6
<1> QED
  BY <1>4, <1>5

(* An item of a path that is looked for as open does. *)
LEMMA ItemOf ==
    ASSUME NEW d \in Disks, NEW path \in Paths
    PROVE  /\ retrieve_item(d, DropDot(path)) \in Slots \cup {NoItem, RootItem}
           /\ path = <<>> => retrieve_item(d, DropDot(path)) = RootItem
<1>1. PICK p : p = DropDot(path) /\ Len(p) \in Nat
  BY PathsAre
<1>2. retrieve_item(d, p) \in Slots \cup {NoItem, RootItem}
  BY <1>1, ItemIs
<1>3. ASSUME path = <<>> PROVE retrieve_item(d, p) = RootItem
  <2>1. p = <<>>
    BY <1>1, <1>3 DEF DropDot
  <2>2. Len(p) = 0
    BY <2>1
  <2> QED
    BY <1>1, <2>2, ItemIs
<1> QED
  BY <1>1, <1>2, <1>3

LEMMA FileOpened ==
    ASSUME NEW d \in Disks, NEW path \in Named \cup {<<>>}, NEW item,
           item.first \in Firsts, item.attr \in SUBSET Flags, item.size \in 0 .. W - 1,
           path = <<>> => "Volume_ID" \in item.attr
    PROVE  NewFile(path, item, d) \in Opened
<1>1. PICK size \in 0 .. W - 1 :
          size = IF IsFolder(item.attr) THEN Len(dirread(d, path)) ELSE item.size
  <2>1. Len(dirread(d, path)) \in 0 .. W - 1
    BY ListIs DEF dirread
  <2> QED
    BY <2>1
<1>2. NewFile(path, item, d) =
          [path |-> path, first |-> item.first, attr |-> item.attr, pos |-> 0, size |-> size,
           stale |-> FALSE, touched |-> FALSE]
  BY <1>1 DEF NewFile
<1>3. 0 \in 0 .. W - 1
  BY Sizes0
<1> QED
  BY <1>1, <1>2, <1>3 DEF Opened

LEMMA PartOut ==
    ASSUME NEW all \in Seq(Slots), NEW size \in Nat, NEW offset \in Nat
    PROVE  Len(Part(all, size, offset).out) \in Nat
<1>1. PICK l \in Nat : l = Len(all)
  BY LenProperties
<1>2. CASE offset + size > l
  BY <1>1, <1>2 DEF Part
<1>3. CASE ~(offset + size > l)
  <2>1. PICK a \in Int, b \in Int : a = offset + 1 /\ b = offset + size
    OBVIOUS
  <2>2. \A i \in a .. b : all[i] \in Slots
    <3>1. \A i \in a .. b : i \in 1 .. l
      BY <1>3, <2>1
    <3> QED
      BY <1>1, <3>1, ElementOfSeq
  <2>3. Len(SubSeq(all, a, b)) = IF a <= b THEN b - a + 1 ELSE 0
    BY <2>2, SubSeqProperties
  <2>4. Len(SubSeq(all, a, b)) \in Nat
    BY <2>3
  <2> QED
    BY <1>1, <1>3, <2>1, <2>4 DEF Part
<1> QED
  BY <1>2, <1>3

LEMMA ReadOut ==
    ASSUME NEW d \in Disks, NEW f, NEW size \in Nat, NEW offset \in Nat
    PROVE  Len(FatRead(d, f, size, offset).out) \in Nat /\ Len(FatReadDir(d, f, size, offset).out) \in Nat
<1>1. PICK chain \in Seq(Clusters) : chain = retrieve_sectors_fs(d.fat, f.first)
  BY ChainOf
<1>2. PICK u \in Seq(Slots) : u = Content(d, chain)
  BY ContentIs
<1>3. PICK v \in Seq(Slots) : v = dirread(d, f.path)
  BY ListIs DEF dirread
<1>4. Len(Part(u, size, offset).out) \in Nat /\ Len(Part(v, size, offset).out) \in Nat
  BY PartOut
<1>5. Len(<<>>) \in Nat
  OBVIOUS
<1>6. Len(FatRead(d, f, size, offset).out) \in Nat
  BY <1>1, <1>2, <1>4, <1>5 DEF FatRead
<1>7. Len(FatReadDir(d, f, size, offset).out) \in Nat
  BY <1>3, <1>4, <1>5 DEF FatReadDir, PartOfDir
<1> QED
  BY <1>6, <1>7

LEMMA DiskIs == ASSUME FilesInv PROVE disk \in Saved /\ disk \in Sound /\ disk \in Disks
  BY DEF FilesInv, Saved, Sound

LEMMA HandleIs ==
    ASSUME FilesInv, NEW h \in Handles, file[h] # Closed
    PROVE  file[h] \in Opened
  BY DEF FilesInv

LEMMA FileSet ==
    ASSUME FilesInv, NEW h \in Handles, NEW f \in Opened \cup {Closed}
    PROVE  [file EXCEPT ![h] = f] \in [Handles -> Opened \cup {Closed}]
  BY DEF FilesInv

LEMMA OpenExistingKeeps ==
    ASSUME FilesInv, NEW h \in Handles, NEW path \in Named \cup {<<>>}, NEW attr,
           OpenExisting(h, path, attr)
    PROVE  FilesInv'
<1>0. path \in Paths
  BY FilesAssumption DEF Named
<1>1. PICK item : item = retrieve_item(disk, DropDot(path))
  OBVIOUS
<1>2. /\ item # NoItem /\ UNCHANGED <<disk, tainted>>
      /\ file' = [file EXCEPT ![h] = NewFile(path, item, disk)]
  BY <1>1 DEF OpenExisting
<1>3. item \in Slots \cup {RootItem} /\ (path = <<>> => item = RootItem)
  BY <1>0, <1>1, <1>2, DiskIs, ItemOf
<1>4. item.first \in Firsts /\ item.attr \in SUBSET Flags /\ item.size \in 0 .. W - 1
  <2>1. CASE item \in Slots
    BY <2>1 DEF Slots, Firsts, Ids
  <2>2. CASE item = RootItem
    BY <2>2, Sizes0 DEF RootItem, Slot, Firsts, Flags
  <2> QED
    BY <1>3, <2>1, <2>2
<1>5. path = <<>> => "Volume_ID" \in item.attr
  BY <1>3 DEF RootItem, Slot
<1>6. NewFile(path, item, disk) \in Opened
  BY <1>4, <1>5, DiskIs, FileOpened
<1>7. file' \in [Handles -> Opened \cup {Closed}]
  BY <1>2, <1>6, FileSet
<1> QED
  BY <1>2, <1>7 DEF FilesInv

LEMMA OpenCreateKeeps ==
    ASSUME FilesInv, NEW h \in Handles, NEW path \in Paths, NEW attr \in SUBSET Flags,
           OpenCreate(h, path, attr)
    PROVE  FilesInv'
<1>1. PICK r : r = IF IsFolder(attr) THEN create_folder(disk, path, attr)
                                      ELSE create_file(disk, path, attr)
  OBVIOUS
<1>2. path # <<>>
  BY DEF OpenCreate
<1>3. CASE Upper(disk, path).chain = <<>>
  <2>1. UNCHANGED <<disk, file, tainted>>
    BY <1>3 DEF OpenCreate, Fails
  <2> QED
    BY <2>1 DEF FilesInv
<1>4. CASE Upper(disk, path).chain # <<>>
  <2>1. r.disk \in Saved
    BY <1>1, <1>2, <1>4, DiskIs, CreatedKeeps
  <2>2. r.disk \in Disks
    BY <2>1 DEF Saved, Sound
  <2>3. PICK item : item = [retrieve_item(r.disk, DropDot(path)) EXCEPT !.attr = attr, !.size = 0]
    OBVIOUS
  <2>4. /\ disk' = r.disk /\ UNCHANGED tainted
        /\ \/ file' = file
           \/ /\ file' = [file EXCEPT ![h] = NewFile(path, item, r.disk)]
              /\ path \in Named
    BY <1>1, <1>4, <2>3 DEF OpenCreate, Misplaced
  <2>5. retrieve_item(r.disk, DropDot(path)) \in Slots \cup {NoItem, RootItem}
    BY <2>2, ItemOf
  <2>6. item.first \in Firsts /\ item.attr \in SUBSET Flags /\ item.size \in 0 .. W - 1
    <3>1. PICK s \in Slots \cup {NoItem, RootItem} : s = retrieve_item(r.disk, DropDot(path))
      BY <2>5
    <3>2. s = Slot(s.name, s.ext, s.attr, s.first, s.size) /\ s.first \in Firsts
      <4>1. CASE s \in Slots
        BY <4>1 DEF Slots, Slot, Firsts, Ids
      <4>2. CASE s \in {NoItem, RootItem}
        BY <4>2 DEF NoItem, RootItem, Slot, Firsts
      <4> QED
        BY <4>1, <4>2
    <3>3. item.first = s.first /\ item.attr = attr /\ item.size = 0
      BY <2>3, <3>1, <3>2 DEF Slot
    <3> QED
      BY <3>2, <3>3, Sizes0
  <2>8. ASSUME path \in Named PROVE NewFile(path, item, r.disk) \in Opened
    BY <1>2, <2>2, <2>6, <2>8, FileOpened
  <2>9. file' \in [Handles -> Opened \cup {Closed}]
    BY <2>4, <2>8, FileSet DEF FilesInv
  <2> QED
    BY <2>1, <2>4, <2>9 DEF FilesInv
<1> QED
  BY <1>3, <1>4

LEMMA WriteStep ==
    ASSUME FilesInv, NEW h \in Handles, NEW n \in Sizes, NEW v \in Values, Write(h, n, v)
    PROVE  FilesInv'
<1> DEFINE buf == [i \in 1 .. n |-> Datum(v)]
           r == FatWrite(disk, file[h], file[h].pos, buf)
<1>1. PICK f \in Opened : f = file[h] /\ file[h] # Closed
  BY HandleIs DEF Write
<1>2. /\ f.pos \in 0 .. W - 1 /\ f.size \in 0 .. W - 1
      /\ f.path \in Named \/ "Volume_ID" \in f.attr
  BY <1>1 DEF Opened
<1>3. n \in Nat /\ n + (N * K) <= W
  BY FilesAssumption
<1>4. buf \in Seq(Slots) /\ Len(buf) = n
  <2>1. buf \in [1 .. n -> Slots]
    BY SlotTypes
  <2> HIDE DEF buf
  <2> QED
    BY <1>3, <2>1, Filled
<1> HIDE DEF buf
<1>5. Written(r)
  <2>1. PICK u \in Seq(Slots) : u = buf /\ Len(u) = n
    BY <1>4
  <2>2. Len(u) + (N * K) <= W
    BY <1>3, <2>1
  <2>3. Written(FatWrite(disk, f, f.pos, u))
    BY <1>2, <2>2, DiskIs, FatWriteKeeps
  <2> QED
    BY <1>1, <2>1, <2>3
<1>6. CASE UNCHANGED <<disk, file, tainted>>
  BY <1>6 DEF FilesInv
<1>7. CASE ~("Volume_ID" \in f.attr) /\
           /\ disk' = r.disk
           /\ file' = [file EXCEPT ![h] =
                 [f EXCEPT !.pos = Wrap(f.pos + r.written),
                           !.size = Wrap(r.size + r.written), !.touched = TRUE]]
           /\ tainted' \in {tainted, tainted \union {f.path}}
  <2> HIDE DEF r
  <2>1. Wrap(f.pos + r.written) \in 0 .. W - 1 /\ Wrap(r.size + r.written) \in 0 .. W - 1
    <3>1. f.pos + r.written \in Int /\ r.size + r.written \in Int
      BY <1>2, <1>5 DEF Written
    <3> QED
      BY <3>1, Wrapped
  <2>2. [f EXCEPT !.pos = Wrap(f.pos + r.written), !.size = Wrap(r.size + r.written),
                  !.touched = TRUE] \in Opened
    BY <2>1 DEF Opened
  <2>3. file' \in [Handles -> Opened \cup {Closed}]
    BY <1>7, <2>2, FileSet
  <2>4. f.path \in Named
    BY <1>2, <1>7
  <2>5. tainted' \subseteq Named
    BY <1>7, <2>4 DEF FilesInv
  <2> QED
    BY <1>5, <1>7, <2>3, <2>5 DEF FilesInv, Written
<1>8. /\ f # Closed
      /\ IF "Volume_ID" \in f.attr \/ f.stale \/ r.error = "wild"
         THEN UNCHANGED <<disk, file, tainted>>
         ELSE /\ disk' = r.disk
              /\ file' = [file EXCEPT ![h] =
                    [f EXCEPT !.pos = Wrap(f.pos + r.written),
                              !.size = Wrap(r.size + r.written), !.touched = TRUE]]
              /\ tainted' \in {tainted, tainted \union {f.path}}
  BY <1>1 DEF Write, Fails, buf, Opened
<1> QED
  BY <1>6, <1>7, <1>8

LEMMA ReadStep ==
    ASSUME FilesInv, NEW h \in Handles, NEW n \in Sizes, Read(h, n)
    PROVE  FilesInv'
<1>1. PICK f \in Opened : f = file[h] /\ file[h] # Closed
  BY HandleIs DEF Read
<1>2. f.pos \in 0 .. W - 1 /\ f.size \in 0 .. W - 1 /\ f.pos \in Nat
  BY <1>1 DEF Opened
<1> DEFINE rest == Wrap(f.size - f.pos)
           some == IF n < rest THEN n ELSE rest
           r == IF f.attr \cap {"Volume_ID", "Directory"} # {}
                THEN FatReadDir(disk, f, some, f.pos) ELSE FatRead(disk, f, some, f.pos)
<1>3. some \in Nat
  <2>1. f.size - f.pos \in Int /\ n \in Nat
    BY <1>2, FilesAssumption
  <2>2. rest \in Nat
    BY <2>1, Wrapped
  <2> QED
    BY <2>1, <2>2
<1> HIDE DEF some
<1>4. Len(r.out) \in Nat
  BY <1>2, <1>3, DiskIs, ReadOut
<1>5. \/ UNCHANGED <<disk, file, tainted>>
      \/ /\ file' = [file EXCEPT ![h].pos = Wrap(@ + Len(r.out))]
         /\ UNCHANGED <<disk, tainted>>
  BY <1>1 DEF Read, Fails, some
<1> HIDE DEF r
<1>6. CASE UNCHANGED <<disk, file, tainted>>
  BY <1>6 DEF FilesInv
<1>7. CASE /\ file' = [file EXCEPT ![h].pos = Wrap(@ + Len(r.out))]
           /\ UNCHANGED <<disk, tainted>>
  <2>1. f.pos + Len(r.out) \in Int
    BY <1>2, <1>4
  <2>2. PICK p \in 0 .. W - 1 : p = Wrap(f.pos + Len(r.out))
    BY <2>1, Wrapped
  <2>3. [f EXCEPT !.pos = p] \in Opened
    BY DEF Opened
  <2>4. file' = [file EXCEPT ![h] = [f EXCEPT !.pos = p]]
    BY <1>1, <1>7, <2>2 DEF FilesInv, Opened
  <2>5. file' \in [Handles -> Opened \cup {Closed}]
    BY <2>3, <2>4, FileSet
  <2> QED
    BY <1>7, <2>5 DEF FilesInv
<1> QED
  BY <1>5, <1>6, <1>7

LEMMA SeekStep ==
    ASSUME FilesInv, NEW h \in Handles, NEW op, NEW n \in Offsets, Seek(h, op, n)
    PROVE  FilesInv'
<1>1. PICK f \in Opened : f = file[h] /\ file[h] # Closed
  BY HandleIs DEF Seek
<1>2. f.pos \in 0 .. W - 1 /\ f.size \in 0 .. W - 1 /\ n \in 0 .. W - 1
  BY <1>1, FilesAssumption DEF Opened
<1>3. /\ \A p \in 0 .. W - 1 : [f EXCEPT !.pos = p] \in Opened
      /\ \A p, s \in 0 .. W - 1, t \in BOOLEAN :
            [f EXCEPT !.size = s, !.pos = p, !.touched = t] \in Opened
  BY DEF Opened
<1>4. Wrap(f.pos + n) \in 0 .. W - 1 /\ Wrap(f.size - n) \in 0 .. W - 1
  <2>1. f.pos + n \in Int /\ f.size - n \in Int
    BY <1>2
  <2> QED
    BY <2>1, Wrapped
<1>6. file[h] = f /\ h \in DOMAIN file
  BY <1>1 DEF FilesInv
<1>7. \/ file' = [file EXCEPT ![h] = [f EXCEPT !.size = n, !.pos = n, !.touched = TRUE]]
      \/ file' = [file EXCEPT ![h] = [f EXCEPT !.pos = n]]
      \/ file' = [file EXCEPT ![h] =
            [f EXCEPT !.pos = IF Wrap(f.pos + n) > f.size THEN Wrap(f.pos + n) ELSE f.size]]
      \/ file' = [file EXCEPT ![h] = [f EXCEPT !.pos = Wrap(f.size - n)]]
  BY <1>6 DEF Seek, Opened
<1>8. \E g \in Opened : file' = [file EXCEPT ![h] = g]
  <2>1. CASE file' = [file EXCEPT ![h] = [f EXCEPT !.size = n, !.pos = n, !.touched = TRUE]]
    BY <1>2, <1>3, <2>1
  <2>2. CASE file' = [file EXCEPT ![h] = [f EXCEPT !.pos = n]]
    BY <1>2, <1>3, <2>2
  <2>3. CASE file' = [file EXCEPT ![h] =
            [f EXCEPT !.pos = IF Wrap(f.pos + n) > f.size THEN Wrap(f.pos + n) ELSE f.size]]
    BY <1>2, <1>3, <1>4, <2>3
  <2>4. CASE file' = [file EXCEPT ![h] = [f EXCEPT !.pos = Wrap(f.size - n)]]
    BY <1>3, <1>4, <2>4
  <2> QED
    BY <1>7, <2>1, <2>2, <2>3, <2>4
<1>9. file' \in [Handles -> Opened \cup {Closed}]
  BY <1>8, FileSet
<1>10. UNCHANGED <<disk, tainted>>
  BY DEF Seek
<1> QED
  BY <1>9, <1>10 DEF FilesInv

LEMMA CloseStep ==
    ASSUME FilesInv, NEW h \in Handles, CloseFile(h)
    PROVE  FilesInv'
<1>1. file' \in [Handles -> Opened \cup {Closed}]
  BY FileSet DEF CloseFile
<1> QED
  BY <1>1 DEF CloseFile, FilesInv

LEMMA DeleteStep ==
    ASSUME FilesInv, NEW path \in Named, DeleteFsFile(path)
    PROVE  FilesInv'
<1>1. disk' \in Saved
  BY DiskIs, RemoveKeeps DEF DeleteFsFile
<1>2. \A f \in Opened : [f EXCEPT !.stale = TRUE] \in Opened
  BY DEF Opened
<1>3. file' \in [Handles -> Opened \cup {Closed}]
  <2>1. file' = [h \in Handles |-> IF file[h] # Closed /\ file[h].path = path
                                   THEN [file[h] EXCEPT !.stale = TRUE] ELSE file[h]]
    BY DEF DeleteFsFile
  <2>2. \A h \in Handles : file[h] \in Opened \cup {Closed}
    BY DEF FilesInv
  <2> QED
    BY <1>2, <2>1, <2>2
<1>4. tainted' \subseteq Named
  BY DEF DeleteFsFile, FilesInv
<1> QED
  BY <1>1, <1>3, <1>4 DEF FilesInv

LEMMA AttributeStep ==
    ASSUME FilesInv, NEW path, NEW attr \in SUBSET Flags, SetFileAttribute(path, attr)
    PROVE  FilesInv'
<1>1. set_file_attribute(disk, path, attr).disk \in Saved
  BY DiskIs, AttributeSet, RefilledKeeps
<1>2. disk' \in {disk, set_file_attribute(disk, path, attr).disk} /\ UNCHANGED <<file, tainted>>
  BY DEF SetFileAttribute, Fails
<1> QED
  BY <1>1, <1>2 DEF FilesInv

LEMMA RebootStep ==
    ASSUME FilesInv, Reboot
    PROVE  FilesInv'
<1>1. PICK d \in Saved : d = disk
  BY DEF FilesInv
<1>2. /\ d \in Disks /\ d.copies = <<d.bytes, d.bytes>> /\ d.fat = convert_fat_to_dec(d.bytes, N)
  BY DEF Saved, Sound
<1>3. d.copies[1] = d.bytes
  BY <1>2
<1>4. Mount(d) = d
  BY <1>2, <1>3 DEF Mount, Disks
<1>5. file' \in [Handles -> Opened \cup {Closed}]
  BY DEF Reboot
<1> QED
  BY <1>1, <1>4, <1>5 DEF Reboot, FilesInv

LEMMA FilesInit == Init => FilesInv
<1>1. Boots \subseteq Saved
  BY FilesAssumption DEF Saved, Sound
<1> QED
  BY <1>1 DEF Init, FilesInv

LEMMA FilesStep == FilesInv /\ [Next]_vars => FilesInv'
<1> SUFFICES ASSUME FilesInv, [Next]_vars PROVE FilesInv'
  OBVIOUS
<1>1. /\ \A a \in Attrs \union {{"Directory"}} : a \in SUBSET Flags
      /\ Folders \subseteq Paths
  BY FilesAssumption DEF Attrs, Flags
<1>2. CASE \E h \in Handles, p \in Named \union {<<>>}, a \in Attrs \union {{"Directory"}} :
              OpenExisting(h, p, a)
  <2>1. Named \union {<<>>} \subseteq Paths
    BY FilesAssumption DEF Named
  <2> QED
    BY <1>2, <2>1, OpenExistingKeeps
<1>3. CASE \E h \in Handles, p \in Paths \ Folders, a \in Attrs : OpenCreate(h, p, a)
  BY <1>1, <1>3, OpenCreateKeeps
<1>4. CASE \E h \in Handles, p \in Folders : OpenCreate(h, p, {"Directory"})
  BY <1>1, <1>4, OpenCreateKeeps
<1>5. CASE \E h \in Handles, n \in Sizes, v \in Values : Write(h, n, v)
  BY <1>5, WriteStep
<1>6. CASE \E h \in Handles, n \in Sizes : Read(h, n)
  BY <1>6, ReadStep
<1>7. CASE \E h \in Handles, op \in {"Set_Size", "Beginning", "Current", "End"},
              n \in Offsets : Seek(h, op, n)
  BY <1>7, SeekStep
<1>8. CASE \E h \in Handles : CloseFile(h)
  BY <1>8, CloseStep
<1>9. CASE \E p \in Named : DeleteFsFile(p)
  BY <1>9, DeleteStep
<1>10. CASE \E p \in Named, a \in Attrs \union {{"Directory"}} : SetFileAttribute(p, a)
  BY <1>1, <1>10, AttributeStep
<1>11. CASE Reboot
  BY <1>11, RebootStep
<1>12. CASE UNCHANGED vars
  BY <1>12 DEF vars, FilesInv
<1> QED
  BY <1>2, <1>3, <1>4, <1>5, <1>6, <1>7, <1>8, <1>9, <1>10, <1>11, <1>12 DEF Next

LEMMA InvImplies == FilesInv => TablesAgree
<1> SUFFICES ASSUME FilesInv PROVE TablesAgree
  OBVIOUS
<1>1. disk \in Disks /\ disk.fat = convert_fat_to_dec(disk.bytes, N)
      /\ disk.copies = <<disk.bytes, disk.bytes>>
  BY DEF FilesInv, Saved, Sound
<1>2. ASSUME NEW h \in Handles, file[h] # Closed PROVE file[h].pos \in 0 .. W - 1
  BY <1>2, HandleIs DEF Opened
<1>3. tainted \subseteq Named
  BY DEF FilesInv
<1> QED
  BY <1>1, <1>2, <1>3 DEF TablesAgree, TypeOK

LEMMA FilesAlways == Spec => []FilesInv
  BY FilesInit, FilesStep, PTL DEF Spec

(* After every system call on a file or a directory the table in memory,   *)
(* as integers and as bytes, and both copies on the disk are the same, for *)
(* every disk, directory tree and number of open files; a restart finds    *)
(* what the calls left.  The sizes that FAT::write computes and the        *)
(* positions of the handles stay within their 64 bits.                     *)
THEOREM TablesAgreeHolds == Spec => []TablesAgree
  BY FilesAlways, InvImplies, PTL

-----------------------------------------------------------------------------
(* What a chain is, without the walk that finds it: clusters from c that   *)
(* the table leads through, up to an end mark.                             *)
IsChain(fat, c, s) ==
    /\ s \in Seq(Clusters) /\ s # <<>> /\ s[1] = c
    /\ \A i \in 1 .. Len(s) - 1 : fat[s[i]] = s[i + 1]
    /\ fat[s[Len(s)]] \in 4088 .. 4095

LEMMA ClustersAre == /\ \A c \in Clusters : c \in Nat /\ c \in Ids /\ c # 0 /\ c < 4080
                     /\ Root \notin Clusters /\ -1 \notin Clusters
                     /\ Clusters \subseteq Nat /\ EndMark \in 4088 .. 4095
  BY DiskAssumption DEF Clusters, Ids, EndMark

(* A walk over n entries that is not over has n clusters behind its start. *)
LEMMA ChainEnds ==
    ASSUME NEW fat \in FatTables, NEW start, retrieve_sectors_fs(fat, start) # <<>>
    PROVE  LET p == retrieve_sectors_fs(fat, start) IN fat[p[Len(p)]] \in 4088 .. 4095
<1> DEFINE w == WalkOf(fat, start)
           Over(p) == p = <<>> \/ (Last(p) \in Clusters /\ fat[Last(p)] \in 4088 .. 4095)
           S == {n \in Nat : n <= N => Over(w[n]) \/ Len(w[n]) = n + 1}
<1>1. /\ w[0] = <<start>> /\ \A n \in 1 .. N : w[n] = Follow(fat, w[n - 1])
      /\ \A n \in 0 .. N : w[n] \in Linked(fat, start)
  BY WalkLinked
<1>n. N \in Nat
  BY Sizes0
<1> HIDE DEF w
<1>2. 0 \in S
  <2>1. Len(w[0]) = 1
    BY <1>1
  <2> QED
    BY <2>1
<1>3. ASSUME NEW n \in S PROVE n + 1 \in S
  <2>1. SUFFICES ASSUME n + 1 <= N, ~Over(w[n + 1]) PROVE Len(w[n + 1]) = n + 2
    OBVIOUS
  <2>2. n + 1 \in 1 .. N /\ (n + 1) - 1 = n /\ n \in 0 .. N /\ n <= N
    BY <1>n, <2>1
  <2>3. PICK p \in Linked(fat, start) : p = w[n] /\ w[n + 1] = Follow(fat, p)
    BY <1>1, <2>2
  <2>4. p # <<>> /\ Last(p) \in Clusters
    BY <2>1, <2>3 DEF Follow
  <2>5. fat[Last(p)] \notin 4088 .. 4095
    BY <2>1, <2>3, <2>4 DEF Follow
  <2>6. w[n + 1] = Append(p, fat[Last(p)])
    BY <2>3, <2>4, <2>5 DEF Follow
  <2>7. Len(p) = n + 1
    BY <2>2, <2>3, <2>4, <2>5
  <2>8. Len(Append(p, fat[Last(p)])) = Len(p) + 1
    <3>1. PICK Y : Y = Entry \cup {start, fat[Last(p)]}
      OBVIOUS
    <3>2. PICK Z : Z = Entry \cup {start}
      OBVIOUS
    <3>3. p \in Seq(Z) /\ Z \subseteq Y /\ fat[Last(p)] \in Y
      BY <3>1, <3>2 DEF Linked
    <3>4. p \in Seq(Y)
      BY <3>3, SeqMonotonic
    <3> QED
      BY <3>3, <3>4, AppendProperties
  <2> QED
    BY <2>6, <2>7, <2>8
<1>4. S \in SUBSET Nat
  OBVIOUS
<1> HIDE DEF S
<1>5. S = Nat
  BY <1>2, <1>3, <1>4, NatSet
<1>6. N \in S /\ N <= N
  BY <1>5, <1>n
<1>7. w[N] # <<>> /\ Len(w[N]) \in 1 .. N - 2 /\ retrieve_sectors_fs(fat, start) = w[N]
  BY SectorsAre DEF EndedWalk, w
<1>8. Over(w[N])
  BY <1>6, <1>7, <1>n DEF S
<1> QED
  BY <1>7, <1>8 DEF Last

LEMMA ChainIs ==
    ASSUME NEW fat \in FatTables, NEW start, NEW s, s = retrieve_sectors_fs(fat, start), s # <<>>
    PROVE  IsChain(fat, start, s) /\ Len(s) \in 1 .. N - 2
<1>1. /\ s \in Seq(Clusters) /\ Len(s) \in 1 .. N - 2 /\ s[1] = start
      /\ \A i \in 1 .. Len(s) - 1 : s[i + 1] = fat[s[i]]
  BY ChainType
<1>2. fat[s[Len(s)]] \in 4088 .. 4095
  BY ChainEnds
<1> QED
  BY <1>1, <1>2 DEF IsChain

(* A chain does not come back to a cluster. *)
LEMMA ChainOnce ==
    ASSUME NEW fat \in FatTables, NEW start, NEW s, IsChain(fat, start, s)
    PROVE  \A i, j \in 1 .. Len(s) : s[i] = s[j] => i = j
<1>1. PICK m \in Nat : m = Len(s)
  BY LenProperties DEF IsChain
<1>2. \A i \in 1 .. m - 1 : fat[s[i]] = s[i + 1]
  BY <1>1 DEF IsChain
<1>3. fat[s[m]] \in 4088 .. 4095
  BY <1>1 DEF IsChain
<1>4. SUFFICES ASSUME NEW i \in 1 .. m, NEW j \in 1 .. m, s[i] = s[j], i < j PROVE FALSE
  BY <1>1
<1> DEFINE S == {k \in Nat : j + k <= m => s[i + k] = s[j + k]}
<1>5. 0 \in S
  BY <1>4
<1>6. ASSUME NEW k \in S PROVE k + 1 \in S
  <2>1. SUFFICES ASSUME j + (k + 1) <= m PROVE s[i + (k + 1)] = s[j + (k + 1)]
    OBVIOUS
  <2>2. j + k \in 1 .. m - 1 /\ i + k \in 1 .. m - 1 /\ (i + k) + 1 = i + (k + 1) /\ (j + k) + 1 = j + (k + 1)
    BY <1>4, <2>1
  <2>3. s[i + k] = s[j + k]
    BY <2>2
  <2> QED
    BY <1>2, <2>2, <2>3
<1>7. S \in SUBSET Nat
  OBVIOUS
<1> HIDE DEF S
<1>8. S = Nat
  BY <1>5, <1>6, <1>7, NatSet
<1>9. PICK k \in Nat : k = m - j
  OBVIOUS
<1>10. k \in S
  BY <1>8
<1>11. s[i + k] = s[m] /\ i + k \in 1 .. m - 1
  BY <1>4, <1>9, <1>10 DEF S
<1>12. s[(i + k) + 1] \in 4088 .. 4095
  BY <1>2, <1>3, <1>11
<1>13. s[(i + k) + 1] \in Clusters
  <2>1. (i + k) + 1 \in 1 .. Len(s)
    BY <1>1, <1>11
  <2> QED
    BY <2>1, ElementOfSeq DEF IsChain
<1> QED
  BY <1>12, <1>13, ClustersAre

LEMMA UpTo ==
    ASSUME NEW m \in Nat
    PROVE  IsFiniteSet(1 .. m) /\ Cardinality(1 .. m) = m
<1>1. PICK a \in Int, b \in Int : a = 1 /\ b = m
  OBVIOUS
<1>2. IsFiniteSet(a .. b) /\ Cardinality(a .. b) = IF a > b THEN 0 ELSE b - a + 1
  BY FS_Interval
<1> QED
  BY <1>1, <1>2

LEMMA ChainShort ==
    ASSUME NEW fat \in FatTables, NEW start, NEW s, IsChain(fat, start, s)
    PROVE  Len(s) \in 1 .. N - 2
<1>1. PICK m \in Nat : m = Len(s) /\ m # 0
  BY LenProperties, EmptySeq DEF IsChain
<1>2. SUFFICES ASSUME m > N - 2 PROVE FALSE
  BY <1>1, Sizes0
<1>3. IsFiniteSet(1 .. m) /\ Cardinality(1 .. m) = m
  BY <1>1, UpTo
<1>4. IsFiniteSet(Clusters) /\ Cardinality(Clusters) = N - 2
  <2>1. PICK a \in Int, b \in Int : a = 2 /\ b = N - 1 /\ a <= b
    BY Sizes0
  <2>2. IsFiniteSet(a .. b) /\ Cardinality(a .. b) = IF a > b THEN 0 ELSE b - a + 1
    BY FS_Interval
  <2>3. b - a + 1 = N - 2 /\ ~(a > b)
    BY <2>1, Sizes0
  <2> QED
    BY <2>1, <2>2, <2>3 DEF Clusters
<1>5. s \in [1 .. m -> Clusters]
  BY <1>1, LenProperties DEF IsChain
<1>6. \E x, y \in 1 .. m : x # y /\ s[x] = s[y]
  BY <1>2, <1>3, <1>4, <1>5, FS_PigeonHole
<1> QED
  BY <1>1, <1>6, ChainOnce

(* Whatever is a chain, is found. *)
LEMMA ChainFound ==
    ASSUME NEW fat \in FatTables, NEW start, NEW s, IsChain(fat, start, s)
    PROVE  retrieve_sectors_fs(fat, start) = s
<1> DEFINE w == WalkOf(fat, start)
           to(n) == IF n + 1 <= Len(s) THEN n + 1 ELSE Len(s)
           S == {n \in Nat : n <= N => w[n] = SubSeq(s, 1, to(n))}
<1>1. w[0] = <<start>> /\ \A n \in 1 .. N : w[n] = Follow(fat, w[n - 1])
  BY WalkLinked
<1>2. PICK m \in 1 .. N - 2 : m = Len(s)
  BY ChainShort
<1>3. /\ s \in Seq(Clusters) /\ s[1] = start /\ \A i \in 1 .. m - 1 : fat[s[i]] = s[i + 1]
      /\ fat[s[m]] \in 4088 .. 4095
  BY <1>2 DEF IsChain
<1>4. \A i \in 1 .. m : s[i] \in Clusters
  BY <1>2, <1>3, ElementOfSeq
<1>n. N \in Nat
  BY Sizes0
<1> HIDE DEF w
<1>5. \A k \in 1 .. m : LET p == SubSeq(s, 1, k) IN
          /\ p # <<>> /\ Last(p) = s[k]
          /\ k < m => Append(p, s[k + 1]) = SubSeq(s, 1, k + 1)
  <2> TAKE k \in 1 .. m
  <2> DEFINE p == SubSeq(s, 1, k)
  <2>1. \A i \in 1 .. k : s[i] \in Clusters
    BY <1>4
  <2>2. p \in Seq(Clusters) /\ Len(p) = k /\ \A i \in 1 .. k : p[i] = s[i]
    <3>1. /\ p \in Seq(Clusters) /\ Len(p) = IF 1 <= k THEN k - 1 + 1 ELSE 0
          /\ \A i \in 1 .. k - 1 + 1 : p[i] = s[1 + i - 1]
      BY <2>1, SubSeqProperties
    <3> QED
      BY <3>1
  <2>3. p # <<>> /\ Last(p) = s[k]
    <3>1. k \in 1 .. k /\ k # 0
      OBVIOUS
    <3>2. p[Len(p)] = s[k]
      BY <2>2, <3>1
    <3> HIDE DEF p
    <3>3. p # <<>>
      BY <2>2, <3>1, EmptySeq
    <3> QED
      BY <3>2, <3>3 DEF Last
  <2>4. ASSUME k < m PROVE Append(p, s[k + 1]) = SubSeq(s, 1, k + 1)
    <3>1. PICK l \in 1 .. Len(s) : l = k + 1 /\ 1 \in 1 .. Len(s) /\ l \in 1 .. Len(s) /\ l - 1 = k
      BY <1>2, <2>4
    <3>2. SubSeq(s, 1, l) = SubSeq(s, 1, l - 1) \o <<s[l]>>
      BY <1>3, <3>1, SubSeqRecursiveSecond
    <3>3. Append(p, s[l]) = p \o <<s[l]>>
      BY <1>4, <2>2, <3>1, AppendIsConcat
    <3> QED
      BY <3>1, <3>2, <3>3
  <2> QED
    BY <2>3, <2>4
<1>6. 0 \in S
  <2>1. to(0) = 1 /\ 1 \in 1 .. Len(s)
    BY <1>2
  <2>2. SubSeq(s, 1, 1) = <<s[1]>>
    <3>1. PICK x \in Clusters : x = s[1]
      BY <1>2, <1>4
    <3>2. SubSeq(s, 1, 1) = <<s[1]>> \o SubSeq(s, 2, 1)
      BY <1>3, <2>1, SubSeqRecursiveFirst
    <3>3. SubSeq(s, 2, 1) = <<>>
      BY SubSeqEmpty
    <3>4. <<x>> \in Seq(Clusters)
      OBVIOUS
    <3>5. <<x>> \o <<>> = <<x>>
      BY <3>4, ConcatEmptySeq
    <3> QED
      BY <3>1, <3>2, <3>3, <3>5
  <2> QED
    BY <1>1, <1>3, <2>1, <2>2
<1>7. ASSUME NEW n \in S PROVE n + 1 \in S
  <2>1. SUFFICES ASSUME n + 1 <= N PROVE w[n + 1] = SubSeq(s, 1, to(n + 1))
    OBVIOUS
  <2>2. n + 1 \in 1 .. N /\ (n + 1) - 1 = n /\ n <= N
    BY <1>n, <2>1
  <2>3. w[n] = SubSeq(s, 1, to(n))
    BY <2>2
  <2>4. w[n + 1] = Follow(fat, w[n])
    BY <1>1, <2>2
  <2>5. PICK k \in 1 .. m : k = to(n)
    BY <1>2
  <2>6. SubSeq(s, 1, k) # <<>> /\ Last(SubSeq(s, 1, k)) = s[k] /\ s[k] \in Clusters
    BY <1>4, <1>5
  <2>7. CASE k = m
    <3>1. to(n + 1) = m
      BY <1>2, <2>5, <2>7
    <3>2. Follow(fat, SubSeq(s, 1, k)) = SubSeq(s, 1, k)
      BY <1>3, <2>6, <2>7 DEF Follow
    <3> QED
      BY <2>3, <2>4, <2>5, <2>7, <3>1, <3>2
  <2>8. CASE k # m
    <3>1. k < m /\ k = n + 1 /\ to(n + 1) = k + 1 /\ k + 1 \in 1 .. m
      BY <1>2, <2>5, <2>8
    <3>2. fat[s[k]] = s[k + 1] /\ s[k + 1] \in Clusters
      BY <1>3, <1>4, <3>1
    <3>3. s[k + 1] \notin 4088 .. 4095
      BY <3>2, ClustersAre
    <3>4. Follow(fat, SubSeq(s, 1, k)) = Append(SubSeq(s, 1, k), s[k + 1])
      <4>1. PICK p : p = SubSeq(s, 1, k)
        OBVIOUS
      <4>2. p # <<>> /\ Last(p) = s[k] /\ Last(p) \in Clusters /\ fat[Last(p)] = s[k + 1]
        BY <2>6, <3>2, <4>1
      <4>3. fat[Last(p)] \notin 4088 .. 4095
        BY <3>3, <4>2
      <4>4. Follow(fat, p) = Append(p, s[k + 1])
        BY <4>2, <4>3 DEF Follow
      <4> QED
        BY <4>1, <4>4
    <3>5. Append(SubSeq(s, 1, k), s[k + 1]) = SubSeq(s, 1, k + 1)
      BY <1>5, <3>1
    <3> QED
      BY <2>3, <2>4, <2>5, <3>1, <3>4, <3>5
  <2> QED
    BY <2>7, <2>8
<1>8. S \in SUBSET Nat
  OBVIOUS
<1>9. to(N) = m
  BY <1>2, <1>n
<1> HIDE DEF S, to
<1>10. S = Nat
  BY <1>6, <1>7, <1>8, NatSet
<1>11. w[N] = SubSeq(s, 1, m)
  <2>1. N \in S /\ N <= N
    BY <1>10, <1>n
  <2> QED
    BY <1>9, <2>1 DEF S
<1>12. w[N] = s
  BY <1>2, <1>3, <1>11, SubSeqFull
<1>13. Len(s) \in 1 .. N - 2 /\ Last(s) \in Clusters
  <2>1. m \in 1 .. m
    BY <1>2
  <2> QED
    BY <1>2, <1>4, <2>1 DEF Last
<1> QED
  BY <1>12, <1>13, SectorsAre DEF EndedWalk, w

-----------------------------------------------------------------------------
(* Sequences of slots, and the slots of a directory                        *)

(* The slots of a directory: k in front, then u, and then nothing.         *)
Lists(b, k, u) ==
    /\ b \in Seq(Slots) /\ u \in Seq(Slots) /\ k + Len(u) <= Len(b)
    /\ \A i \in 1 .. k : b[i] # Zero
    /\ \A i \in 1 .. Len(u) : b[k + i] = u[i] /\ u[i] # Zero
    /\ \A i \in k + Len(u) + 1 .. Len(b) : b[i] = Zero

LEMMA DirCut ==
    ASSUME NEW b \in Seq(Slots), NEW n \in 0 .. Len(b), \A i \in 1 .. n : b[i] # Zero,
           n < Len(b) => b[n + 1] = Zero
    PROVE  get_dir_items(b) = SubSeq(b, 1, n)
<1> DEFINE I == {i \in 1 .. Len(b) : b[i] = Zero}
<1>1. PICK m \in Nat : m = Len(b)
  BY LenProperties
<1>2. get_dir_items(b) = IF (IF I # {} THEN Min(I) ELSE 0) = 0 THEN b
                         ELSE SubSeq(b, 1, (IF I # {} THEN Min(I) ELSE 0) - 1)
  BY DEF get_dir_items, SelectInSeq
<1>3. CASE n = m
  <2>1. I = {}
    BY <1>1, <1>3
  <2> HIDE DEF I
  <2> QED
    BY <1>1, <1>2, <1>3, <2>1, SubSeqFull
<1>4. CASE n # m
  <2>1. n + 1 \in I /\ \A j \in I : n + 1 <= j
    BY <1>1, <1>4
  <2> HIDE DEF I
  <2>2. PICK j : j = Min(I)
    OBVIOUS
  <2>3. j \in I /\ \A i \in I : j <= i
    BY <2>1, <2>2 DEF Min
  <2>4. j = n + 1
    BY <1>1, <2>1, <2>3 DEF I
  <2>5. I # {}
    BY <2>1
  <2>6. (IF I # {} THEN Min(I) ELSE 0) = n + 1 /\ n + 1 # 0 /\ n + 1 - 1 = n
    BY <2>2, <2>4, <2>5
  <2> QED
    BY <1>2, <2>6
<1> QED
  BY <1>3, <1>4

(* A part of a sequence, with what is in it. *)
LEMMA Cut ==
    ASSUME NEW X, NEW s \in Seq(X), NEW m \in Nat, NEW n \in Nat, 1 <= m, m <= n + 1, n <= Len(s)
    PROVE  /\ SubSeq(s, m, n) \in Seq(X) /\ Len(SubSeq(s, m, n)) = (n + 1) - m
           /\ \A i \in 1 .. (n + 1) - m : SubSeq(s, m, n)[i] = s[(m + i) - 1]
<1>1. PICK l \in Nat : l = Len(s)
  BY LenProperties
<1>2. \A i \in m .. n : s[i] \in X
  <2> TAKE i \in m .. n
  <2>1. i \in 1 .. Len(s)
    BY <1>1
  <2> QED
    BY <2>1, ElementOfSeq
<1>3. /\ SubSeq(s, m, n) \in Seq(X)
      /\ Len(SubSeq(s, m, n)) = IF m <= n THEN n - m + 1 ELSE 0
      /\ \A i \in 1 .. n - m + 1 : SubSeq(s, m, n)[i] = s[m + i - 1]
  BY <1>2, SubSeqProperties
<1> QED
  BY <1>3

LEMMA ListGiven ==
    ASSUME NEW b, NEW k \in Nat, NEW u, Lists(b, k, u)
    PROVE  From(get_dir_items(b), k + 1) = u
<1>1. PICK m \in Nat, l \in Nat : m = Len(b) /\ l = Len(u)
  BY LenProperties DEF Lists
<1>2. b \in Seq(Slots) /\ u \in Seq(Slots) /\ k + l <= m
  BY <1>1 DEF Lists
<1>3. PICK n \in 0 .. m : n = k + l
  BY <1>1, <1>2
<1>4. \A i \in 1 .. n : b[i] # Zero
  <2> TAKE i \in 1 .. n
  <2>1. CASE i <= k
    BY <1>3, <2>1 DEF Lists
  <2>2. CASE i > k
    <3>1. PICK j \in 1 .. l : i = k + j
      <4>1. i - k \in 1 .. l /\ i = k + (i - k)
        BY <1>3, <2>2
      <4> QED
        BY <4>1
    <3> QED
      BY <1>1, <3>1 DEF Lists
  <2> QED
    BY <2>1, <2>2
<1>5. n < m => b[n + 1] = Zero
  <2>1. n < m => n + 1 \in k + Len(u) + 1 .. Len(b)
    BY <1>1, <1>3
  <2> QED
    BY <2>1 DEF Lists
<1>6. get_dir_items(b) = SubSeq(b, 1, n)
  BY <1>1, <1>2, <1>4, <1>5, DirCut
<1>7. PICK c \in Seq(Slots) : c = SubSeq(b, 1, n) /\ Len(c) = n /\ \A i \in 1 .. n : c[i] = b[i]
  <2>1. 1 <= 1 /\ 1 <= n + 1 /\ n <= Len(b) /\ (n + 1) - 1 = n /\ n \in Nat
    BY <1>1
  <2>2. /\ SubSeq(b, 1, n) \in Seq(Slots) /\ Len(SubSeq(b, 1, n)) = n
        /\ \A i \in 1 .. n : SubSeq(b, 1, n)[i] = b[(1 + i) - 1]
    BY <1>2, <2>1, Cut
  <2>3. \A i \in 1 .. n : (1 + i) - 1 = i
    OBVIOUS
  <2> QED
    BY <2>2, <2>3
<1>8. /\ SubSeq(c, k + 1, n) \in Seq(Slots) /\ Len(SubSeq(c, k + 1, n)) = l
      /\ \A i \in 1 .. l : SubSeq(c, k + 1, n)[i] = c[k + i]
  <2>1. PICK a \in Nat : a = k + 1
    OBVIOUS
  <2>2. 1 <= a /\ a <= n + 1 /\ n <= Len(c) /\ (n + 1) - a = l
    BY <1>3, <1>7, <2>1
  <2>3. /\ SubSeq(c, a, n) \in Seq(Slots) /\ Len(SubSeq(c, a, n)) = l
        /\ \A i \in 1 .. l : SubSeq(c, a, n)[i] = c[(a + i) - 1]
    BY <1>7, <2>2, Cut
  <2>4. \A i \in 1 .. l : (a + i) - 1 = k + i
    BY <2>1
  <2> QED
    BY <2>1, <2>3, <2>4
<1>9. \A i \in 1 .. l : c[k + i] = u[i]
  <2> TAKE i \in 1 .. l
  <2>1. k + i \in 1 .. n
    BY <1>3
  <2> QED
    BY <1>1, <1>7, <2>1 DEF Lists
<1>10. SubSeq(c, k + 1, n) = u
  BY <1>1, <1>2, <1>8, <1>9, SeqEqual
<1> QED
  BY <1>6, <1>7, <1>10 DEF From

(* Slot a of cluster i of a chain, in the chain as a whole. *)
LEMMA SlotIn ==
    ASSUME NEW m \in Nat, NEW i \in 1 .. m, NEW a \in 1 .. K
    PROVE  LET j == ((i - 1) * K) + a IN
           /\ j \in 1 .. m * K /\ j \in Nat /\ ((j - 1) \div K) + 1 = i /\ ((j - 1) % K) + 1 = a
<1>1. K \in Nat /\ K > 0
  BY Sizes0
<1>2. PICK p \in Nat : p = (i - 1) * K
  BY <1>1
<1>3. m * K \in Nat /\ p + K <= m * K
  <2>1. PICK x \in Nat : m = i + x
    <3>1. m - i \in Nat /\ m = i + (m - i)
      OBVIOUS
    <3> QED
      BY <3>1
  <2>2. m * K = ((i - 1) * K) + K + (x * K) /\ x * K \in Nat
    BY <1>1, <2>1
  <2> QED
    BY <1>1, <1>2, <2>2
<1>4. p + a - 1 = (K * (i - 1)) + (a - 1) /\ a - 1 \in 0 .. K - 1
  BY <1>1, <1>2
<1>5. (p + a - 1) \div K = i - 1 /\ (p + a - 1) % K = a - 1
  <2>1. PICK q \in Nat, r \in 0 .. K - 1 : q = i - 1 /\ r = a - 1
    BY <1>1
  <2>2. ((K * q) + r) \div K = q /\ ((K * q) + r) % K = r
    BY <1>1
  <2> QED
    BY <1>4, <2>1, <2>2
<1> QED
  BY <1>1, <1>2, <1>3, <1>5

LEMMA ContentAt ==
    ASSUME NEW d \in Disks, NEW s \in Seq(Clusters), NEW i \in 1 .. Len(s), NEW a \in 1 .. K
    PROVE  Content(d, s)[((i - 1) * K) + a] = d.data[s[i]][a]
<1>1. PICK m \in Nat : m = Len(s)
  BY LenProperties
<1>2. PICK j : j = ((i - 1) * K) + a
  OBVIOUS
<1>3. j \in 1 .. m * K /\ ((j - 1) \div K) + 1 = i /\ ((j - 1) % K) + 1 = a
  BY <1>1, <1>2, SlotIn
<1>4. Content(d, s)[j] = d.data[s[((j - 1) \div K) + 1]][((j - 1) % K) + 1]
  BY <1>1, <1>3 DEF Content
<1> QED
  BY <1>2, <1>3, <1>4
(* The first n slots of a sequence, as one. *)
LEMMA Start ==
    ASSUME NEW X, NEW s \in Seq(X), NEW n \in 0 .. Len(s)
    PROVE  /\ SubSeq(s, 1, n) \in Seq(X) /\ Len(SubSeq(s, 1, n)) = n
           /\ \A i \in 1 .. n : SubSeq(s, 1, n)[i] = s[i]
<1>1. 1 <= 1 /\ 1 <= n + 1 /\ n <= Len(s) /\ (n + 1) - 1 = n /\ n \in Nat
  BY LenProperties
<1>2. /\ SubSeq(s, 1, n) \in Seq(X) /\ Len(SubSeq(s, 1, n)) = n
      /\ \A i \in 1 .. n : SubSeq(s, 1, n)[i] = s[(1 + i) - 1]
  BY <1>1, Cut
<1>3. \A i \in 1 .. n : (1 + i) - 1 = i
  OBVIOUS
<1> QED
  BY <1>2, <1>3

LEMMA Filling ==
    ASSUME NEW m \in Nat, NEW n \in Nat, NEW i \in 1 .. m, n <= m * K
    PROVE  \E z \in 0 .. K :
              /\ z = IF i * K <= n THEN K ELSE IF (i - 1) * K <= n THEN n - ((i - 1) * K) ELSE 0
              /\ z < K => i * K > n
              /\ \A a \in 1 .. z : ((i - 1) * K) + a <= n
              /\ \A a \in z + 1 .. K : ((i - 1) * K) + a > n
<1>1. K \in Nat /\ K > 0 /\ (i - 1) * K \in Nat /\ i * K = ((i - 1) * K) + K
  BY Sizes0
<1>2. PICK p \in Nat, q \in Nat : p = (i - 1) * K /\ q = i * K /\ q = p + K
  BY <1>1
<1>3. PICK z \in 0 .. K : z = IF q <= n THEN K ELSE IF p <= n THEN n - p ELSE 0
  BY <1>1, <1>2
<1>4. /\ z < K => q > n
      /\ \A a \in 1 .. z : p + a <= n
      /\ \A a \in z + 1 .. K : p + a > n
  BY <1>1, <1>2, <1>3
<1> QED
  BY <1>2, <1>3, <1>4

(* A cluster of a directory ends at its own first empty slot. *)
BlockEnds(d, s, u, i) ==
    \E c \in Seq(Slots), z \in 0 .. K :
       /\ c = get_dir_items(d.data[s[i]]) /\ Len(c) = z
       /\ z = IF i * K <= 2 + Len(u) THEN K
              ELSE IF (i - 1) * K <= 2 + Len(u) THEN (2 + Len(u)) - ((i - 1) * K) ELSE 0
       /\ \A x \in 1 .. z : c[x] = Content(d, s)[((i - 1) * K) + x]

LEMMA BlockItems ==
    ASSUME NEW d \in Disks, NEW s \in Seq(Clusters), NEW u, Lists(Content(d, s), 2, u),
           NEW i \in 1 .. Len(s)
    PROVE  BlockEnds(d, s, u, i)
<1> USE DEF BlockEnds
<1>1. PICK m \in Nat, l \in Nat : m = Len(s) /\ l = Len(u)
  BY LenProperties DEF Lists
<1>2. PICK b \in Seq(Slots) : b = Content(d, s) /\ Len(b) = m * K
  BY <1>1, ContentIs
<1>3. PICK n \in Nat : n = 2 + l /\ n <= m * K
  BY <1>1, <1>2 DEF Lists
<1>4. PICK z \in 0 .. K :
              /\ z = IF i * K <= n THEN K ELSE IF (i - 1) * K <= n THEN n - ((i - 1) * K) ELSE 0
              /\ z < K => i * K > n
              /\ \A a \in 1 .. z : ((i - 1) * K) + a <= n
              /\ \A a \in z + 1 .. K : ((i - 1) * K) + a > n
  BY <1>1, <1>3, Filling
<1>5. K \in Nat /\ s[i] \in Clusters /\ d.data[s[i]] \in [1 .. K -> Slots]
  <2>1. s[i] \in Clusters
    BY ElementOfSeq
  <2> QED
    BY <2>1, Sizes0 DEF Disks
<1>6. PICK y \in Seq(Slots) : y = d.data[s[i]] /\ Len(y) = K
  BY <1>5, Filled
<1>7. \A a \in 1 .. K : LET j == ((i - 1) * K) + a IN
          /\ y[a] = b[j] /\ j \in 1 .. m * K /\ j \in Nat
  <2> TAKE a \in 1 .. K
  <2>1. Content(d, s)[((i - 1) * K) + a] = d.data[s[i]][a]
    BY ContentAt
  <2>2. ((i - 1) * K) + a \in 1 .. m * K /\ ((i - 1) * K) + a \in Nat
    BY <1>1, SlotIn
  <2> QED
    BY <1>2, <1>6, <2>1, <2>2
<1>8. \A j \in 1 .. m * K : IF j <= n THEN b[j] # Zero ELSE b[j] = Zero
  <2> TAKE j \in 1 .. m * K
  <2>1. m * K \in Nat
    BY <1>5
  <2>2. CASE j <= 2
    BY <1>2, <1>3, <2>1, <2>2 DEF Lists
  <2>3. CASE j > 2 /\ j <= n
    <3>1. PICK a \in 1 .. l : j = 2 + a
      <4>1. j - 2 \in 1 .. l /\ j = 2 + (j - 2)
        BY <1>3, <2>1, <2>3
      <4> QED
        BY <4>1
    <3> QED
      BY <1>1, <1>2, <2>3, <3>1 DEF Lists
  <2>4. CASE j > n
    <3>1. j \in 2 + Len(u) + 1 .. Len(b)
      BY <1>1, <1>2, <1>3, <2>1, <2>4
    <3>2. ~(j <= n)
      BY <1>3, <2>1, <2>4
    <3> QED
      BY <1>2, <3>1, <3>2 DEF Lists
  <2> QED
    BY <1>3, <2>1, <2>2, <2>3, <2>4
<1>9. \A a \in 1 .. z : y[a] # Zero
  <2> TAKE a \in 1 .. z
  <2>1. a \in 1 .. K
    BY <1>5
  <2> QED
    BY <1>4, <1>7, <1>8, <2>1
<1>10. z < K => y[z + 1] = Zero
  <2>1. SUFFICES ASSUME z < K PROVE y[z + 1] = Zero
    OBVIOUS
  <2>2. PICK a \in z + 1 .. K : a = z + 1 /\ a \in 1 .. K
    BY <1>5, <2>1
  <2>3. PICK j \in 1 .. m * K : j = ((i - 1) * K) + a /\ j \in Nat /\ y[a] = b[j]
    BY <1>7, <2>2
  <2>4. ~(j <= n)
    BY <1>3, <1>4, <2>2, <2>3
  <2> QED
    BY <1>8, <2>2, <2>3, <2>4
<1>11. z \in 0 .. Len(y)
  BY <1>6
<1>12. get_dir_items(y) = SubSeq(y, 1, z)
  BY <1>6, <1>9, <1>10, <1>11, DirCut
<1>13. PICK c \in Seq(Slots) : c = SubSeq(y, 1, z) /\ Len(c) = z /\ \A x \in 1 .. z : c[x] = y[x]
  BY <1>11, Start
<1>14. \A x \in 1 .. z : c[x] = b[((i - 1) * K) + x]
  <2> TAKE x \in 1 .. z
  <2>1. x \in 1 .. K
    BY <1>5
  <2> QED
    BY <1>7, <1>13, <2>1
<1>15. z = IF i * K <= 2 + Len(u) THEN K
           ELSE IF (i - 1) * K <= 2 + Len(u) THEN (2 + Len(u)) - ((i - 1) * K) ELSE 0
  BY <1>1, <1>3, <1>4
<1>16. c = get_dir_items(d.data[s[i]]) /\ \A x \in 1 .. z : c[x] = Content(d, s)[((i - 1) * K) + x]
  BY <1>2, <1>6, <1>12, <1>13, <1>14
<1> QED
  BY <1>13, <1>15, <1>16

(* What is left of a list behind its first k items *)
LEMMA FromIs ==
    ASSUME NEW u \in Seq(Slots), NEW k \in 1 .. Len(u) + 1
    PROVE  /\ From(u, k) \in Seq(Slots) /\ Len(From(u, k)) = (Len(u) + 1) - k
           /\ \A i \in 1 .. (Len(u) + 1) - k : From(u, k)[i] = u[(k + i) - 1]
<1>1. PICK m \in Nat : m = Len(u)
  BY LenProperties
<1>2. k \in Nat /\ 1 <= k /\ k <= m + 1 /\ m <= Len(u)
  BY <1>1
<1> QED
  BY <1>1, <1>2, Cut DEF From

(* The clusters of a directory without gaps, read one by one, give what    *)
(* they give read as one.                                                  *)
LEMMA ItemsFlat ==
    ASSUME NEW d \in Disks, NEW s \in Seq(Clusters), s # <<>>, NEW u, Lists(Content(d, s), 2, u)
    PROVE  ItemsIn(d, s) = u
<1> DEFINE cut(i) == IF i * K <= 2 + Len(u) THEN (i * K) - 2 ELSE Len(u)
<1>1. PICK m \in Nat, l \in Nat : m = Len(s) /\ l = Len(u) /\ m # 0
  BY LenProperties, EmptySeq DEF Lists
<1>2. PICK b \in Seq(Slots) : b = Content(d, s) /\ Len(b) = m * K
  BY <1>1, ContentIs
<1>3. 2 + l <= m * K /\ u \in Seq(Slots)
  BY <1>1, <1>2 DEF Lists
<1>4. PICK g : GatheredBy(d, s, g)
  BY Gathered
<1>5. /\ ItemsIn(d, s) = g[m] /\ g[0] = <<>>
      /\ \A i \in 0 .. m : g[i] \in Seq(Slots)
      /\ \A i \in 1 .. m : g[i] = g[i - 1] \o ItemsOf(d, s, i)
      /\ \A i \in 1 .. m : ItemsOf(d, s, i) \in Seq(Slots)
  BY <1>1, <1>4 DEF GatheredBy
<1>6. K \in Nat /\ K > 1
  BY Sizes0
<1>7. \A i \in 1 .. m : \E c \in Seq(Slots), z \in 0 .. K :
         /\ ItemsOf(d, s, i) = From(c, IF i = 1 THEN 3 ELSE 1) /\ Len(c) = z
         /\ z = IF i * K <= 2 + l THEN K ELSE IF (i - 1) * K <= 2 + l THEN (2 + l) - ((i - 1) * K) ELSE 0
         /\ \A x \in 1 .. z : c[x] = b[((i - 1) * K) + x]
  <2> TAKE i \in 1 .. m
  <2>1. PICK c \in Seq(Slots), z \in 0 .. K :
              /\ c = get_dir_items(d.data[s[i]]) /\ Len(c) = z
              /\ z = IF i * K <= 2 + Len(u) THEN K
                     ELSE IF (i - 1) * K <= 2 + Len(u) THEN (2 + Len(u)) - ((i - 1) * K) ELSE 0
              /\ \A x \in 1 .. z : c[x] = Content(d, s)[((i - 1) * K) + x]
    <3>1. i \in 1 .. Len(s)
      BY <1>1
    <3>2. BlockEnds(d, s, u, i)
      BY <3>1, BlockItems
    <3> QED
      BY <3>2 DEF BlockEnds
  <2>2. ItemsOf(d, s, i) = From(c, IF i = 1 THEN 3 ELSE 1)
    BY <2>1 DEF ItemsOf
  <2> QED
    BY <1>1, <1>2, <2>1, <2>2
<1>8. \A x \in 1 .. l : b[2 + x] = u[x]
  BY <1>1, <1>2 DEF Lists
<1> DEFINE Right(i) == Len(g[i]) = cut(i) /\ \A x \in 1 .. cut(i) : g[i][x] = u[x]
           S == {n \in Nat : n < m => Right(n + 1)}
<1>9. 0 \in S
  <2>1. PICK c \in Seq(Slots), z \in 0 .. K :
         /\ ItemsOf(d, s, 1) = From(c, 3) /\ Len(c) = z
         /\ z = IF K <= 2 + l THEN K ELSE 2 + l
         /\ \A x \in 1 .. z : c[x] = b[x]
    <3>1. 1 \in 1 .. m /\ 1 * K = K /\ (1 - 1) * K = 0 /\ 0 <= 2 + l /\ (2 + l) - 0 = 2 + l
      BY <1>1, <1>6
    <3>2. \A x \in 1 .. K : 0 + x = x
      BY <1>6
    <3>3. PICK c \in Seq(Slots), z \in 0 .. K :
         /\ ItemsOf(d, s, 1) = From(c, IF 1 = 1 THEN 3 ELSE 1) /\ Len(c) = z
         /\ z = IF 1 * K <= 2 + l THEN K ELSE IF (1 - 1) * K <= 2 + l THEN (2 + l) - ((1 - 1) * K) ELSE 0
         /\ \A x \in 1 .. z : c[x] = b[((1 - 1) * K) + x]
      BY <1>7, <3>1
    <3>4. z = IF K <= 2 + l THEN K ELSE 2 + l
      BY <3>1, <3>3
    <3>5. \A x \in 1 .. z : c[x] = b[x]
      <4> TAKE x \in 1 .. z
      <4>1. x \in 1 .. K
        BY <1>6
      <4> QED
        BY <3>1, <3>2, <3>3, <4>1
    <3> QED
      BY <3>3, <3>4, <3>5
  <2>2. z >= 2 /\ 3 \in 1 .. Len(c) + 1 /\ (Len(c) + 1) - 3 = z - 2
    BY <1>6, <2>1
  <2>3. PICK v \in Seq(Slots) : /\ v = From(c, 3) /\ Len(v) = z - 2
                               /\ \A i \in 1 .. z - 2 : v[i] = c[(3 + i) - 1]
    <3>1. PICK k \in 1 .. Len(c) + 1 : k = 3
      BY <2>2
    <3>2. (Len(c) + 1) - k = z - 2
      BY <2>2, <3>1
    <3>3. /\ From(c, k) \in Seq(Slots) /\ Len(From(c, k)) = (Len(c) + 1) - k
          /\ \A i \in 1 .. (Len(c) + 1) - k : From(c, k)[i] = c[(k + i) - 1]
      BY FromIs
    <3> QED
      BY <3>1, <3>2, <3>3
  <2>4. g[1] = v
    <3>1. 1 \in 1 .. m /\ 1 - 1 = 0
      BY <1>1
    <3>2. g[1] = <<>> \o v
      BY <1>5, <2>1, <2>3, <3>1
    <3> QED
      BY <3>2, ConcatEmptySeq
  <2>5. cut(1) = z - 2
    BY <1>1, <1>6, <2>1
  <2>6. \A x \in 1 .. z - 2 : v[x] = u[x]
    <3> TAKE x \in 1 .. z - 2
    <3>1. 2 + x \in 1 .. z /\ x \in 1 .. l /\ (3 + x) - 1 = 2 + x
      BY <2>1, <2>2
    <3> QED
      BY <1>8, <2>1, <2>3, <3>1
  <2> HIDE DEF cut
  <2> QED
    BY <2>3, <2>4, <2>5, <2>6
<1>10. ASSUME NEW n \in S PROVE n + 1 \in S
  <2>1. SUFFICES ASSUME n + 1 < m PROVE Right((n + 1) + 1)
    OBVIOUS
  <2>2. PICK i \in 1 .. m : /\ i = n + 2 /\ i - 1 = n + 1 /\ i # 1 /\ (n + 1) + 1 = i
                          /\ i - 1 \in 0 .. m /\ n < m
    BY <1>1, <2>1
  <2>3. Right(i - 1)
    BY <2>2
  <2>4. PICK p \in Nat, q \in Nat : p = (i - 1) * K /\ q = i * K /\ q = p + K /\ p >= K
    <3>1. (i - 1) * K \in Nat /\ i * K = ((i - 1) * K) + K
      BY <1>6
    <3>2. (i - 1) * K = (n * K) + K /\ n * K \in Nat
      BY <1>6, <2>2
    <3> QED
      BY <1>6, <3>1, <3>2
  <2>5. PICK c \in Seq(Slots), z \in 0 .. K :
         /\ ItemsOf(d, s, i) = From(c, IF i = 1 THEN 3 ELSE 1) /\ Len(c) = z
         /\ z = IF i * K <= 2 + l THEN K ELSE IF (i - 1) * K <= 2 + l THEN (2 + l) - ((i - 1) * K) ELSE 0
         /\ \A x \in 1 .. z : c[x] = b[((i - 1) * K) + x]
    BY <1>7
  <2>6. z = (IF q <= 2 + l THEN K ELSE IF p <= 2 + l THEN (2 + l) - p ELSE 0)
    BY <2>4, <2>5
  <2>7. From(c, 1) = c
    BY <2>5, SubSeqFull DEF From
  <2>8. PICK w \in Seq(Slots) : w = g[i - 1]
    BY <1>5, <2>2
  <2>9. g[i] = w \o c
    <3>1. ItemsOf(d, s, i) = c
      BY <2>2, <2>5, <2>7
    <3> QED
      BY <1>5, <2>8, <3>1
  <2>10. PICK k \in Nat : k = (IF p <= 2 + l THEN p - 2 ELSE l) /\ cut(i - 1) = k
    <3>1. cut(i - 1) = IF p <= 2 + l THEN p - 2 ELSE l
      BY <1>1, <2>4
    <3>2. (IF p <= 2 + l THEN p - 2 ELSE l) \in Nat
      BY <1>6, <2>4
    <3> QED
      BY <3>1, <3>2
  <2>11. PICK j \in Nat : j = (IF q <= 2 + l THEN q - 2 ELSE l) /\ cut(i) = j
    <3>1. cut(i) = IF q <= 2 + l THEN q - 2 ELSE l
      BY <1>1, <2>4
    <3>2. (IF q <= 2 + l THEN q - 2 ELSE l) \in Nat
      BY <1>6, <2>4
    <3> QED
      BY <3>1, <3>2
  <2>12. j = k + z
    BY <2>4, <2>6, <2>10, <2>11
  <2>13. Len(w) = k /\ \A x \in 1 .. k : w[x] = u[x]
    BY <2>3, <2>8, <2>10
  <2>14. Len(w \o c) = k + z /\ \A x \in 1 .. k + z : (w \o c)[x] = IF x <= k THEN w[x] ELSE c[x - k]
    <3>1. Len(w \o c) = Len(w) + Len(c)
          /\ \A x \in 1 .. Len(w) + Len(c) : (w \o c)[x] = IF x <= Len(w) THEN w[x] ELSE c[x - Len(w)]
      BY ConcatProperties
    <3> QED
      BY <2>5, <2>13, <3>1
  <2>15. \A x \in 1 .. z : c[x] = u[k + x]
    <3> TAKE x \in 1 .. z
    <3>1. c[x] = b[p + x]
      BY <2>4, <2>5
    <3>2. k + x \in 1 .. l /\ p + x = 2 + (k + x)
      BY <2>4, <2>6, <2>10, <1>6
    <3> QED
      BY <1>8, <3>1, <3>2
  <2>16. \A x \in 1 .. j : (w \o c)[x] = u[x]
    <3> TAKE x \in 1 .. j
    <3>1. CASE x <= k
      BY <2>12, <2>13, <2>14, <3>1
    <3>2. CASE ~(x <= k)
      <4>1. x - k \in 1 .. z /\ k + (x - k) = x
        BY <2>12, <3>2
      <4>2. (w \o c)[x] = c[x - k]
        BY <2>12, <2>14, <3>2
      <4>3. c[x - k] = u[k + (x - k)]
        BY <2>15, <4>1
      <4> QED
        BY <4>1, <4>2, <4>3
    <3> QED
      BY <3>1, <3>2
  <2> HIDE DEF cut
  <2> QED
    BY <2>2, <2>9, <2>11, <2>12, <2>14, <2>16
<1>11. S \in SUBSET Nat
  OBVIOUS
<1> HIDE DEF S
<1>12. S = Nat
  BY <1>9, <1>10, <1>11, NatSet
<1>13. Right(m)
  <2>1. PICK n \in Nat : n = m - 1 /\ n < m /\ n + 1 = m
    BY <1>1
  <2>2. n \in S
    BY <1>12
  <2> QED
    BY <2>1, <2>2 DEF S
<1>14. cut(m) = l
  BY <1>1, <1>3, <1>6
<1> HIDE DEF cut
<1>15. g[m] \in Seq(Slots) /\ Len(g[m]) = l /\ \A x \in 1 .. l : g[m][x] = u[x]
  <2>1. m \in 0 .. m
    BY <1>1
  <2> QED
    BY <1>5, <1>13, <1>14, <2>1
<1> QED
  BY <1>1, <1>3, <1>5, <1>15, SeqEqual

(* The directory at cluster c holds u, and nothing else. *)
Skip(c) == IF c = Root THEN 1 ELSE 2
Holds(d, c, u) == /\ Lists(SlotsOf(d, c), Skip(c), u)
                  /\ c # Root => retrieve_sectors_fs(d.fat, c) # <<>>
Unique(u) == \A i, j \in 1 .. Len(u) : NameOf(u[i]) = NameOf(u[j]) => i = j

LEMMA HoldsIs ==
    ASSUME NEW d \in Disks, NEW c, NEW u, Holds(d, c, u)
    PROVE  retrieve_folders_from_folder(d, c) = u /\ get_os_dir_content(d, c) = u
<1>1. CASE c = Root
  <2>1. PICK k \in Nat : k = 1 /\ k + 1 = 2
    OBVIOUS
  <2>2. Lists(d.root, k, u)
    BY <1>1, <2>1 DEF Holds, Skip, SlotsOf
  <2>3. From(get_dir_items(d.root), 2) = u
    BY <2>1, <2>2, ListGiven
  <2> QED
    BY <1>1, <2>3 DEF retrieve_folders_from_folder, get_os_dir_content
<1>2. CASE c # Root
  <2>1. PICK k \in Nat : k = 2 /\ k + 1 = 3
    OBVIOUS
  <2>2. PICK s \in Seq(Clusters) : s = retrieve_sectors_fs(d.fat, c) /\ s # <<>>
    BY <1>2, ChainOf DEF Holds
  <2>3. Lists(Content(d, s), 2, u)
    BY <1>2, <2>2 DEF Holds, Skip, SlotsOf
  <2>4. From(get_dir_items(Content(d, s)), 3) = u
    BY <2>1, <2>3, ListGiven
  <2>5. ItemsIn(d, s) = u
    BY <2>2, <2>3, ItemsFlat
  <2> QED
    BY <1>2, <2>2, <2>4, <2>5 DEF retrieve_folders_from_folder, get_os_dir_content
<1> QED
  BY <1>1, <1>2

LEMMA NoSlot == NoItem \notin Slots
<1>1. ASSUME NoItem \in Slots PROVE FALSE
  <2>1. NoItem.size \in 0 .. W - 1
    BY <1>1 DEF Slots
  <2>2. NoItem.size = -1
    BY DEF NoItem, Slot
  <2> QED
    BY <2>1, <2>2
<1> QED
  BY <1>1

LEMMA IndexFound ==
    ASSUME NEW u \in Seq(Slots), NEW name
    PROVE  IF \E i \in 1 .. Len(u) : NameOf(u[i]) = name
           THEN /\ IndexOf(u, name) \in 1 .. Len(u) /\ NameOf(u[IndexOf(u, name)]) = name
                /\ Found(u, name) = u[IndexOf(u, name)] /\ Found(u, name) # NoItem
                /\ Found(u, name) \in Slots
           ELSE IndexOf(u, name) = 0 /\ Found(u, name) = NoItem
<1> DEFINE I == {i \in 1 .. Len(u) : NameOf(u[i]) = name}
<1>1. PICK m \in Nat : m = Len(u)
  BY LenProperties
<1>2. IndexOf(u, name) = IF I # {} THEN Min(I) ELSE 0
  BY DEF IndexOf, SelectInSeq
<1>3. CASE \E i \in 1 .. Len(u) : NameOf(u[i]) = name
  <2>1. I \in SUBSET Nat /\ I # {}
    BY <1>1, <1>3
  <2>2. \E i \in I : \A j \in I : i <= j
    BY <2>1, Least
  <2>3. PICK j \in I : j = Min(I)
    BY <2>2 DEF Min
  <2>4. IndexOf(u, name) = j /\ j \in 1 .. Len(u) /\ NameOf(u[j]) = name
    BY <1>2, <2>1, <2>3
  <2>5. u[j] \in Slots
    BY <2>4, ElementOfSeq
  <2>6. j # 0
    BY <1>1, <2>4
  <2>7. Found(u, name) = u[j]
    BY <2>4, <2>6 DEF Found
  <2> QED
    BY <1>3, <2>4, <2>5, <2>7, NoSlot
<1>4. CASE ~\E i \in 1 .. Len(u) : NameOf(u[i]) = name
  <2>1. I = {}
    BY <1>4
  <2> HIDE DEF I
  <2>2. IndexOf(u, name) = 0
    BY <1>2, <2>1
  <2> QED
    BY <1>4, <2>2 DEF Found
<1> QED
  BY <1>3, <1>4

LEMMA FoundAt ==
    ASSUME NEW u \in Seq(Slots), Unique(u), NEW i \in 1 .. Len(u)
    PROVE  /\ IndexOf(u, NameOf(u[i])) = i /\ Found(u, NameOf(u[i])) = u[i]
           /\ Found(u, NameOf(u[i])) # NoItem
<1>1. PICK name : name = NameOf(u[i])
  OBVIOUS
<1>2. /\ IndexOf(u, name) \in 1 .. Len(u) /\ NameOf(u[IndexOf(u, name)]) = name
      /\ Found(u, name) = u[IndexOf(u, name)] /\ Found(u, name) # NoItem
  BY <1>1, IndexFound
<1>3. IndexOf(u, name) = i
  BY <1>1, <1>2 DEF Unique
<1> QED
  BY <1>1, <1>2, <1>3

LEMMA FoundSame ==
    ASSUME NEW u \in Seq(Slots), NEW v \in Seq(Slots), Unique(u), Unique(v), NEW name,
           \A i \in 1 .. Len(u) : NameOf(u[i]) = name => \E j \in 1 .. Len(v) : v[j] = u[i],
           \A j \in 1 .. Len(v) : NameOf(v[j]) = name => \E i \in 1 .. Len(u) : v[j] = u[i]
    PROVE  Found(u, name) = Found(v, name)
<1>1. CASE \E i \in 1 .. Len(u) : NameOf(u[i]) = name
  <2>1. PICK i \in 1 .. Len(u) : NameOf(u[i]) = name
    BY <1>1
  <2>2. PICK j \in 1 .. Len(v) : v[j] = u[i]
    BY <2>1
  <2>3. Found(u, NameOf(u[i])) = u[i] /\ Found(v, NameOf(v[j])) = v[j]
    BY FoundAt
  <2> QED
    BY <2>1, <2>2, <2>3
<1>2. CASE ~\E i \in 1 .. Len(u) : NameOf(u[i]) = name
  <2>1. ~\E j \in 1 .. Len(v) : NameOf(v[j]) = name
    BY <1>2
  <2>2. Found(u, name) = NoItem
    BY <1>2, IndexFound
  <2>3. Found(v, name) = NoItem
    BY <2>1, IndexFound
  <2> QED
    BY <2>2, <2>3
<1> QED
  BY <1>1, <1>2

(* What a change of the list of a directory does to what is found. *)
Changed(u, v, name, item) ==
    /\ v \in Seq(Slots) /\ Unique(v) /\ Found(v, name) = item
    /\ \A x : x # name => Found(v, x) = Found(u, x)

LEMMA Appended ==
    ASSUME NEW u \in Seq(Slots), Unique(u), NEW s \in Slots, Found(u, NameOf(s)) = NoItem
    PROVE  Changed(u, Append(u, s), NameOf(s), s)
<1>1. PICK m \in Nat : m = Len(u)
  BY LenProperties
<1>2. PICK v \in Seq(Slots) : /\ v = Append(u, s) /\ Len(v) = m + 1 /\ v[m + 1] = s
                            /\ \A i \in 1 .. m : v[i] = u[i]
  <2>1. /\ Append(u, s) \in Seq(Slots) /\ Len(Append(u, s)) = Len(u) + 1
        /\ \A i \in 1 .. Len(u) : Append(u, s)[i] = u[i]
        /\ Append(u, s)[Len(u) + 1] = s
    BY AppendProperties
  <2> QED
    BY <1>1, <2>1
<1>3. \A i \in 1 .. m : NameOf(u[i]) # NameOf(s)
  <2>1. ~\E i \in 1 .. m : NameOf(u[i]) = NameOf(s)
    BY <1>1, IndexFound
  <2> QED
    BY <2>1
<1>4. \A i \in 1 .. m + 1 : i \in 1 .. m \/ i = m + 1
  OBVIOUS
<1>5. Unique(v)
  BY <1>1, <1>2, <1>3, <1>4 DEF Unique
<1>6. m + 1 \in 1 .. Len(v)
  BY <1>2
<1>7. Found(v, NameOf(s)) = s
  BY <1>2, <1>5, <1>6, FoundAt
<1>8. ASSUME NEW x, x # NameOf(s) PROVE Found(v, x) = Found(u, x)
  <2>1. \A i \in 1 .. Len(u) : NameOf(u[i]) = x => \E j \in 1 .. Len(v) : v[j] = u[i]
    <3>1. \A i \in 1 .. m : i \in 1 .. m + 1
      OBVIOUS
    <3> QED
      BY <1>1, <1>2, <3>1
  <2>2. \A j \in 1 .. Len(v) : NameOf(v[j]) = x => \E i \in 1 .. Len(u) : v[j] = u[i]
    BY <1>1, <1>2, <1>4, <1>8
  <2> QED
    BY <1>5, <2>1, <2>2, FoundSame
<1> QED
  BY <1>2, <1>5, <1>7, <1>8 DEF Changed

LEMMA Replaced ==
    ASSUME NEW u \in Seq(Slots), Unique(u), NEW i \in 1 .. Len(u), NEW s \in Slots,
           NameOf(s) = NameOf(u[i])
    PROVE  Changed(u, [u EXCEPT ![i] = s], NameOf(s), s)
<1>1. PICK m \in Nat : m = Len(u)
  BY LenProperties
<1>2. PICK v \in Seq(Slots) : /\ v = [u EXCEPT ![i] = s] /\ Len(v) = m
                            /\ \A j \in 1 .. m : v[j] = IF j = i THEN s ELSE u[j]
  <2>1. /\ [u EXCEPT ![i] = s] \in Seq(Slots)
        /\ Len([u EXCEPT ![i] = s]) = Len(u)
        /\ \A j \in 1 .. Len(u) : [u EXCEPT ![i] = s][j] = IF j = i THEN s ELSE u[j]
    BY ExceptSeq
  <2> QED
    BY <1>1, <2>1
<1>3. \A j \in 1 .. m : NameOf(v[j]) = NameOf(u[j])
  BY <1>2
<1>4. Unique(v)
  BY <1>1, <1>2, <1>3 DEF Unique
<1>5. Found(v, NameOf(s)) = s
  <2>1. i \in 1 .. Len(v) /\ v[i] = s
    BY <1>1, <1>2
  <2> QED
    BY <1>4, <2>1, FoundAt
<1>6. ASSUME NEW x, x # NameOf(s) PROVE Found(v, x) = Found(u, x)
  <2>1. \A j \in 1 .. Len(u) : NameOf(u[j]) = x => \E k \in 1 .. Len(v) : v[k] = u[j]
    BY <1>1, <1>2, <1>6
  <2>2. \A j \in 1 .. Len(v) : NameOf(v[j]) = x => \E k \in 1 .. Len(u) : v[j] = u[k]
    BY <1>1, <1>2, <1>6
  <2> QED
    BY <1>4, <2>1, <2>2, FoundSame
<1> QED
  BY <1>2, <1>4, <1>5, <1>6 DEF Changed

(* A sequence without its element number i *)
LEMMA WithoutIs ==
    ASSUME NEW X, NEW u \in Seq(X), NEW i \in 1 .. Len(u)
    PROVE  /\ RemoveAt(u, i) \in Seq(X) /\ Len(RemoveAt(u, i)) = Len(u) - 1
           /\ \A j \in 1 .. Len(u) - 1 : RemoveAt(u, i)[j] = IF j < i THEN u[j] ELSE u[j + 1]
<1>1. PICK m \in Nat : m = Len(u)
  BY LenProperties
<1>2. PICK a \in Seq(X) : a = SubSeq(u, 1, i - 1) /\ Len(a) = i - 1 /\ \A j \in 1 .. i - 1 : a[j] = u[j]
  <2>1. PICK k \in 0 .. Len(u) : k = i - 1
    BY <1>1
  <2> QED
    BY <2>1, Start
<1>3. PICK c \in Seq(X) : /\ c = SubSeq(u, i + 1, m) /\ Len(c) = m - i
                        /\ \A j \in 1 .. m - i : c[j] = u[i + j]
  <2>1. PICK k \in Nat : k = i + 1 /\ 1 <= k /\ k <= m + 1 /\ m <= Len(u) /\ (m + 1) - k = m - i
    BY <1>1
  <2>2. /\ SubSeq(u, k, m) \in Seq(X) /\ Len(SubSeq(u, k, m)) = (m + 1) - k
        /\ \A j \in 1 .. (m + 1) - k : SubSeq(u, k, m)[j] = u[(k + j) - 1]
    BY <2>1, Cut
  <2>3. \A j \in 1 .. m - i : (k + j) - 1 = i + j
    BY <2>1
  <2>4. /\ SubSeq(u, k, m) \in Seq(X) /\ Len(SubSeq(u, k, m)) = m - i
        /\ \A j \in 1 .. m - i : SubSeq(u, k, m)[j] = u[i + j]
    <3> HIDE <2>3
    <3>1. \A j \in 1 .. m - i : SubSeq(u, k, m)[j] = u[(k + j) - 1]
      BY <2>1, <2>2
    <3> QED
      BY <2>1, <2>2, <2>3, <3>1
  <2> QED
    BY <2>1, <2>4
<1>4. RemoveAt(u, i) = a \o c
  BY <1>1, <1>2, <1>3 DEF RemoveAt
<1>5. /\ a \o c \in Seq(X) /\ Len(a \o c) = Len(a) + Len(c)
      /\ \A j \in 1 .. Len(a) + Len(c) : (a \o c)[j] = IF j <= Len(a) THEN a[j] ELSE c[j - Len(a)]
  BY ConcatProperties
<1>6. Len(a) + Len(c) = m - 1
  <2>1. (i - 1) + (m - i) = m - 1
    BY <1>1
  <2> QED
    BY <1>2, <1>3, <2>1
<1>7. ASSUME NEW j \in 1 .. m - 1 PROVE (a \o c)[j] = IF j < i THEN u[j] ELSE u[j + 1]
  <2>1. CASE j < i
    <3>1. j <= Len(a) /\ j \in 1 .. i - 1
      BY <1>1, <1>2, <2>1
    <3> QED
      BY <1>2, <1>5, <1>6, <2>1, <3>1
  <2>2. CASE ~(j < i)
    <3>1. ~(j <= Len(a)) /\ j - Len(a) \in 1 .. m - i /\ i + (j - Len(a)) = j + 1
      BY <1>1, <1>2, <2>2
    <3>2. (a \o c)[j] = c[j - Len(a)] /\ c[j - Len(a)] = u[i + (j - Len(a))]
      BY <1>3, <1>5, <1>6, <3>1
    <3> QED
      BY <2>2, <3>1, <3>2
  <2> QED
    BY <2>1, <2>2
<1> QED
  BY <1>1, <1>4, <1>5, <1>6, <1>7

LEMMA Removed ==
    ASSUME NEW u \in Seq(Slots), Unique(u), NEW i \in 1 .. Len(u)
    PROVE  Changed(u, RemoveAt(u, i), NameOf(u[i]), NoItem)
<1>1. PICK m \in Nat : m = Len(u)
  BY LenProperties
<1>2. PICK v \in Seq(Slots) : /\ v = RemoveAt(u, i) /\ Len(v) = m - 1
                            /\ \A j \in 1 .. m - 1 : v[j] = IF j < i THEN u[j] ELSE u[j + 1]
  BY <1>1, WithoutIs
<1> DEFINE to(j) == IF j < i THEN j ELSE j + 1
<1>3. /\ \A j \in 1 .. m - 1 : to(j) \in 1 .. m /\ to(j) # i /\ v[j] = u[to(j)]
      /\ \A j, k \in 1 .. m - 1 : to(j) = to(k) => j = k
      /\ \A j \in 1 .. m : j # i => \E k \in 1 .. m - 1 : j = to(k)
  <2>1. \A j \in 1 .. m - 1 : to(j) \in 1 .. m /\ to(j) # i /\ v[j] = u[to(j)]
    BY <1>1, <1>2
  <2>2. \A j, k \in 1 .. m - 1 : to(j) = to(k) => j = k
    BY <1>1
  <2>3. ASSUME NEW j \in 1 .. m, j # i PROVE \E k \in 1 .. m - 1 : j = to(k)
    <3>1. CASE j < i
      <4>1. j \in 1 .. m - 1 /\ j = to(j)
        BY <1>1, <3>1
      <4> QED
        BY <4>1
    <3>2. CASE ~(j < i)
      <4>1. j - 1 \in 1 .. m - 1 /\ j = to(j - 1)
        BY <1>1, <2>3, <3>2
      <4> QED
        BY <4>1
    <3> QED
      BY <3>1, <3>2
  <2> QED
    BY <2>1, <2>2, <2>3
<1> HIDE DEF to
<1>4. Unique(v)
  <2>1. SUFFICES ASSUME NEW j \in 1 .. m - 1, NEW k \in 1 .. m - 1, NameOf(v[j]) = NameOf(v[k])
                 PROVE  j = k
    BY <1>2 DEF Unique
  <2>2. to(j) = to(k)
    BY <1>1, <1>3, <2>1 DEF Unique
  <2> QED
    BY <1>3, <2>2
<1>5. Found(v, NameOf(u[i])) = NoItem
  <2>1. ~\E j \in 1 .. Len(v) : NameOf(v[j]) = NameOf(u[i])
    BY <1>1, <1>2, <1>3 DEF Unique
  <2> QED
    BY <2>1, IndexFound
<1>6. ASSUME NEW x, x # NameOf(u[i]) PROVE Found(v, x) = Found(u, x)
  <2>1. \A j \in 1 .. Len(u) : NameOf(u[j]) = x => \E k \in 1 .. Len(v) : v[k] = u[j]
    BY <1>1, <1>2, <1>3, <1>6
  <2>2. \A j \in 1 .. Len(v) : NameOf(v[j]) = x => \E k \in 1 .. Len(u) : v[j] = u[k]
    BY <1>1, <1>2, <1>3
  <2> QED
    BY <1>4, <2>1, <2>2, FoundSame
<1> QED
  BY <1>2, <1>4, <1>5, <1>6 DEF Changed

(* The same changes in the slots of the directory. *)
LEMMA SlotAdded ==
    ASSUME NEW b, NEW k \in Nat, NEW u, Lists(b, k, u), k + Len(u) + 1 <= Len(b),
           NEW s \in Slots, s # Zero
    PROVE  Lists([b EXCEPT ![k + Len(u) + 1] = s], k, Append(u, s))
<1>1. b \in Seq(Slots) /\ u \in Seq(Slots)
  BY DEF Lists
<1>2. PICK l \in Nat, m \in Nat : l = Len(u) /\ m = Len(b) /\ k + l + 1 <= m
  BY <1>1, LenProperties
<1>3. /\ \A i \in 1 .. k : b[i] # Zero
      /\ \A i \in 1 .. l : b[k + i] = u[i] /\ u[i] # Zero
      /\ \A i \in k + l + 1 .. m : b[i] = Zero
  BY <1>2 DEF Lists
<1>4. PICK j \in 1 .. Len(b) : j = k + l + 1
  BY <1>2
<1>5. PICK c \in Seq(Slots) : /\ c = [b EXCEPT ![j] = s] /\ Len(c) = m
                            /\ \A i \in 1 .. m : c[i] = IF i = j THEN s ELSE b[i]
  <2>1. /\ [b EXCEPT ![j] = s] \in Seq(Slots) /\ Len([b EXCEPT ![j] = s]) = Len(b)
        /\ \A i \in 1 .. Len(b) : [b EXCEPT ![j] = s][i] = IF i = j THEN s ELSE b[i]
    BY <1>1, ExceptSeq
  <2> QED
    BY <1>2, <2>1
<1>6. PICK v \in Seq(Slots) : /\ v = Append(u, s) /\ Len(v) = l + 1 /\ v[l + 1] = s
                            /\ \A i \in 1 .. l : v[i] = u[i]
  <2>1. /\ Append(u, s) \in Seq(Slots) /\ Len(Append(u, s)) = Len(u) + 1
        /\ \A i \in 1 .. Len(u) : Append(u, s)[i] = u[i]
        /\ Append(u, s)[Len(u) + 1] = s
    BY <1>1, AppendProperties
  <2> QED
    BY <1>2, <2>1
<1>7. k + (l + 1) <= m
  BY <1>2
<1>8. \A i \in 1 .. k : c[i] # Zero
  <2> TAKE i \in 1 .. k
  <2>1. i \in 1 .. m /\ i # j
    BY <1>2, <1>4
  <2> QED
    BY <1>3, <1>5, <2>1
<1>9. \A i \in 1 .. l + 1 : c[k + i] = v[i] /\ v[i] # Zero
  <2> TAKE i \in 1 .. l + 1
  <2>1. CASE i = l + 1
    <3>1. k + i = j /\ k + i \in 1 .. m
      BY <1>2, <1>4, <2>1
    <3> QED
      BY <1>5, <1>6, <2>1, <3>1
  <2>2. CASE i # l + 1
    <3>1. k + i # j /\ k + i \in 1 .. m /\ i \in 1 .. l
      BY <1>2, <1>4, <2>2
    <3> QED
      BY <1>3, <1>5, <1>6, <3>1
  <2> QED
    BY <2>1, <2>2
<1>10. \A i \in k + (l + 1) + 1 .. m : c[i] = Zero
  <2> TAKE i \in k + (l + 1) + 1 .. m
  <2>1. i \in 1 .. m /\ i # j /\ i \in k + l + 1 .. m
    BY <1>2, <1>4
  <2> QED
    BY <1>3, <1>5, <2>1
<1>11. Lists(c, k, v)
  BY <1>5, <1>6, <1>7, <1>8, <1>9, <1>10 DEF Lists
<1> QED
  BY <1>2, <1>4, <1>5, <1>6, <1>11

LEMMA SlotSet ==
    ASSUME NEW b, NEW k \in Nat, NEW u, Lists(b, k, u), NEW i \in 1 .. Len(u),
           NEW s \in Slots, s # Zero
    PROVE  Lists([b EXCEPT ![k + i] = s], k, [u EXCEPT ![i] = s])
<1>1. b \in Seq(Slots) /\ u \in Seq(Slots)
  BY DEF Lists
<1>2. PICK l \in Nat, m \in Nat : l = Len(u) /\ m = Len(b) /\ k + l <= m
  <2>1. Len(u) \in Nat /\ Len(b) \in Nat /\ k + Len(u) <= Len(b)
    BY <1>1, LenProperties DEF Lists
  <2> QED
    BY <2>1
<1>3. /\ \A x \in 1 .. k : b[x] # Zero
      /\ \A x \in 1 .. l : b[k + x] = u[x] /\ u[x] # Zero
      /\ \A x \in k + l + 1 .. m : b[x] = Zero
  BY <1>2 DEF Lists
<1>4. PICK j \in 1 .. Len(b) : j = k + i
  BY <1>2
<1>5. PICK c \in Seq(Slots) : /\ c = [b EXCEPT ![j] = s] /\ Len(c) = m
                            /\ \A x \in 1 .. m : c[x] = IF x = j THEN s ELSE b[x]
  <2>1. /\ [b EXCEPT ![j] = s] \in Seq(Slots) /\ Len([b EXCEPT ![j] = s]) = Len(b)
        /\ \A x \in 1 .. Len(b) : [b EXCEPT ![j] = s][x] = IF x = j THEN s ELSE b[x]
    BY <1>1, ExceptSeq
  <2> QED
    BY <1>2, <2>1
<1>6. PICK v \in Seq(Slots) : /\ v = [u EXCEPT ![i] = s] /\ Len(v) = l
                            /\ \A x \in 1 .. l : v[x] = IF x = i THEN s ELSE u[x]
  <2>1. /\ [u EXCEPT ![i] = s] \in Seq(Slots) /\ Len([u EXCEPT ![i] = s]) = Len(u)
        /\ \A x \in 1 .. Len(u) : [u EXCEPT ![i] = s][x] = IF x = i THEN s ELSE u[x]
    BY <1>1, ExceptSeq
  <2> QED
    BY <1>2, <2>1
<1>7. \A x \in 1 .. k : c[x] # Zero
  <2> TAKE x \in 1 .. k
  <2>1. x \in 1 .. m /\ x # j
    BY <1>2, <1>4
  <2> QED
    BY <1>3, <1>5, <2>1
<1>8. \A x \in 1 .. l : c[k + x] = v[x] /\ v[x] # Zero
  <2> TAKE x \in 1 .. l
  <2>1. k + x \in 1 .. m /\ (k + x = j <=> x = i)
    BY <1>2, <1>4
  <2> QED
    BY <1>3, <1>5, <1>6, <2>1
<1>9. \A x \in k + l + 1 .. m : c[x] = Zero
  <2> TAKE x \in k + l + 1 .. m
  <2>1. x \in 1 .. m /\ x # j
    BY <1>2, <1>4
  <2> QED
    BY <1>3, <1>5, <2>1
<1>10. Lists(c, k, v)
  BY <1>2, <1>5, <1>6, <1>7, <1>8, <1>9 DEF Lists
<1> QED
  BY <1>4, <1>5, <1>6, <1>10

LEMMA SlotErased ==
    ASSUME NEW b, NEW k \in Nat, NEW u, Lists(b, k, u), NEW i \in 1 .. Len(u)
    PROVE  /\ Lists(Append(RemoveAt(b, k + i), Zero), k, RemoveAt(u, i))
           /\ Append(RemoveAt(b, k + i), Zero) \in Seq(Slots)
           /\ Len(Append(RemoveAt(b, k + i), Zero)) = Len(b)
           /\ \A x \in 1 .. k : Append(RemoveAt(b, k + i), Zero)[x] = b[x]
<1>1. b \in Seq(Slots) /\ u \in Seq(Slots)
  BY DEF Lists
<1>2. PICK l \in Nat, m \in Nat : l = Len(u) /\ m = Len(b) /\ k + l <= m
  <2>1. Len(u) \in Nat /\ Len(b) \in Nat /\ k + Len(u) <= Len(b)
    BY <1>1, LenProperties DEF Lists
  <2> QED
    BY <2>1
<1>3. /\ \A x \in 1 .. k : b[x] # Zero
      /\ \A x \in 1 .. l : b[k + x] = u[x] /\ u[x] # Zero
      /\ \A x \in k + l + 1 .. m : b[x] = Zero
  BY <1>2 DEF Lists
<1>4. PICK j \in 1 .. Len(b) : j = k + i
  BY <1>2
<1>5. PICK a \in Seq(Slots) : /\ a = RemoveAt(b, j) /\ Len(a) = m - 1
                            /\ \A x \in 1 .. m - 1 : a[x] = IF x < j THEN b[x] ELSE b[x + 1]
  <2>1. /\ RemoveAt(b, j) \in Seq(Slots) /\ Len(RemoveAt(b, j)) = Len(b) - 1
        /\ \A x \in 1 .. Len(b) - 1 : RemoveAt(b, j)[x] = IF x < j THEN b[x] ELSE b[x + 1]
    BY <1>1, WithoutIs
  <2> QED
    BY <1>2, <2>1
<1>6. PICK c \in Seq(Slots) : /\ c = Append(a, Zero) /\ Len(c) = m /\ c[m] = Zero
                            /\ \A x \in 1 .. m - 1 : c[x] = a[x]
  <2>1. /\ Append(a, Zero) \in Seq(Slots) /\ Len(Append(a, Zero)) = Len(a) + 1
        /\ \A x \in 1 .. Len(a) : Append(a, Zero)[x] = a[x]
        /\ Append(a, Zero)[Len(a) + 1] = Zero
    BY SlotTypes, AppendProperties
  <2>2. Len(a) + 1 = m
    BY <1>5
  <2> QED
    BY <1>5, <2>1, <2>2
<1>7. PICK v \in Seq(Slots) : /\ v = RemoveAt(u, i) /\ Len(v) = l - 1
                            /\ \A x \in 1 .. l - 1 : v[x] = IF x < i THEN u[x] ELSE u[x + 1]
  <2>1. /\ RemoveAt(u, i) \in Seq(Slots) /\ Len(RemoveAt(u, i)) = Len(u) - 1
        /\ \A x \in 1 .. Len(u) - 1 : RemoveAt(u, i)[x] = IF x < i THEN u[x] ELSE u[x + 1]
    BY <1>1, WithoutIs
  <2> QED
    BY <1>2, <2>1
<1>8. \A x \in 1 .. k : c[x] = b[x]
  <2> TAKE x \in 1 .. k
  <2>1. x \in 1 .. m - 1 /\ x < j
    BY <1>2, <1>4
  <2> QED
    BY <1>5, <1>6, <2>1
<1>9. \A x \in 1 .. l - 1 : c[k + x] = v[x] /\ v[x] # Zero
  <2> TAKE x \in 1 .. l - 1
  <2>1. k + x \in 1 .. m - 1 /\ (k + x < j <=> x < i) /\ x \in 1 .. l /\ x + 1 \in 1 .. l
    BY <1>2, <1>4
  <2>2. c[k + x] = IF x < i THEN b[k + x] ELSE b[(k + x) + 1]
    BY <1>5, <1>6, <2>1
  <2>3. (k + x) + 1 = k + (x + 1)
    OBVIOUS
  <2>4. c[k + x] = IF x < i THEN b[k + x] ELSE b[k + (x + 1)]
    BY <2>2, <2>3
  <2> QED
    BY <1>3, <1>7, <2>1, <2>4
<1>10. \A x \in k + (l - 1) + 1 .. m : c[x] = Zero
  <2> TAKE x \in k + (l - 1) + 1 .. m
  <2>1. CASE x = m
    BY <1>6, <2>1
  <2>2. CASE x # m
    <3>1. x \in 1 .. m - 1 /\ ~(x < j) /\ x + 1 \in k + l + 1 .. m
      BY <1>2, <1>4, <2>2
    <3> QED
      BY <1>3, <1>5, <1>6, <3>1
  <2> QED
    BY <2>1, <2>2
<1>11. k + (l - 1) <= m
  BY <1>2
<1>13. \A x \in 1 .. k : c[x] # Zero
  BY <1>3, <1>8
<1>12. Lists(c, k, v)
  <2>1. /\ c \in Seq(Slots) /\ v \in Seq(Slots) /\ k + Len(v) <= Len(c)
        /\ \A x \in 1 .. Len(v) : c[k + x] = v[x] /\ v[x] # Zero
        /\ \A x \in k + Len(v) + 1 .. Len(c) : c[x] = Zero
    BY <1>6, <1>7, <1>9, <1>10, <1>11
  <2> QED
    BY <1>13, <2>1 DEF Lists
<1> QED
  BY <1>2, <1>4, <1>5, <1>6, <1>7, <1>8, <1>12

LEMMA SlotsGrown ==
    ASSUME NEW b, NEW k \in Nat, NEW u, Lists(b, k, u), NEW c \in Seq(Slots), Len(b) <= Len(c),
           \A i \in 1 .. Len(b) : c[i] = b[i], \A i \in Len(b) + 1 .. Len(c) : c[i] = Zero
    PROVE  Lists(c, k, u)
<1>1. b \in Seq(Slots) /\ u \in Seq(Slots)
  BY DEF Lists
<1>2. PICK l \in Nat, m \in Nat, n \in Nat :
          l = Len(u) /\ m = Len(b) /\ k + l <= m /\ n = Len(c) /\ m <= n
  <2>1. Len(u) \in Nat /\ Len(b) \in Nat /\ k + Len(u) <= Len(b) /\ Len(c) \in Nat
    BY <1>1, LenProperties DEF Lists
  <2> QED
    BY <2>1
<1>3. /\ \A x \in 1 .. k : b[x] # Zero
      /\ \A x \in 1 .. l : b[k + x] = u[x] /\ u[x] # Zero
      /\ \A x \in k + l + 1 .. m : b[x] = Zero
  BY <1>2 DEF Lists
<1>4. \A x \in 1 .. k : c[x] # Zero
  BY <1>2, <1>3
<1>5. \A x \in 1 .. l : c[k + x] = u[x] /\ u[x] # Zero
  <2> TAKE x \in 1 .. l
  <2>1. k + x \in 1 .. m
    BY <1>2
  <2> QED
    BY <1>2, <1>3, <2>1
<1>6. \A x \in k + l + 1 .. n : c[x] = Zero
  <2> TAKE x \in k + l + 1 .. n
  <2>1. CASE x <= m
    <3>1. x \in k + l + 1 .. m /\ x \in 1 .. m
      BY <1>2, <2>1
    <3> QED
      BY <1>2, <1>3, <3>1
  <2>2. CASE ~(x <= m)
    <3>1. x \in m + 1 .. n
      BY <1>2, <2>2
    <3> QED
      BY <1>2, <3>1
  <2> QED
    BY <2>1, <2>2
<1>7. k + l <= n
  BY <1>2
<1> QED
  BY <1>1, <1>2, <1>4, <1>5, <1>6, <1>7 DEF Lists

-----------------------------------------------------------------------------
(* The slots of a chain are those of its clusters.                         *)

(* Every slot of a chain is a slot of one of its clusters. *)
LEMMA SlotParts ==
    ASSUME NEW m \in Nat, NEW j \in 1 .. m * K
    PROVE  \E i \in 1 .. m, a \in 1 .. K :
              j = ((i - 1) * K) + a /\ i = ((j - 1) \div K) + 1 /\ a = ((j - 1) % K) + 1
<1>1. PICK i \in 1 .. m, a \in 1 .. K : i = ((j - 1) \div K) + 1 /\ a = ((j - 1) % K) + 1
  BY SlotAt
<1>2. K \in Nat /\ K > 0 /\ m * K \in Nat
  BY Sizes0
<1>3. PICK x \in Nat : x = j - 1
  BY <1>2
<1>4. x = (K * (x \div K)) + (x % K)
  BY <1>2
<1>5. PICK q \in Int, r \in Int : q = x \div K /\ r = x % K
  BY <1>2
<1>6. j = ((i - 1) * K) + a
  <2>1. i = q + 1 /\ a = r + 1
    BY <1>1, <1>3, <1>5
  <2>2. (i - 1) * K = K * q
    BY <1>2, <2>1
  <2> QED
    BY <1>2, <1>3, <1>4, <1>5, <2>1, <2>2
<1> QED
  BY <1>1, <1>6

LEMMA SetOf ==
    ASSUME NEW X, NEW s \in Seq(X)
    PROVE  /\ \A x : x \in ToSet(s) <=> \E i \in 1 .. Len(s) : x = s[i]
           /\ ToSet(s) \subseteq X
<1>1. DOMAIN s = 1 .. Len(s) /\ \A i \in 1 .. Len(s) : s[i] \in X
  BY LenProperties, ElementOfSeq
<1> QED
  BY <1>1 DEF ToSet

(* The content of a chain depends on its clusters only. *)
LEMMA ContentSame ==
    ASSUME NEW d \in Disks, NEW e \in Disks, NEW s \in Seq(Clusters),
           \A i \in 1 .. Len(s) : e.data[s[i]] = d.data[s[i]]
    PROVE  Content(e, s) = Content(d, s)
<1>1. PICK m \in Nat : m = Len(s)
  BY LenProperties
<1>2. /\ Content(d, s) \in Seq(Slots) /\ Len(Content(d, s)) = m * K
      /\ Content(e, s) \in Seq(Slots) /\ Len(Content(e, s)) = m * K
  BY <1>1, ContentIs
<1>3. ASSUME NEW j \in 1 .. m * K PROVE Content(e, s)[j] = Content(d, s)[j]
  <2>1. PICK i \in 1 .. m, a \in 1 .. K : j = ((i - 1) * K) + a
    BY SlotParts
  <2>2. Content(e, s)[j] = e.data[s[i]][a] /\ Content(d, s)[j] = d.data[s[i]][a]
    BY <1>1, <2>1, ContentAt
  <2> QED
    BY <1>1, <2>2
<1> QED
  BY <1>2, <1>3, SeqEqual

(* Content that is given by its slots *)
LEMMA ContentGiven ==
    ASSUME NEW d \in Disks, NEW s \in Seq(Clusters), NEW b \in Seq(Slots), Len(b) = Len(s) * K,
           \A i \in 1 .. Len(s), a \in 1 .. K : d.data[s[i]][a] = b[((i - 1) * K) + a]
    PROVE  Content(d, s) = b
<1>1. PICK m \in Nat : m = Len(s)
  BY LenProperties
<1>2. Content(d, s) \in Seq(Slots) /\ Len(Content(d, s)) = m * K
  BY <1>1, ContentIs
<1>3. ASSUME NEW j \in 1 .. m * K PROVE Content(d, s)[j] = b[j]
  <2>1. PICK i \in 1 .. m, a \in 1 .. K : j = ((i - 1) * K) + a
    BY SlotParts
  <2>2. Content(d, s)[j] = d.data[s[i]][a]
    BY <1>1, <2>1, ContentAt
  <2> QED
    BY <1>1, <2>1, <2>2
<1> QED
  BY <1>1, <1>2, <1>3, SeqEqual

(* A slot is written into one cluster of the chain. *)
LEMMA SlotPut ==
    ASSUME NEW d \in Disks, NEW s \in Seq(Clusters), s # <<>>,
           \A i, j \in 1 .. Len(s) : s[i] = s[j] => i = j,
           NEW index \in 0 .. (Len(s) * K) - 1, NEW slot \in Slots
    PROVE  LET e == PutSlot(d, s, index, slot) IN
           /\ GetSlot(d, s, index) = Content(d, s)[index + 1]
           /\ e \in Refilled(d) /\ e.root = d.root
           /\ Content(e, s) = [Content(d, s) EXCEPT ![index + 1] = slot]
           /\ \A x \in Clusters \ ToSet(s) : e.data[x] = d.data[x]
<1>1. PICK m \in Nat : m = Len(s) /\ m # 0
  BY LenProperties, EmptySeq
<1>2. m * K \in Nat /\ K \in Nat
  BY Sizes0
<1>3. PICK j \in 1 .. m * K : j = index + 1 /\ j - 1 = index
  BY <1>1, <1>2
<1>4. PICK i \in 1 .. m, a \in 1 .. K :
          j = ((i - 1) * K) + a /\ i = ((j - 1) \div K) + 1 /\ a = ((j - 1) % K) + 1
  BY SlotParts
<1>5. i = (index \div K) + 1 /\ a = (index % K) + 1
  BY <1>3, <1>4
<1>6. s[1] # Root /\ s[i] \in Clusters
  <2>1. 1 \in 1 .. m
    BY <1>1
  <2> QED
    BY <1>1, <2>1, ElementOfSeq, ClustersAre
<1>7. GetSlot(d, s, index) = d.data[s[i]][a]
  BY <1>5, <1>6 DEF GetSlot
<1>8. Content(d, s)[j] = d.data[s[i]][a]
  BY <1>1, <1>4, ContentAt
<1>9. PICK e : e = PutSlot(d, s, index, slot)
  OBVIOUS
<1>10. e = [d EXCEPT !.data[s[i]][a] = slot]
  BY <1>5, <1>6, <1>9 DEF PutSlot
<1>11. index \in Int
  BY <1>2, <1>1
<1>12. e \in Refilled(d)
  BY <1>9, <1>11, PutKeeps
<1>13. e \in Disks
  BY <1>12 DEF Refilled
<1>14. e.root = d.root /\ e.data = [d.data EXCEPT ![s[i]] = [@ EXCEPT ![a] = slot]]
  BY <1>10 DEF Disks
<1>15. d.data \in [Clusters -> [1 .. K -> Slots]]
  BY DEF Disks
<1>16. \A x \in Clusters : e.data[x] = IF x = s[i] THEN [d.data[x] EXCEPT ![a] = slot] ELSE d.data[x]
  BY <1>14, <1>15
<1>17. \A x \in Clusters \ ToSet(s) : e.data[x] = d.data[x]
  <2>1. \A x \in Clusters \ ToSet(s) : x # s[i]
    BY <1>1, SetOf
  <2> QED
    BY <1>16, <2>1
<1>18. PICK b \in Seq(Slots) : b = Content(d, s) /\ Len(b) = m * K
  BY <1>1, ContentIs
<1>19. PICK c \in Seq(Slots) : /\ c = [b EXCEPT ![j] = slot] /\ Len(c) = m * K
                             /\ \A x \in 1 .. m * K : c[x] = IF x = j THEN slot ELSE b[x]
  <2>1. j \in 1 .. Len(b)
    BY <1>18
  <2>2. /\ [b EXCEPT ![j] = slot] \in Seq(Slots) /\ Len([b EXCEPT ![j] = slot]) = Len(b)
        /\ \A x \in 1 .. Len(b) : [b EXCEPT ![j] = slot][x] = IF x = j THEN slot ELSE b[x]
    BY <2>1, ExceptSeq
  <2> QED
    BY <1>18, <2>2
<1>20. ASSUME NEW y \in 1 .. m, NEW z \in 1 .. K PROVE e.data[s[y]][z] = c[((y - 1) * K) + z]
  <2>1. PICK x : x = ((y - 1) * K) + z
    OBVIOUS
  <2>2. x \in 1 .. m * K /\ ((x - 1) \div K) + 1 = y /\ ((x - 1) % K) + 1 = z
    <3>1. LET j0 == ((y - 1) * K) + z IN
          j0 \in 1 .. m * K /\ j0 \in Nat /\ ((j0 - 1) \div K) + 1 = y /\ ((j0 - 1) % K) + 1 = z
      BY <1>1, SlotIn
    <3> QED
      BY <2>1, <3>1
  <2>3. b[x] = d.data[s[y]][z]
    <3>1. y \in 1 .. Len(s)
      BY <1>1
    <3>2. Content(d, s)[((y - 1) * K) + z] = d.data[s[y]][z]
      BY <3>1, ContentAt
    <3> QED
      BY <1>18, <2>1, <3>2
  <2>4. s[y] \in Clusters /\ (s[y] = s[i] => y = i)
    BY <1>1, ElementOfSeq
  <2>5. x = j <=> y = i /\ z = a
    BY <1>4, <2>1, <2>2
  <2>6. d.data[s[y]] \in [1 .. K -> Slots]
    BY <1>15, <2>4
  <2>7. e.data[s[y]][z] = IF y = i /\ z = a THEN slot ELSE d.data[s[y]][z]
    BY <1>16, <2>4, <2>6
  <2> QED
    BY <1>19, <2>1, <2>2, <2>3, <2>5, <2>7
<1>21. Content(e, s) = c
  <2>1. c \in Seq(Slots) /\ Len(c) = Len(s) * K
    BY <1>1, <1>19
  <2>2. \A y \in 1 .. Len(s), z \in 1 .. K : e.data[s[y]][z] = c[((y - 1) * K) + z]
    BY <1>1, <1>20
  <2> QED
    BY <1>13, <2>1, <2>2, ContentGiven
<1> QED
  BY <1>3, <1>7, <1>8, <1>9, <1>12, <1>14, <1>17, <1>18, <1>19, <1>21

(* All the clusters of a chain are written. *)
LEMMA ChainWritten ==
    ASSUME NEW d \in Disks, NEW s \in Seq(Clusters),
           \A i, j \in 1 .. Len(s) : s[i] = s[j] => i = j,
           NEW b \in Seq(Slots), Len(b) = Len(s) * K
    PROVE  LET e == EraseIn(d, s, b) IN
           /\ e \in Refilled(d) /\ e.root = d.root /\ Content(e, s) = b
           /\ \A x \in Clusters \ ToSet(s) : e.data[x] = d.data[x]
<1>1. PICK m \in Nat : m = Len(s)
  BY LenProperties
<1>2. PICK e : e = EraseIn(d, s, b)
  OBVIOUS
<1>3. Len(s) * K <= Len(b)
  BY LenProperties
<1>4. e \in Refilled(d)
  BY <1>2, <1>3, EraseInKeeps
<1>5. e \in Disks
  BY <1>4 DEF Refilled
<1> DEFINE I(x) == {i \in 1 .. Len(s) : s[i] = x}
           at(x) == IF I(x) # {} THEN Min(I(x)) ELSE 0
<1>6. \A x \in Clusters : e.data[x] = IF at(x) = 0 THEN d.data[x]
                                     ELSE SubSeq(b, ((at(x) - 1) * K) + 1, at(x) * K)
  BY <1>2 DEF EraseIn, SelectInSeq, Disks
<1>7. e.root = d.root
  BY <1>2 DEF EraseIn, Disks
<1>8. \A x \in Clusters \ ToSet(s) : at(x) = 0
  BY SetOf
<1>9. ASSUME NEW i \in 1 .. m PROVE at(s[i]) = i
  <2>1. I(s[i]) = {i}
    BY <1>1
  <2>2. I(s[i]) # {}
    BY <2>1
  <2> HIDE DEF I
  <2>3. Min({i}) = i
    BY DEF Min
  <2> QED
    BY <2>1, <2>2, <2>3
<1> HIDE DEF at
<1>10. ASSUME NEW i \in 1 .. m, NEW a \in 1 .. K PROVE e.data[s[i]][a] = b[((i - 1) * K) + a]
  <2>1. s[i] \in Clusters /\ at(s[i]) = i /\ i # 0
    BY <1>1, <1>9, ElementOfSeq
  <2>2. e.data[s[i]] = SubSeq(b, ((i - 1) * K) + 1, i * K)
    BY <1>6, <2>1
  <2>3. PICK p \in Nat, q \in Nat : p = ((i - 1) * K) + 1 /\ q = i * K /\ (q + 1) - p = K /\ 1 <= p /\ p <= q + 1
    <3>1. K \in Nat /\ (i - 1) * K \in Nat /\ i * K = ((i - 1) * K) + K
      BY Sizes0
    <3> QED
      BY <3>1
  <2>4. q <= Len(b)
    <3>1. K \in Nat /\ ((i - 1) * K) + K \in 1 .. m * K
      <4>1. PICK k \in 1 .. K : k = K
        BY Sizes0
      <4>2. ((i - 1) * K) + k \in 1 .. m * K
        BY SlotIn
      <4> QED
        BY <4>1, <4>2, Sizes0
    <3>2. q = ((i - 1) * K) + K
      BY <2>3, <3>1
    <3> QED
      BY <1>1, <3>1, <3>2
  <2>5. SubSeq(b, p, q)[a] = b[(p + a) - 1]
    <3>1. \A x \in 1 .. (q + 1) - p : SubSeq(b, p, q)[x] = b[(p + x) - 1]
      <4>1. 1 <= p /\ p <= q + 1 /\ q <= Len(b)
        BY <2>3, <2>4
      <4> QED
        BY <4>1, Cut
    <3>2. a \in 1 .. (q + 1) - p
      BY <2>3
    <3> QED
      BY <3>1, <3>2
  <2>6. (p + a) - 1 = ((i - 1) * K) + a
    <3>1. PICK r \in Int : r = (i - 1) * K
      BY Sizes0
    <3>2. p = r + 1 /\ a \in Int
      BY <2>3, <3>1, Sizes0
    <3>3. (p + a) - 1 = r + a
      BY <3>1, <3>2
    <3> QED
      BY <3>1, <3>3
  <2> QED
    BY <2>2, <2>3, <2>5, <2>6
<1>11. Content(e, s) = b
  BY <1>1, <1>5, <1>10, ContentGiven
<1> QED
  BY <1>2, <1>4, <1>6, <1>7, <1>8, <1>11

(* A chain stays one as long as its entries do. *)
LEMMA ChainKept ==
    ASSUME NEW fat \in FatTables, NEW tab \in FatTables, NEW c, NEW s, s = retrieve_sectors_fs(fat, c),
           s # <<>>, \A i \in 1 .. Len(s) : tab[s[i]] = fat[s[i]]
    PROVE  retrieve_sectors_fs(tab, c) = s
<1>1. IsChain(fat, c, s) /\ Len(s) \in 1 .. N - 2
  BY ChainIs
<1>2. PICK m \in Nat : m = Len(s) /\ m # 0
  BY <1>1, Sizes0
<1>3. \A i \in 1 .. m - 1 : i \in 1 .. m
  BY <1>2
<1>4. m \in 1 .. m
  BY <1>2
<1>5. IsChain(tab, c, s)
  BY <1>1, <1>2, <1>3, <1>4 DEF IsChain
<1> QED
  BY <1>5, ChainFound

(* A cluster is hung behind a chain. *)
LEMMA ChainGrown ==
    ASSUME NEW fat \in FatTables, NEW tab \in FatTables, NEW c, NEW s, s = retrieve_sectors_fs(fat, c),
           s # <<>>, NEW new \in Clusters, tab[new] \in 4088 .. 4095, tab[s[Len(s)]] = new,
           \A i \in 1 .. Len(s) - 1 : tab[s[i]] = fat[s[i]]
    PROVE  retrieve_sectors_fs(tab, c) = Append(s, new)
<1>1. IsChain(fat, c, s) /\ Len(s) \in 1 .. N - 2
  BY ChainIs
<1>2. PICK m \in Nat : m = Len(s) /\ m # 0
  BY <1>1, Sizes0
<1>3. /\ s \in Seq(Clusters) /\ s[1] = c /\ \A i \in 1 .. m - 1 : fat[s[i]] = s[i + 1]
  BY <1>1, <1>2 DEF IsChain
<1> DEFINE v == Append(s, new)
<1>4. /\ v = Append(s, new) /\ v \in Seq(Clusters) /\ v # <<>> /\ Len(v) = m + 1 /\ v[m + 1] = new
      /\ \A i \in 1 .. m : v[i] = s[i]
  <2>1. /\ Append(s, new) \in Seq(Clusters) /\ Append(s, new) # <<>> /\ Len(Append(s, new)) = Len(s) + 1
        /\ \A i \in 1 .. Len(s) : Append(s, new)[i] = s[i]
        /\ Append(s, new)[Len(s) + 1] = new
    BY <1>3, AppendProperties
  <2>2. /\ Len(Append(s, new)) = m + 1 /\ \A i \in 1 .. m : Append(s, new)[i] = s[i]
        /\ Append(s, new)[m + 1] = new
    BY <1>2, <2>1
  <2> QED
    BY <2>1, <2>2
<1> HIDE DEF v
<1>5. v[1] = c
  <2>1. 1 \in 1 .. m
    BY <1>2
  <2> QED
    BY <1>3, <1>4, <2>1
<1>6. ASSUME NEW i \in 1 .. m PROVE tab[v[i]] = v[i + 1]
  <2>1. CASE i = m
    BY <1>2, <1>4, <2>1
  <2>2. CASE i # m
    <3>1. i \in 1 .. m - 1 /\ i + 1 \in 1 .. m
      BY <1>2, <2>2
    <3> QED
      BY <1>2, <1>3, <1>4, <3>1
  <2> QED
    BY <2>1, <2>2
<1>7. IsChain(tab, c, v)
  <2>1. (m + 1) - 1 = m
    BY <1>2
  <2> QED
    BY <1>4, <1>5, <1>6, <2>1 DEF IsChain
<1>8. retrieve_sectors_fs(tab, c) = v
  BY <1>7, ChainFound
<1> QED
  BY <1>8 DEF v

-----------------------------------------------------------------------------
(* The items of the paths                                                  *)

LEMMA PathParts ==
    ASSUME NEW p \in Named
    PROVE  /\ p \in Paths /\ Len(p) \in Nat \ {0}
           /\ Front(p) \in Folders \cup {<<>>} /\ Front(p) \in Named \cup {<<>>}
           /\ Len(Front(p)) = Len(p) - 1 /\ \A i \in 1 .. Len(p) - 1 : Front(p)[i] = p[i]
           /\ Last(p) = p[Len(p)] /\ Last(p) \in Seq(Characters)
           /\ Len(p) = 1 <=> Front(p) = <<>>
<1>1. p \in Paths /\ p # <<>> /\ p \in Seq(Seq(Characters))
  BY FilesAssumption DEF Named
<1>2. PICK X : X = Seq(Characters)
  OBVIOUS
<1>3. p \in Seq(X)
  BY <1>1, <1>2
<1>4. PICK m \in Nat : m = Len(p) /\ m # 0
  BY <1>1, <1>3, LenProperties, EmptySeq
<1>6. /\ SubSeq(p, 1, m - 1) \in Seq(X) /\ Len(SubSeq(p, 1, m - 1)) = m - 1
      /\ \A i \in 1 .. m - 1 : SubSeq(p, 1, m - 1)[i] = p[i]
  <2>1. PICK k \in 0 .. Len(p) : k = m - 1
    BY <1>4
  <2> QED
    BY <1>3, <2>1, Start
<1>7. /\ Front(p) \in Seq(X) /\ Len(Front(p)) = m - 1
      /\ \A i \in 1 .. m - 1 : Front(p)[i] = p[i]
  BY <1>4, <1>6 DEF Front
<1>8. Last(p) = p[m] /\ Last(p) \in X
  <2>1. m \in 1 .. Len(p)
    BY <1>4
  <2> QED
    BY <1>3, <1>4, <2>1, ElementOfSeq DEF Last
<1>9. m = 1 <=> Front(p) = <<>>
  <2>1. PICK f \in Seq(X) : f = Front(p) /\ Len(f) = m - 1
    BY <1>7
  <2>2. Len(f) = 0 <=> f = <<>>
    BY EmptySeq
  <2> QED
    BY <1>4, <2>1, <2>2
<1>5. Front(p) \in Folders \cup {<<>>} /\ Front(p) \in Named \cup {<<>>}
  <2>1. PICK f \in Seq(X) : f = Front(p) /\ Len(f) = m - 1 /\ \A i \in 1 .. m - 1 : f[i] = p[i]
    BY <1>7
  <2>2. \A n \in 1 .. m - 1 : SubSeq(p, 1, n) \in Folders
    BY <1>1, <1>4 DEF Named
  <2>3. CASE f = <<>>
    BY <2>1, <2>3
  <2>4. CASE f # <<>>
    <3>1. m - 1 \in 1 .. m - 1
      BY <1>4, <1>9, <2>1, <2>4
    <3>2. f \in Folders
      BY <1>4, <2>1, <2>2, <3>1 DEF Front
    <3>3. ASSUME NEW n \in 1 .. Len(f) - 1 PROVE SubSeq(f, 1, n) \in Folders
      <4>1. n \in 1 .. m - 1 /\ n \in 0 .. Len(f) /\ n \in 0 .. Len(p)
        BY <1>4, <2>1
      <4>2. /\ SubSeq(f, 1, n) \in Seq(X) /\ Len(SubSeq(f, 1, n)) = n
            /\ \A i \in 1 .. n : SubSeq(f, 1, n)[i] = f[i]
        BY <4>1, Start
      <4>3. /\ SubSeq(p, 1, n) \in Seq(X) /\ Len(SubSeq(p, 1, n)) = n
            /\ \A i \in 1 .. n : SubSeq(p, 1, n)[i] = p[i]
        BY <1>3, <4>1, Start
      <4>4. \A i \in 1 .. n : SubSeq(f, 1, n)[i] = SubSeq(p, 1, n)[i]
        <5>1. \A i \in 1 .. n : i \in 1 .. m - 1
          BY <1>4, <4>1
        <5> QED
          BY <2>1, <4>2, <4>3, <5>1
      <4>5. SubSeq(f, 1, n) = SubSeq(p, 1, n)
        BY <4>2, <4>3, <4>4, SeqEqual
      <4> QED
        BY <2>2, <4>1, <4>5
    <3>4. f \in Named
      BY <2>4, <3>2, <3>3, FilesAssumption DEF Named
    <3> QED
      BY <2>1, <3>2, <3>4
  <2> QED
    BY <2>3, <2>4
<1> QED
  BY <1>1, <1>2, <1>4, <1>5, <1>7, <1>8, <1>9

LEMMA SamePath ==
    ASSUME NEW p \in Named, NEW q \in Named, Front(p) = Front(q), Last(p) = Last(q)
    PROVE  p = q
<1>1. PICK m \in Nat, n \in Nat : m = Len(p) /\ n = Len(q) /\ m # 0 /\ n # 0
  BY PathParts
<1>2. Len(Front(p)) = m - 1 /\ Len(Front(q)) = n - 1
  BY <1>1, PathParts
<1>3. m = n
  BY <1>1, <1>2
<1>4. /\ \A i \in 1 .. m - 1 : Front(p)[i] = p[i]
      /\ \A i \in 1 .. n - 1 : Front(q)[i] = q[i]
      /\ Last(p) = p[m] /\ Last(q) = q[n]
  BY <1>1, PathParts
<1>5. \A i \in 1 .. m : p[i] = q[i]
  <2> TAKE i \in 1 .. m
  <2>1. CASE i = m
    BY <1>3, <1>4, <2>1
  <2>2. CASE i # m
    <3>1. i \in 1 .. m - 1
      BY <2>2
    <3> QED
      BY <1>3, <1>4, <3>1
  <2> QED
    BY <2>1, <2>2
<1>6. PICK X : X = Seq(Characters)
  OBVIOUS
<1>7. p \in Seq(X) /\ q \in Seq(X)
  BY <1>6, FilesAssumption DEF Named
<1> QED
  BY <1>1, <1>3, <1>5, <1>7, SeqEqual

(* The item of a path is found in the directory in front of it. *)
LEMMA ItemNext ==
    ASSUME NEW d \in Disks, NEW p \in Named
    PROVE  /\ retrieve_item(d, p) = NextItem(d, retrieve_item(d, Front(p)), Last(p))
           /\ retrieve_item(d, <<>>) = RootItem
           /\ retrieve_item(d, p) \in Slots \cup {NoItem}
<1>1. PICK m \in Nat : m = Len(p) /\ m # 0
  BY PathParts
<1>2. PICK f : f = Front(p)
  OBVIOUS
<1>3. Len(f) = m - 1 /\ (\A i \in 1 .. m - 1 : f[i] = p[i]) /\ Last(p) = p[m]
  BY <1>1, <1>2, PathParts
<1>4. PICK l \in Nat : l = Len(f) /\ l = m - 1
  BY <1>1, <1>3
<1>5. PICK g : LedBy(d, p, g)
  BY <1>1, Led
<1>6. PICK h : LedBy(d, f, h)
  BY <1>4, Led
<1>7. /\ retrieve_item(d, p) = g[m] /\ g[0] = RootItem
      /\ \A i \in 1 .. m : g[i] = NextItem(d, g[i - 1], p[i])
  BY <1>1, <1>5 DEF LedBy
<1>8. /\ retrieve_item(d, f) = h[l] /\ h[0] = RootItem
      /\ \A i \in 1 .. l : h[i] = NextItem(d, h[i - 1], p[i])
  BY <1>3, <1>4, <1>6 DEF LedBy
<1> DEFINE S == {n \in Nat : n <= l => g[n] = h[n]}
<1>9. 0 \in S
  BY <1>7, <1>8
<1>10. ASSUME NEW n \in S PROVE n + 1 \in S
  <2>1. SUFFICES ASSUME n + 1 <= l PROVE g[n + 1] = h[n + 1]
    OBVIOUS
  <2>2. PICK i \in 1 .. l : i = n + 1 /\ i - 1 = n /\ i \in 1 .. m
    BY <1>4, <2>1
  <2>3. g[n] = h[n]
    BY <2>1
  <2>4. g[i] = NextItem(d, g[i - 1], p[i]) /\ h[i] = NextItem(d, h[i - 1], p[i])
    BY <1>7, <1>8, <2>2
  <2> QED
    BY <2>2, <2>3, <2>4
<1>11. S \in SUBSET Nat
  OBVIOUS
<1> HIDE DEF S
<1>12. S = Nat
  BY <1>9, <1>10, <1>11, NatSet
<1>13. g[l] = h[l]
  <2>1. l \in S /\ l <= l
    BY <1>12
  <2> QED
    BY <2>1 DEF S
<1>14. g[m] = NextItem(d, g[l], p[m])
  <2>1. m \in 1 .. m /\ m - 1 = l
    BY <1>1, <1>4
  <2> QED
    BY <1>7, <2>1
<1>15. retrieve_item(d, p) = NextItem(d, retrieve_item(d, f), Last(p))
  BY <1>3, <1>7, <1>8, <1>13, <1>14
<1>16. retrieve_item(d, <<>>) = RootItem
  <2>1. PICK e : e = <<>> /\ Len(e) = 0 /\ Len(e) \in Nat
    OBVIOUS
  <2> QED
    BY <2>1, ItemIs
<1>17. retrieve_item(d, p) \in Slots \cup {NoItem}
  BY <1>1, ItemIs
<1> QED
  BY <1>2, <1>15, <1>16, <1>17

LEMMA RootIsItem == RootItem # NoItem /\ RootItem.first = Root /\ NoItem.first = -1
  BY DEF RootItem, NoItem, Slot

LEMMA DirectoryIs ==
    ASSUME NEW d \in Disks
    PROVE  /\ <<>> \in Directories(d)
           /\ \A p \in Named : p \in Directories(d) <=> p \in Folders /\ p \in Items(d)
           /\ \A p \in Directories(d) : ItemAt(d, p) # NoItem /\ (p = <<>> \/ p \in Named)
           /\ \A p \in Folders \cup {<<>>} : p \in Named \cup {<<>>} /\ ItemAt(d, p) # NoItem =>
                 p \in Directories(d)
<1>3. ItemAt(d, <<>>) = RootItem
  <2>1. PICK e : e = <<>> /\ Len(e) = 0 /\ Len(e) \in Nat
    OBVIOUS
  <2> QED
    BY <2>1, ItemIs DEF ItemAt
<1>4. <<>> \notin Named
  BY DEF Named
<1> QED
  BY <1>3, <1>4, RootIsItem DEF Directories, Items, file_exist, ItemAt

List(d, u) == retrieve_folders_from_folder(d, ItemAt(d, u).first)

LEMMA ItemStep ==
    ASSUME NEW d \in Disks, NEW p \in Named
    PROVE  /\ p \in Items(d) <=> ItemAt(d, p) # NoItem
           /\ p \in Items(d) => Front(p) \in Directories(d)
           /\ ItemAt(d, p) = IF Front(p) \in Directories(d) THEN Found(List(d, Front(p)), Last(p)) ELSE NoItem
<1>1. ItemAt(d, p) = NextItem(d, ItemAt(d, Front(p)), Last(p))
  BY ItemNext DEF ItemAt
<1>2. Front(p) \in Directories(d) <=> ItemAt(d, Front(p)) # NoItem
  BY PathParts, DirectoryIs
<1>3. p \in Items(d) <=> ItemAt(d, p) # NoItem
  BY DEF Items, file_exist, ItemAt
<1> QED
  BY <1>1, <1>2, <1>3 DEF NextItem, List

(* If the lists of the directories stay the same but for what is found     *)
(* under the name of one path, the items of all others stay.               *)
LEMMA OnlyOne ==
    ASSUME NEW d \in Disks, NEW e \in Disks, NEW t \in Named, NEW item,
           item = NextItem(e, ItemAt(d, Front(t)), Last(t)),
           \A q \in Directories(d) \ {t} : \A x : (q # Front(t) \/ x # Last(t)) =>
              Found(retrieve_folders_from_folder(e, ItemAt(d, q).first), x) = Found(List(d, q), x),
           \A q \in Named : Front(q) = t => NextItem(e, item, Last(q)) = ItemAt(d, q)
    PROVE  /\ \A q \in Named \ {t} : ItemAt(e, q) = ItemAt(d, q)
           /\ ItemAt(e, t) = item
           /\ ItemAt(e, <<>>) = ItemAt(d, <<>>)
<1>1. ItemAt(e, <<>>) = RootItem /\ ItemAt(d, <<>>) = RootItem
  BY ItemNext DEF ItemAt
<1> DEFINE new(q) == IF q = t THEN item ELSE ItemAt(d, q)
           S == {n \in Nat : \A q \in Named : Len(q) <= n => ItemAt(e, q) = new(q)}
<1>2. 0 \in S
  <2>1. \A q \in Named : ~(Len(q) <= 0)
    BY PathParts
  <2> QED
    BY <2>1
<1>3. ASSUME NEW n \in S PROVE n + 1 \in S
  <2>1. SUFFICES ASSUME NEW q \in Named, Len(q) <= n + 1 PROVE ItemAt(e, q) = new(q)
    OBVIOUS
  <2>2. /\ ItemAt(d, q) = NextItem(d, ItemAt(d, Front(q)), Last(q))
        /\ ItemAt(e, q) = NextItem(e, ItemAt(e, Front(q)), Last(q))
    BY ItemNext DEF ItemAt
  <2>3. /\ Front(q) \in Named \cup {<<>>} /\ Len(Front(q)) = Len(q) - 1 /\ Len(q) \in Nat
    BY PathParts
  <2>4. Front(q) # q
    <3>1. Len(Front(q)) # Len(q)
      BY <2>3
    <3> QED
      BY <3>1
  <2>5. ItemAt(e, Front(q)) = IF Front(q) = t THEN item ELSE ItemAt(d, Front(q))
    <3>1. CASE Front(q) = <<>>
      <4>1. t # <<>>
        BY DEF Named
      <4> QED
        BY <1>1, <3>1, <4>1
    <3>2. CASE Front(q) # <<>>
      <4>1. Front(q) \in Named /\ Len(Front(q)) <= n
        BY <2>1, <2>3, <3>2
      <4> QED
        BY <4>1
    <3> QED
      BY <3>1, <3>2
  <2>6. CASE Front(q) = t
    BY <2>2, <2>4, <2>5, <2>6
  <2>7. CASE Front(q) # t /\ q = t
    BY <2>2, <2>5, <2>7
  <2>8. CASE Front(q) # t /\ q # t
    <3>1. CASE ItemAt(d, Front(q)) = NoItem
      BY <2>2, <2>5, <2>8, <3>1 DEF NextItem
    <3>2. CASE ItemAt(d, Front(q)) # NoItem
      <4>1. Front(q) \in Directories(d) \ {t}
        BY <2>8, <3>2, PathParts, DirectoryIs
      <4>2. Front(q) # Front(t) \/ Last(q) # Last(t)
        BY <2>8, SamePath
      <4>3. Found(retrieve_folders_from_folder(e, ItemAt(d, Front(q)).first), Last(q))
              = Found(List(d, Front(q)), Last(q))
        BY <4>1, <4>2
      <4> QED
        BY <2>2, <2>5, <2>8, <3>2, <4>3 DEF NextItem, List
    <3> QED
      BY <3>1, <3>2
  <2> QED
    BY <2>6, <2>7, <2>8
<1>4. S \in SUBSET Nat
  OBVIOUS
<1> HIDE DEF S
<1>5. S = Nat
  BY <1>2, <1>3, <1>4, NatSet
<1>6. ASSUME NEW q \in Named PROVE ItemAt(e, q) = new(q)
  <2>1. PICK n \in Nat : n = Len(q) /\ Len(q) <= n
    BY PathParts
  <2>2. n \in S
    BY <1>5
  <2> QED
    BY <2>1, <2>2 DEF S
<1> QED
  BY <1>1, <1>6

-----------------------------------------------------------------------------
(* The tree, and what changes of it when one directory does                *)

Clustered(d, item) == retrieve_sectors_fs(d.fat, item.first)
HeadOf(d, c, up) ==
    /\ d.data[c][1].name = <<Dot>> /\ d.data[c][1].first = c
    /\ d.data[c][2].name = <<Dot, Dot>> /\ d.data[c][2].first = up
UpFirst(d, p) == IF Len(p) = 1 THEN 0 ELSE ItemAt(d, Front(p)).first
Kind(p, item) ==
    /\ Last(p) # <<Dot>>
    /\ IF p \in Folders THEN item.attr = {"Directory"}
       ELSE item.attr \cap {"Volume_ID", "Directory"} = {}

(* SoundTree and Kinds, by what the directories hold. *)
Tidy(d) ==
    /\ \A p \in Items(d) : Kind(p, ItemAt(d, p)) /\ Chain(d, p) # <<>>
    /\ \A p, q \in Items(d) : p # q => ToSet(Chain(d, p)) \cap ToSet(Chain(d, q)) = {}
    /\ \A p \in Items(d) \cap Folders : HeadOf(d, ItemAt(d, p).first, UpFirst(d, p))
    /\ \A p \in Directories(d) : Holds(d, ItemAt(d, p).first, List(d, p)) /\ Unique(List(d, p))
    /\ \A c \in Clusters \ Taken(d) : d.data[c] = Blank

(* No item begins at the cluster that is taken for the root. *)
Shy(d) == \A p \in Items(d) : ItemAt(d, p).first # RootSector

LEMMA NoChain ==
    ASSUME NEW d \in Disks, NEW c, c \notin Clusters
    PROVE  retrieve_sectors_fs(d.fat, c) = <<>> /\ ToSet(retrieve_sectors_fs(d.fat, c)) = {}
<1>1. retrieve_sectors_fs(d.fat, c) = <<>>
  BY ChainOf
<1>2. PICK X : X = Clusters
  OBVIOUS
<1>3. ToSet(<<>>) = {}
  BY DEF ToSet
<1> QED
  BY <1>1, <1>3

(* A call changes the entry of one path, t, in its directory, which holds  *)
(* v then, and the clusters of both; item is what t leads to then.         *)
Moves(d, e, t, v, item) ==
    LET u   == Front(t)
        c   == ItemAt(d, u).first
        own == ToSet(retrieve_sectors_fs(e.fat, c))
        new == ToSet(Clustered(e, item))
    IN
    /\ u \in Directories(d)
    /\ \A q \in Items(d) \ {t, u} : \A x \in ToSet(Chain(d, q)) :
          e.fat[x] = d.fat[x] /\ e.data[x] = d.data[x] /\ x \notin own /\ x \notin new
    /\ own \cap new = {}
    /\ t \in Folders /\ t \in Items(d) => List(d, t) = <<>>
    /\ Holds(e, c, v) /\ Changed(List(d, u), v, Last(t), item)
    /\ IF u = <<>> THEN TRUE
       ELSE e.root = d.root /\ ToSet(Chain(d, u)) \subseteq own /\ HeadOf(e, c, UpFirst(d, u))
    /\ item # NoItem =>
          /\ Kind(t, item) /\ Clustered(e, item) # <<>>
          /\ t \in Folders => HeadOf(e, item.first, UpFirst(d, t)) /\ Holds(e, item.first, <<>>)
    /\ \A x \in Clusters \ Taken(e) : e.data[x] = Blank

(* What stays of a directory whose clusters are left alone *)
LEMMA HoldsSame ==
    ASSUME NEW d \in Disks, NEW e \in Disks, NEW c, NEW v, Holds(d, c, v),
           c = Root => e.root = d.root,
           c # Root => \A x \in ToSet(retrieve_sectors_fs(d.fat, c)) :
                          e.fat[x] = d.fat[x] /\ e.data[x] = d.data[x]
    PROVE  Holds(e, c, v)
<1>1. CASE c = Root
  BY <1>1 DEF Holds, SlotsOf
<1>2. CASE c # Root
  <2>1. PICK s \in Seq(Clusters) : s = retrieve_sectors_fs(d.fat, c) /\ s # <<>>
    BY <1>2, ChainOf DEF Holds
  <2>2. \A i \in 1 .. Len(s) : e.fat[s[i]] = d.fat[s[i]] /\ e.data[s[i]] = d.data[s[i]]
    BY <1>2, <2>1, SetOf
  <2>3. d.fat \in FatTables /\ e.fat \in FatTables
    BY DEF Disks, FatTables, Ids
  <2>4. retrieve_sectors_fs(e.fat, c) = s
    BY <2>1, <2>2, <2>3, ChainKept
  <2>5. Content(e, s) = Content(d, s)
    BY <2>2, ContentSame
  <2> QED
    BY <1>2, <2>1, <2>4, <2>5 DEF Holds, SlotsOf
<1> QED
  BY <1>1, <1>2

LEMMA MoveItems ==
    ASSUME NEW d \in Disks, NEW e \in Disks, Tidy(d), NEW t \in Named, NEW v, NEW item,
           Moves(d, e, t, v, item)
    PROVE  /\ \A q \in Named \ {t} : ItemAt(e, q) = ItemAt(d, q)
           /\ ItemAt(e, t) = item
           /\ ItemAt(e, <<>>) = ItemAt(d, <<>>)
           /\ Items(e) \ {t} = Items(d) \ {t} /\ (t \in Items(e) <=> item # NoItem)
           /\ \A q \in Named : Front(q) = t => q \notin Items(d) /\ q \notin Items(e)
           /\ Directories(e) \ {t} = Directories(d) \ {t}
           /\ \A q \in Directories(d) \ {t, Front(t)} : Holds(e, ItemAt(d, q).first, List(d, q))
<1> DEFINE u == Front(t)
           c == ItemAt(d, u).first
<1>1. /\ u \in Directories(d)
      /\ \A q \in Items(d) \ {t, u} : \A x \in ToSet(Chain(d, q)) :
            e.fat[x] = d.fat[x] /\ e.data[x] = d.data[x]
      /\ t \in Folders /\ t \in Items(d) => List(d, t) = <<>>
      /\ Holds(e, c, v) /\ Changed(List(d, u), v, Last(t), item)
      /\ u # <<>> => e.root = d.root
      /\ item # NoItem => (t \in Folders => Holds(e, item.first, <<>>))
  BY DEF Moves
<1>2. u # t
  <2>1. Len(Front(t)) = Len(t) - 1 /\ Len(t) \in Nat
    BY PathParts
  <2>2. Len(Front(t)) # Len(t)
    BY <2>1
  <2> QED
    BY <2>2
<1>3. \A q \in Directories(d) : Holds(d, ItemAt(d, q).first, List(d, q))
  BY DEF Tidy
<1>4. \A q \in Directories(d) : q # <<>> => ItemAt(d, q).first # Root /\ q \in Items(d)
  <2> TAKE q \in Directories(d)
  <2>1. SUFFICES ASSUME q # <<>> PROVE ItemAt(d, q).first # Root /\ q \in Items(d)
    OBVIOUS
  <2>2. q \in Items(d)
    BY <2>1, DirectoryIs
  <2>3. Chain(d, q) # <<>>
    BY <2>2 DEF Tidy
  <2> QED
    BY <2>2, <2>3, ChainOf, ClustersAre DEF Chain
<1>5. ItemAt(d, <<>>).first = Root
  BY ItemNext, RootIsItem DEF ItemAt
<1>6. \A q \in Directories(d) \ {t, u} : Holds(e, ItemAt(d, q).first, List(d, q))
  <2> TAKE q \in Directories(d) \ {t, u}
  <2>1. Holds(d, ItemAt(d, q).first, List(d, q))
    BY <1>3
  <2>2. CASE q = <<>>
    <3>1. e.root = d.root
      BY <1>1, <2>2
    <3> QED
      BY <1>5, <2>1, <2>2, <3>1, HoldsSame
  <2>3. CASE q # <<>>
    <3>1. ItemAt(d, q).first # Root /\ q \in Items(d) \ {t, u}
      BY <1>4, <2>3
    <3>2. \A x \in ToSet(retrieve_sectors_fs(d.fat, ItemAt(d, q).first)) :
             e.fat[x] = d.fat[x] /\ e.data[x] = d.data[x]
      BY <1>1, <3>1 DEF Chain
    <3> QED
      BY <2>1, <3>1, <3>2, HoldsSame
  <2> QED
    BY <2>2, <2>3
<1> HIDE DEF u, c
<1>7. ASSUME NEW q \in Directories(d) \ {t}, NEW x, q # u \/ x # Last(t)
      PROVE  Found(retrieve_folders_from_folder(e, ItemAt(d, q).first), x) = Found(List(d, q), x)
  <2>1. CASE q = u
    <3>1. x # Last(t)
      BY <1>7, <2>1
    <3>2. retrieve_folders_from_folder(e, c) = v
      BY <1>1, HoldsIs
    <3>3. Found(v, x) = Found(List(d, u), x)
      BY <1>1, <3>1 DEF Changed
    <3> QED
      BY <2>1, <3>2, <3>3 DEF c
  <2>2. CASE q # u
    <3>1. Holds(e, ItemAt(d, q).first, List(d, q))
      BY <1>6, <2>2
    <3>2. retrieve_folders_from_folder(e, ItemAt(d, q).first) = List(d, q)
      BY <3>1, HoldsIs
    <3> QED
      BY <3>2
  <2> QED
    BY <2>1, <2>2
<1>8. item = NextItem(e, ItemAt(d, u), Last(t))
  <2>1. ItemAt(d, u) # NoItem
    BY <1>1, DirectoryIs
  <2>2. retrieve_folders_from_folder(e, c) = v
    BY <1>1, HoldsIs
  <2> QED
    BY <1>1, <2>1, <2>2 DEF NextItem, Changed, c
<1>10. ASSUME NEW q \in Named, Front(q) = t
       PROVE  ItemAt(d, q) = NoItem /\ NextItem(e, item, Last(q)) = NoItem
  <2>1. t \in Folders
    BY <1>10, PathParts DEF Named
  <2>2. \A x : Found(<<>>, x) = NoItem
    <3>1. PICK w \in Seq(Slots) : w = <<>> /\ Len(w) = 0
      BY EmptySeq
    <3>2. \A x : ~\E i \in 1 .. Len(w) : NameOf(w[i]) = x
      BY <3>1
    <3> QED
      BY <3>1, <3>2, IndexFound
  <2>3. ItemAt(d, q) = NoItem
    <3>1. ItemAt(d, q) = NextItem(d, ItemAt(d, t), Last(q))
      BY <1>10, ItemNext DEF ItemAt
    <3>2. CASE ItemAt(d, t) = NoItem
      BY <3>1, <3>2 DEF NextItem
    <3>3. CASE ItemAt(d, t) # NoItem
      <4>1. List(d, t) = <<>>
        BY <1>1, <2>1, <3>3, ItemStep
      <4> QED
        BY <2>2, <3>1, <3>3, <4>1 DEF NextItem, List
    <3> QED
      BY <3>2, <3>3
  <2>4. NextItem(e, item, Last(q)) = NoItem
    <3>1. CASE item = NoItem
      BY <3>1 DEF NextItem
    <3>2. CASE item # NoItem
      <4>1. retrieve_folders_from_folder(e, item.first) = <<>>
        BY <1>1, <2>1, <3>2, HoldsIs
      <4> QED
        BY <2>2, <3>2, <4>1 DEF NextItem
    <3> QED
      BY <3>1, <3>2
  <2> QED
    BY <2>3, <2>4
<1>11. /\ \A q \in Named \ {t} : ItemAt(e, q) = ItemAt(d, q)
       /\ ItemAt(e, t) = item
       /\ ItemAt(e, <<>>) = ItemAt(d, <<>>)
  <2>1. \A q \in Directories(d) \ {t} : \A x : (q # Front(t) \/ x # Last(t)) =>
              Found(retrieve_folders_from_folder(e, ItemAt(d, q).first), x) = Found(List(d, q), x)
    BY <1>7 DEF u
  <2>2. \A q \in Named : Front(q) = t =>
              ItemAt(d, q) = NoItem /\ NextItem(e, item, Last(q)) = NoItem
    BY <1>10
  <2>3. item = NextItem(e, ItemAt(d, Front(t)), Last(t))
    BY <1>8 DEF u
  <2> QED
    BY <2>1, <2>2, <2>3, OnlyOne
<1>12. \A q \in Named : (q \in Items(d) <=> ItemAt(d, q) # NoItem) /\ (q \in Items(e) <=> ItemAt(e, q) # NoItem)
  BY ItemStep
<1>13. Items(e) \ {t} = Items(d) \ {t} /\ (t \in Items(e) <=> item # NoItem)
  <2>1. Items(e) \subseteq Named /\ Items(d) \subseteq Named
    BY DEF Items
  <2> QED
    BY <1>11, <1>12, <2>1
<1>14. ASSUME NEW q \in Named, Front(q) = t PROVE q \notin Items(d) /\ q \notin Items(e)
  <2>1. ItemAt(d, q) = NoItem /\ NextItem(e, ItemAt(e, t), Last(q)) = NoItem
    BY <1>10, <1>11, <1>14
  <2>2. ItemAt(e, q) = NextItem(e, ItemAt(e, t), Last(q))
    BY <1>14, ItemNext DEF ItemAt
  <2> QED
    BY <1>12, <2>1, <2>2
<1>15. Directories(e) \ {t} = Directories(d) \ {t}
  BY <1>13 DEF Directories
<1> QED
  BY <1>6, <1>11, <1>13, <1>14, <1>15 DEF u

LEMMA ChainStarts ==
    ASSUME NEW d \in Disks, NEW c, retrieve_sectors_fs(d.fat, c) # <<>>
    PROVE  c \in ToSet(retrieve_sectors_fs(d.fat, c)) /\ c \in Clusters /\ c # Root
<1>1. PICK s \in Seq(Clusters) : s = retrieve_sectors_fs(d.fat, c) /\ s[1] = c /\ c \in Clusters /\ Len(s) \in Nat \ {0}
  BY ChainOf, EmptySeq
<1>2. 1 \in 1 .. Len(s)
  BY <1>1
<1>3. c \in ToSet(s)
  BY <1>1, <1>2, SetOf
<1> QED
  BY <1>1, <1>3, ClustersAre

LEMMA MoveTidy ==
    ASSUME NEW d \in Disks, NEW e \in Disks, Tidy(d), NEW t \in Named, NEW v, NEW item,
           Moves(d, e, t, v, item)
    PROVE  /\ Tidy(e)
           /\ \A q \in Items(d) \ {t, Front(t)} : Chain(e, q) = Chain(d, q)
           /\ \A q \in Named \ {t} : View(e, q) = View(d, q)
           /\ List(e, Front(t)) = v
<1> DEFINE u == Front(t)
           c == ItemAt(d, u).first
           own == ToSet(retrieve_sectors_fs(e.fat, c))
           new == ToSet(Clustered(e, item))
<1>1. /\ u \in Directories(d)
      /\ \A q \in Items(d) \ {t, u} : \A x \in ToSet(Chain(d, q)) :
            e.fat[x] = d.fat[x] /\ e.data[x] = d.data[x] /\ x \notin own /\ x \notin new
      /\ own \cap new = {}
      /\ Holds(e, c, v) /\ Unique(v)
      /\ u # <<>> => HeadOf(e, c, UpFirst(d, u))
      /\ item # NoItem =>
            /\ Kind(t, item) /\ Clustered(e, item) # <<>>
            /\ t \in Folders => HeadOf(e, item.first, UpFirst(d, t)) /\ Holds(e, item.first, <<>>)
      /\ \A x \in Clusters \ Taken(e) : e.data[x] = Blank
  BY DEF Moves, Changed
<1>2. /\ \A q \in Named \ {t} : ItemAt(e, q) = ItemAt(d, q)
      /\ ItemAt(e, t) = item
      /\ ItemAt(e, <<>>) = ItemAt(d, <<>>)
      /\ Items(e) \ {t} = Items(d) \ {t} /\ (t \in Items(e) <=> item # NoItem)
      /\ \A q \in Named : Front(q) = t => q \notin Items(d) /\ q \notin Items(e)
      /\ Directories(e) \ {t} = Directories(d) \ {t}
      /\ \A q \in Directories(d) \ {t, u} : Holds(e, ItemAt(d, q).first, List(d, q))
  BY MoveItems
<1>3. Items(e) \subseteq Named /\ Items(d) \subseteq Named
  BY DEF Items
<1>4. u # t /\ (u # <<>> => u \in Items(d) /\ u \in Items(e) /\ u \in Folders /\ u \in Named)
  <2>1. Len(Front(t)) = Len(t) - 1 /\ Len(t) \in Nat
    BY PathParts
  <2>2. Len(Front(t)) # Len(t)
    BY <2>1
  <2>3. u # t
    BY <2>2
  <2>4. u # <<>> => u \in Items(d) /\ u \in Folders /\ u \in Named
    BY <1>1, DirectoryIs
  <2> QED
    BY <1>2, <2>3, <2>4
<1>5. \A q \in Items(d) \ {t, u} : Chain(e, q) = Chain(d, q)
  <2> TAKE q \in Items(d) \ {t, u}
  <2>1. PICK s \in Seq(Clusters) : s = Chain(d, q) /\ s # <<>>
    BY ChainOf DEF Tidy, Chain
  <2>2. \A i \in 1 .. Len(s) : e.fat[s[i]] = d.fat[s[i]]
    BY <1>1, <2>1, SetOf
  <2>3. d.fat \in FatTables /\ e.fat \in FatTables
    BY DEF Disks, FatTables, Ids
  <2>4. retrieve_sectors_fs(e.fat, ItemAt(d, q).first) = s
    BY <2>1, <2>2, <2>3, ChainKept DEF Chain
  <2>5. ItemAt(e, q) = ItemAt(d, q)
    BY <1>2, <1>3
  <2> QED
    BY <2>1, <2>4, <2>5 DEF Chain
<1>6. Chain(e, t) = Clustered(e, item)
  BY <1>2 DEF Chain, Clustered
<1>7. u # <<>> => Chain(e, u) = retrieve_sectors_fs(e.fat, c)
  BY <1>2, <1>4 DEF Chain
<1>8. u # <<>> => c # Root /\ Chain(e, u) # <<>>
  <2>1. SUFFICES ASSUME u # <<>> PROVE c # Root /\ Chain(e, u) # <<>>
    OBVIOUS
  <2>2. Chain(d, u) # <<>>
    BY <1>4, <2>1 DEF Tidy
  <2>3. c # Root
    BY <2>2, ChainStarts DEF Chain
  <2> QED
    BY <1>1, <1>7, <2>1, <2>3 DEF Holds
<1>9. ASSUME NEW p \in Items(e) PROVE Kind(p, ItemAt(e, p)) /\ Chain(e, p) # <<>>
  <2>1. CASE p = t
    BY <1>1, <1>2, <1>6, <2>1
  <2>2. CASE p # t
    <3>1. p \in Items(d) /\ ItemAt(e, p) = ItemAt(d, p)
      BY <1>2, <1>3, <2>2
    <3>2. Kind(p, ItemAt(d, p)) /\ Chain(d, p) # <<>>
      BY <3>1 DEF Tidy
    <3>3. CASE p = u
      BY <1>8, <3>1, <3>2, <3>3, <1>3 DEF Named
    <3>4. CASE p # u
      BY <1>5, <2>2, <3>1, <3>2, <3>4
    <3> QED
      BY <3>3, <3>4
  <2> QED
    BY <2>1, <2>2
<1>10. /\ \A p \in Items(e) : p # t /\ p # u =>
             /\ p \in Items(d) /\ Chain(e, p) = Chain(d, p)
             /\ \A x \in ToSet(Chain(e, p)) : x \notin own /\ x \notin new
       /\ ToSet(Chain(e, t)) = new
       /\ u # <<>> => ToSet(Chain(e, u)) = own
  <2>1. \A p \in Items(e) : p # t /\ p # u => p \in Items(d) \ {t, u}
    BY <1>2
  <2> QED
    BY <1>1, <1>5, <1>6, <1>7, <2>1
<1>11. ASSUME NEW p \in Items(e), NEW q \in Items(e), p # q
       PROVE  ToSet(Chain(e, p)) \cap ToSet(Chain(e, q)) = {}
  <2>1. p # <<>> /\ q # <<>>
    BY <1>3 DEF Named
  <2>2. CASE p # t /\ p # u /\ q # t /\ q # u
    <3>1. p \in Items(d) /\ q \in Items(d) /\ Chain(e, p) = Chain(d, p) /\ Chain(e, q) = Chain(d, q)
      BY <1>10, <2>2
    <3> QED
      BY <1>11, <3>1 DEF Tidy
  <2>3. CASE p \in {t, u} /\ q \in {t, u}
    BY <1>1, <1>10, <1>11, <2>1, <2>3
  <2>4. CASE p \in {t, u} /\ q \notin {t, u}
    BY <1>10, <2>1, <2>4
  <2>5. CASE p \notin {t, u} /\ q \in {t, u}
    BY <1>10, <2>1, <2>5
  <2> QED
    BY <2>2, <2>3, <2>4, <2>5
<1>12. ASSUME NEW p \in Items(e) PROVE UpFirst(e, p) = UpFirst(d, p)
  <2>1. p \in Named /\ Front(p) # t
    BY <1>2, <1>3
  <2>2. ItemAt(e, Front(p)) = ItemAt(d, Front(p))
    BY <1>2, <2>1, PathParts
  <2> QED
    BY <2>2 DEF UpFirst
<1> HIDE DEF own, new, u, c
<1>13. ASSUME NEW p \in Items(e) \cap Folders
       PROVE  HeadOf(e, ItemAt(e, p).first, UpFirst(e, p))
  <2>1. UpFirst(e, p) = UpFirst(d, p) /\ p # <<>>
    BY <1>3, <1>12 DEF Named
  <2>2. CASE p = t
    BY <1>1, <1>2, <2>1, <2>2
  <2>3. CASE p = u
    <3>1. ItemAt(e, p) = ItemAt(d, u) /\ u # <<>>
      BY <1>2, <1>3, <1>4, <2>1, <2>3
    <3>2. HeadOf(e, c, UpFirst(d, u))
      BY <1>1, <3>1
    <3> QED
      BY <2>1, <2>3, <3>1, <3>2 DEF c
  <2>4. CASE p # t /\ p # u
    <3>1. p \in Items(d) \ {t, u} /\ ItemAt(e, p) = ItemAt(d, p)
      BY <1>2, <1>3, <2>4
    <3>2. HeadOf(d, ItemAt(d, p).first, UpFirst(d, p)) /\ Chain(d, p) # <<>>
      BY <3>1 DEF Tidy
    <3>3. ItemAt(d, p).first \in ToSet(Chain(d, p))
      BY <3>2, ChainStarts DEF Chain
    <3>4. e.data[ItemAt(d, p).first] = d.data[ItemAt(d, p).first]
      BY <1>1, <3>1, <3>3
    <3> QED
      BY <2>1, <3>1, <3>2, <3>4 DEF HeadOf
  <2> QED
    BY <2>2, <2>3, <2>4
<1>14. List(e, u) = v
  <2>1. ItemAt(e, u) = ItemAt(d, u)
    BY <1>2, <1>4
  <2>2. retrieve_folders_from_folder(e, c) = v
    BY <1>1, HoldsIs
  <2> QED
    BY <2>1, <2>2 DEF List, c
<1>15. ASSUME NEW p \in Directories(e)
       PROVE  Holds(e, ItemAt(e, p).first, List(e, p)) /\ Unique(List(e, p))
  <2>1. CASE p = t
    <3>1. t \in Folders /\ item # NoItem
      BY <2>1, <1>2, DirectoryIs
    <3>2. Holds(e, item.first, <<>>)
      BY <1>1, <3>1
    <3>3. List(e, t) = <<>>
      BY <1>2, <3>2, HoldsIs DEF List
    <3>4. Unique(<<>>)
      <4>1. Len(<<>>) = 0
        OBVIOUS
      <4> QED
        BY <4>1 DEF Unique
    <3> QED
      BY <1>2, <2>1, <3>2, <3>3, <3>4
  <2>2. CASE p = u
    <3>1. ItemAt(e, u) = ItemAt(d, u)
      BY <1>2, <1>4
    <3> QED
      BY <1>1, <1>14, <2>2, <3>1 DEF c
  <2>3. CASE p # t /\ p # u
    <3>1. p \in Directories(d) \ {t, u} /\ ItemAt(e, p) = ItemAt(d, p)
      <4>1. p \in Directories(d) \ {t, u} /\ (p = <<>> \/ p \in Named)
        BY <1>2, <2>3, DirectoryIs
      <4> QED
        BY <1>2, <4>1
    <3>2. Holds(e, ItemAt(e, p).first, List(d, p))
      BY <1>2, <3>1
    <3>3. List(e, p) = List(d, p)
      BY <3>2, HoldsIs DEF List
    <3> QED
      BY <3>1, <3>2, <3>3 DEF Tidy
  <2> QED
    BY <2>1, <2>2, <2>3
<1>16. Tidy(e)
  BY <1>1, <1>9, <1>11, <1>13, <1>15 DEF Tidy
<1>17. ASSUME NEW q \in Named \ {t} PROVE View(e, q) = View(d, q)
  <2>1. ItemAt(e, q) = ItemAt(d, q)
    BY <1>2
  <2>2. CASE ItemAt(d, q) = NoItem \/ q \in Folders
    BY <2>1, <2>2 DEF View
  <2>3. CASE ~(ItemAt(d, q) = NoItem \/ q \in Folders)
    <3>1. q \in Items(d) /\ q # u
      BY <1>4, <2>3, ItemStep DEF Named
    <3>2. PICK s \in Seq(Clusters) : s = Chain(d, q) /\ Chain(e, q) = s
      BY <1>5, <3>1, ChainOf DEF Chain
    <3>3. \A i \in 1 .. Len(s) : e.data[s[i]] = d.data[s[i]]
      <4>1. \A i \in 1 .. Len(s) : s[i] \in ToSet(s)
        BY SetOf
      <4> QED
        BY <1>1, <3>1, <3>2, <4>1
    <3>4. [i \in DOMAIN s |-> e.data[s[i]]] = [i \in DOMAIN s |-> d.data[s[i]]]
      BY <3>3, LenProperties
    <3> QED
      BY <2>1, <2>3, <3>2, <3>4 DEF View, Chain
  <2> QED
    BY <2>2, <2>3
<1> QED
  BY <1>5, <1>14, <1>16, <1>17 DEF u

(* No cluster gets lost if what is taken newly is in one of the two chains *)
(* and what was in them is still there or free.                            *)
LEMMA MoveLost ==
    ASSUME NEW d \in Disks, NEW e \in Disks, Tidy(d), NEW t \in Named, NEW v, NEW item,
           Moves(d, e, t, v, item),
           \A x \in Taken(e) : \/ x \in Taken(d)
                               \/ x \in ToSet(retrieve_sectors_fs(e.fat, ItemAt(d, Front(t)).first))
                               \/ x \in ToSet(Clustered(e, item)),
           t \in Items(d) => \A x \in ToSet(Chain(d, t)) : e.fat[x] = 0 \/ x \in ToSet(Clustered(e, item))
    PROVE  Lost(e) \subseteq Lost(d)
<1> DEFINE u == Front(t)
           c == ItemAt(d, u).first
<1>1. u # <<>> => ToSet(Chain(d, u)) \subseteq ToSet(retrieve_sectors_fs(e.fat, c))
  BY DEF Moves
<1>2. /\ \A q \in Named \ {t} : ItemAt(e, q) = ItemAt(d, q)
      /\ ItemAt(e, t) = item
      /\ Items(e) \ {t} = Items(d) \ {t} /\ (t \in Items(e) <=> item # NoItem)
  BY MoveItems
<1>3. \A q \in Items(d) \ {t, u} : Chain(e, q) = Chain(d, q)
  BY MoveTidy
<1>4. u \in Directories(d) /\ u # t
  <2>1. Len(Front(t)) = Len(t) - 1 /\ Len(t) \in Nat
    BY PathParts
  <2>2. Len(Front(t)) # Len(t)
    BY <2>1
  <2> QED
    BY <2>2 DEF Moves
<1>5. u = <<>> \/ (u \in Items(e) /\ ItemAt(e, u) = ItemAt(d, u))
  BY <1>2, <1>4, DirectoryIs
<1>6. SUFFICES ASSUME NEW x \in Lost(e) PROVE x \in Lost(d)
  OBVIOUS
<1>7. x \in Taken(e) /\ \A q \in Items(e) : x \notin ToSet(Chain(e, q))
  BY DEF Lost
<1>8. x \notin ToSet(retrieve_sectors_fs(e.fat, c))
  <2>1. CASE u = <<>>
    <3>1. c = Root
      BY <2>1, ItemNext, RootIsItem DEF ItemAt
    <3> QED
      BY <3>1, NoChain, ClustersAre
  <2>2. CASE u # <<>>
    <3>1. u \in Items(e) /\ Chain(e, u) = retrieve_sectors_fs(e.fat, c)
      BY <1>5, <2>2 DEF Chain
    <3> QED
      BY <1>7, <3>1
  <2> QED
    BY <2>1, <2>2
<1>9. x \notin ToSet(Clustered(e, item))
  <2>1. CASE item = NoItem
    BY <2>1, NoChain, ClustersAre, RootIsItem DEF Clustered
  <2>2. CASE item # NoItem
    <3>1. t \in Items(e) /\ Chain(e, t) = Clustered(e, item)
      BY <1>2, <2>2 DEF Chain, Clustered
    <3> QED
      BY <1>7, <3>1
  <2> QED
    BY <2>1, <2>2
<1>10. x \in Taken(d)
  BY <1>7, <1>8, <1>9
<1>11. ASSUME NEW q \in Items(d) PROVE x \notin ToSet(Chain(d, q))
  <2>1. CASE q = t
    BY <1>7, <1>9, <2>1 DEF Taken
  <2>2. CASE q = u
    <3>1. q # <<>>
      BY DEF Items, Named
    <3> QED
      BY <1>1, <1>8, <2>2, <3>1
  <2>3. CASE q # t /\ q # u
    <3>1. q \in Items(e) /\ Chain(e, q) = Chain(d, q)
      BY <1>2, <1>3, <2>3
    <3> QED
      BY <1>7, <3>1
  <2> QED
    BY <2>1, <2>2, <2>3
<1> QED
  BY <1>10, <1>11 DEF Lost

-----------------------------------------------------------------------------
(* The clusters of a directory as the operations get them. *)
ClustersOf(d, c) == IF c = Root THEN <<Root>> ELSE retrieve_sectors_fs(d.fat, c)

(* Only the root directory is at Root; every other one has clusters. *)
LEMMA DirFirst ==
    ASSUME NEW d \in Disks, Tidy(d), NEW u \in Directories(d)
    PROVE  LET c == ItemAt(d, u).first IN
           /\ c = Root <=> u = <<>>
           /\ u # <<>> => u \in Items(d) /\ u \in Folders /\ c \in Clusters
                          /\ retrieve_sectors_fs(d.fat, c) # <<>>
<1>1. CASE u = <<>>
  <2>1. ItemAt(d, <<>>) = RootItem
    <3>1. PICK e : e = <<>> /\ Len(e) = 0 /\ Len(e) \in Nat
      OBVIOUS
    <3> QED
      BY <3>1, ItemIs DEF ItemAt
  <2> QED
    BY <1>1, <2>1, RootIsItem
<1>2. CASE u # <<>>
  <2>1. u \in Items(d) /\ u \in Folders
    BY <1>2, DirectoryIs
  <2>2. Chain(d, u) # <<>>
    BY <2>1 DEF Tidy
  <2>3. retrieve_sectors_fs(d.fat, ItemAt(d, u).first) # <<>> /\ ItemAt(d, u).first \in Clusters
    BY <2>2, ChainOf DEF Chain
  <2> QED
    BY <1>2, <2>1, <2>3, ClustersAre
<1> QED
  BY <1>1, <1>2

LEMMA SlotsAre ==
    ASSUME NEW d \in Disks, NEW c
    PROVE  /\ SlotsOf(d, c) \in Seq(Slots) /\ Len(SlotsOf(d, c)) \in Nat
           /\ c = Root => SlotsOf(d, c) = d.root /\ Len(SlotsOf(d, c)) = R
           /\ c # Root => Len(SlotsOf(d, c)) = Len(retrieve_sectors_fs(d.fat, c)) * K
<1>1. CASE c = Root
  <2>1. d.root \in Seq(Slots) /\ Len(d.root) = R
    <3>1. d.root \in [1 .. R -> Slots] /\ R \in Nat
      BY Sizes0 DEF Disks
    <3> QED
      BY <3>1, Filled
  <2> QED
    BY <1>1, <2>1, Sizes0 DEF SlotsOf
<1>2. CASE c # Root
  <2>1. PICK s \in Seq(Clusters) : s = retrieve_sectors_fs(d.fat, c)
    BY ChainOf
  <2>2. Content(d, s) \in Seq(Slots) /\ Len(Content(d, s)) = Len(s) * K
    BY ContentIs
  <2>3. Len(Content(d, s)) \in Nat
    BY <2>2, LenProperties
  <2> QED
    BY <1>2, <2>1, <2>2, <2>3 DEF SlotsOf
<1> QED
  BY <1>1, <1>2

(* Upper finds the directory of a path, or no clusters. *)
LEMMA UpperAre ==
    ASSUME NEW d \in Disks, Tidy(d), NEW p \in Named
    PROVE  LET u  == Front(p)
               c  == ItemAt(d, u).first
               up == Upper(d, p)
           IN  /\ up.chain # <<>> => u \in Directories(d)
               /\ u \in Directories(d) =>
                     /\ up.first = c /\ up.skip = Skip(c) /\ up.chain = ClustersOf(d, c)
                     /\ up.chain # <<>> /\ up.room = Len(SlotsOf(d, c))
<1> DEFINE u == Front(p)
           c == ItemAt(d, u).first
<1>1. Len(p) = 1 <=> u = <<>>
  BY PathParts
<1>2. CASE u = <<>>
  <2>1. u \in Directories(d) /\ c = Root
    BY <1>2, DirectoryIs, DirFirst
  <2>2. Upper(d, p) = [first |-> Root, chain |-> <<Root>>, room |-> R, skip |-> 1]
    BY <1>1, <1>2 DEF Upper
  <2>3. Len(SlotsOf(d, c)) = R
    BY <2>1, SlotsAre
  <2>4. <<Root>> # <<>>
    OBVIOUS
  <2> QED
    BY <2>1, <2>2, <2>3, <2>4 DEF ClustersOf, Skip
<1>3. CASE u # <<>>
  <2>1. Upper(d, p) = [first |-> c, chain |-> retrieve_sectors_fs(d.fat, c),
                       room |-> Len(retrieve_sectors_fs(d.fat, c)) * K, skip |-> 2]
    BY <1>1, <1>3 DEF Upper, UpperAt, UpperOf, ItemAt
  <2>2. ASSUME retrieve_sectors_fs(d.fat, c) # <<>> PROVE u \in Directories(d)
    <3>1. ItemAt(d, u) # NoItem
      BY <2>2, ChainOf, ClustersAre, RootIsItem
    <3> QED
      BY <3>1, PathParts, DirectoryIs
  <2>3. ASSUME u \in Directories(d)
        PROVE  c # Root /\ retrieve_sectors_fs(d.fat, c) # <<>>
    BY <1>3, <2>3, DirFirst
  <2>4. c # Root => Len(SlotsOf(d, c)) = Len(retrieve_sectors_fs(d.fat, c)) * K
    BY SlotsAre
  <2> QED
    BY <2>1, <2>2, <2>3, <2>4 DEF ClustersOf, Skip
<1> QED
  BY <1>2, <1>3

(* The first two slots of a directory are those of its first cluster. *)
LEMMA HeadSlots ==
    ASSUME NEW d \in Disks, NEW c, c # Root, retrieve_sectors_fs(d.fat, c) # <<>>
    PROVE  /\ SlotsOf(d, c)[1] = d.data[c][1] /\ SlotsOf(d, c)[2] = d.data[c][2]
           /\ Len(SlotsOf(d, c)) >= 2
<1>1. PICK s \in Seq(Clusters) : s = retrieve_sectors_fs(d.fat, c) /\ s # <<>> /\ s[1] = c
  BY ChainOf
<1>2. PICK m \in Nat : m = Len(s) /\ m # 0
  BY <1>1, LenProperties, EmptySeq
<1>3. 1 \in 1 .. Len(s) /\ 1 \in 1 .. K /\ 2 \in 1 .. K /\ K \in Nat
  BY <1>2, Sizes0
<1>4. Content(d, s)[((1 - 1) * K) + 1] = d.data[s[1]][1] /\ Content(d, s)[((1 - 1) * K) + 2] = d.data[s[1]][2]
  BY <1>3, ContentAt
<1>5. ((1 - 1) * K) + 1 = 1 /\ ((1 - 1) * K) + 2 = 2
  BY <1>3
<1>6. Content(d, s)[1] = d.data[s[1]][1] /\ Content(d, s)[2] = d.data[s[1]][2]
  BY <1>4, <1>5
<1>7. m * K >= 2
  BY <1>2, <1>3
<1> QED
  BY <1>1, <1>2, <1>6, <1>7, SlotsAre DEF SlotsOf

-----------------------------------------------------------------------------
(* SoundTree and Kinds say that the disk is tidy, in the words of the      *)
(* operations.                                                             *)

(* No gap between the entries: they are the list of the directory. *)
LEMMA PackedLists ==
    ASSUME NEW b \in Seq(Slots), NEW k \in Nat, k <= Len(b), \A i \in 1 .. k : b[i] # Zero
    PROVE  Packed(b) <=> \E u : Lists(b, k, u)
<1>1. PICK m \in Nat : m = Len(b)
  BY LenProperties
<1>2. ASSUME Packed(b) PROVE \E u : Lists(b, k, u)
  <2>1. PICK n \in 0 .. m : \A i \in 1 .. m : b[i] = Zero <=> i > n
    BY <1>1, <1>2 DEF Packed
  <2>2. k <= n
    <3>1. SUFFICES ASSUME k > n PROVE FALSE
      OBVIOUS
    <3>2. k \in 1 .. m /\ k \in 1 .. k
      BY <1>1, <2>1, <3>1
    <3> QED
      BY <2>1, <3>1, <3>2
  <2>3. PICK a \in Nat : a = k + 1
    OBVIOUS
  <2>4. 1 <= a /\ a <= n + 1 /\ n <= Len(b) /\ n \in Nat
    BY <1>1, <2>1, <2>2, <2>3
  <2>5. PICK u : u = SubSeq(b, a, n)
    OBVIOUS
  <2>6. u \in Seq(Slots) /\ Len(u) = (n + 1) - a /\ \A i \in 1 .. (n + 1) - a : u[i] = b[(a + i) - 1]
    BY <2>4, <2>5, Cut
  <2>7. \A i \in 1 .. n - k : u[i] = b[k + i] /\ b[k + i] # Zero
    <3> TAKE i \in 1 .. n - k
    <3>1. i \in 1 .. (n + 1) - a /\ (a + i) - 1 = k + i /\ k + i \in 1 .. m /\ ~(k + i > n)
      BY <2>1, <2>2, <2>3
    <3> QED
      BY <2>1, <2>6, <3>1
  <2>8. Len(u) = n - k
    BY <2>1, <2>3, <2>6
  <2>9. \A i \in n + 1 .. m : b[i] = Zero
    BY <2>1
  <2>10. k + (n - k) = n /\ k + (n - k) + 1 = n + 1
    BY <2>1
  <2>11. Lists(b, k, u)
    BY <1>1, <2>1, <2>6, <2>7, <2>8, <2>9, <2>10 DEF Lists
  <2> QED
    BY <2>11
<1>3. ASSUME NEW u, Lists(b, k, u) PROVE Packed(b)
  <2>1. PICK l \in Nat : l = Len(u)
    BY <1>3, LenProperties DEF Lists
  <2>2. /\ k + l <= m /\ \A i \in 1 .. l : b[k + i] # Zero
        /\ \A i \in k + l + 1 .. m : b[i] = Zero
    BY <1>1, <1>3, <2>1 DEF Lists
  <2>3. ASSUME NEW i \in 1 .. m PROVE b[i] = Zero <=> i > k + l
    <3>1. CASE i <= k
      BY <3>1
    <3>2. CASE i > k /\ i <= k + l
      <4>1. PICK j \in 1 .. l : i = k + j
        <5>1. i - k \in 1 .. l /\ i = k + (i - k)
          BY <3>2
        <5> QED
          BY <5>1
      <4>2. b[i] # Zero
        BY <2>2, <4>1
      <4>3. ~(i > k + l)
        BY <1>1, <2>1, <3>2
      <4> QED
        BY <4>2, <4>3
    <3>3. CASE i > k + l
      <4>1. i \in k + l + 1 .. m
        BY <3>3
      <4> QED
        BY <2>2, <3>3, <4>1
    <3> QED
      BY <3>1, <3>2, <3>3
  <2>4. k + l \in 0 .. Len(b)
    BY <1>1, <2>2
  <2> QED
    BY <1>1, <2>3, <2>4 DEF Packed
<1> QED
  BY <1>2, <1>3

(* "." at the end of a path is all that dirread drops. *)
LEMMA NoDot ==
    ASSUME NEW p, p # <<>> => Last(p) # <<Dot>>
    PROVE  DropDot(p) = p
  BY DEF DropDot

LEMMA NotZero ==
    ASSUME NEW s, s.name # <<>> \/ s.first # 0
    PROVE  s # Zero
  BY DEF Zero, Slot

(* What dirread gives of a directory *)
LEMMA DirReadIs ==
    ASSUME NEW d \in Disks, NEW p \in Directories(d), p # <<>> => Last(p) # <<Dot>>,
           NEW u, Holds(d, ItemAt(d, p).first, u)
    PROVE  dirread(d, p) = u /\ List(d, p) = u /\ u \in Seq(Slots) /\ DOMAIN u = 1 .. Len(u)
<1>1. dirread(d, p) = u /\ List(d, p) = u
  BY HoldsIs, NoDot DEF dirread, List, ItemAt
<1>2. u \in Seq(Slots)
  BY DEF Holds, Lists
<1> QED
  BY <1>1, <1>2, LenProperties

LEMMA TidyFrom ==
    ASSUME NEW d \in Disks, SoundTree(d), Kinds(d)
    PROVE  Tidy(d) /\ Shy(d)
<1>1. \A p \in Items(d) : Kind(p, ItemAt(d, p)) /\ Chain(d, p) # <<>>
  BY DEF SoundTree, Kinds, Kind
<1>2. ASSUME NEW p \in Items(d) \cap Folders
      PROVE  HeadOf(d, ItemAt(d, p).first, UpFirst(d, p))
  BY <1>2 DEF SoundTree, HeadOf, UpFirst
<1>3. ASSUME NEW p \in Directories(d)
      PROVE  Holds(d, ItemAt(d, p).first, List(d, p)) /\ Unique(List(d, p))
  <2> DEFINE c == ItemAt(d, p).first
  <2>1. PICK b \in Seq(Slots) : b = SlotsOf(d, c)
    BY SlotsAre
  <2>2. Packed(b)
    BY <2>1 DEF SoundTree
  <2>3. p = <<>> \/ (p \in Items(d) /\ p \in Folders)
    BY DirectoryIs
  <2>4. /\ Skip(c) \in Nat /\ Skip(c) <= Len(b) /\ \A i \in 1 .. Skip(c) : b[i] # Zero
        /\ c # Root => retrieve_sectors_fs(d.fat, c) # <<>>
    <3>1. CASE p = <<>>
      <4>1. c = Root
        <5>1. PICK e : e = <<>> /\ Len(e) = 0 /\ Len(e) \in Nat
          OBVIOUS
        <5>2. ItemAt(d, <<>>) = RootItem
          BY <5>1, ItemIs DEF ItemAt
        <5> QED
          BY <3>1, <5>2, RootIsItem
      <4>2. b = d.root /\ Len(b) = R /\ R > 0 /\ R \in Nat
        BY <2>1, <4>1, SlotsAre, Sizes0
      <4>3. b[1] # Zero
        BY <4>2 DEF Kinds
      <4>4. Skip(c) = 1
        BY <4>1 DEF Skip
      <4> QED
        BY <4>1, <4>2, <4>3, <4>4
    <3>2. CASE p # <<>>
      <4>1. retrieve_sectors_fs(d.fat, c) # <<>>
        BY <1>1, <2>3, <3>2 DEF Chain
      <4>2. c # Root
        BY <4>1, ChainOf, ClustersAre
      <4>3. HeadOf(d, c, UpFirst(d, p))
        BY <1>2, <2>3, <3>2
      <4>4. b[1] = d.data[c][1] /\ b[2] = d.data[c][2] /\ Len(b) >= 2
        BY <2>1, <4>1, <4>2, HeadSlots
      <4>5. <<Dot>> # <<>> /\ <<Dot, Dot>> # <<>>
        OBVIOUS
      <4>6. b[1] # Zero /\ b[2] # Zero
        BY <4>3, <4>4, <4>5, NotZero DEF HeadOf
      <4>7. Skip(c) = 2 /\ \A i \in 1 .. 2 : i = 1 \/ i = 2
        BY <4>2 DEF Skip
      <4> QED
        BY <4>1, <4>4, <4>6, <4>7
    <3> QED
      BY <3>1, <3>2
  <2>5. PICK u : Lists(b, Skip(c), u)
    BY <2>1, <2>2, <2>4, PackedLists
  <2>6. Holds(d, c, u)
    BY <2>1, <2>4, <2>5 DEF Holds
  <2>7. p # <<>> => Last(p) # <<Dot>>
    BY <1>1, <2>3 DEF Kind
  <2>8. dirread(d, p) = u /\ List(d, p) = u /\ DOMAIN u = 1 .. Len(u)
    BY <2>6, <2>7, DirReadIs
  <2>9. Unique(u)
    BY <2>8 DEF SoundTree, Unique
  <2> QED
    BY <2>6, <2>8, <2>9
<1>4. Shy(d)
  BY DEF Kinds, Shy
<1> QED
  BY <1>1, <1>2, <1>3, <1>4 DEF Tidy, SoundTree

(* The entry of an item in the list of its directory *)
LEMMA EntryOf ==
    ASSUME NEW d \in Disks, Tidy(d), NEW p \in Items(d)
    PROVE  LET u == Front(p)
               l == List(d, u)
               j == IndexOf(l, Last(p))
               c == ItemAt(d, u).first
           IN  /\ u \in Directories(d) /\ l \in Seq(Slots) /\ Unique(l) /\ j \in 1 .. Len(l)
               /\ l[j] = ItemAt(d, p) /\ NameOf(ItemAt(d, p)) = Last(p)
               /\ Holds(d, c, l) /\ SlotsOf(d, c)[Skip(c) + j] = ItemAt(d, p)
               /\ Skip(c) + j \in 1 .. Len(SlotsOf(d, c)) /\ ItemAt(d, p) \in Slots
               /\ retrieve_folders_from_folder(d, c) = l
<1> DEFINE u == Front(p)
           c == ItemAt(d, u).first
<1>1. p \in Named
  BY DEF Items
<1>2. u \in Directories(d) /\ ItemAt(d, p) = Found(List(d, u), Last(p)) /\ ItemAt(d, p) # NoItem
  BY <1>1, ItemStep
<1>3. PICK l : l = List(d, u)
  OBVIOUS
<1>4. Holds(d, c, l) /\ Unique(l)
  BY <1>2, <1>3 DEF Tidy
<1>5. l \in Seq(Slots)
  BY <1>4 DEF Holds, Lists
<1>6. \E i \in 1 .. Len(l) : NameOf(l[i]) = Last(p)
  BY <1>2, <1>3, <1>5, IndexFound
<1>7. PICK j \in 1 .. Len(l) : j = IndexOf(l, Last(p)) /\ NameOf(l[j]) = Last(p) /\ Found(l, Last(p)) = l[j]
                               /\ l[j] \in Slots
  BY <1>5, <1>6, IndexFound
<1>8. Skip(c) \in Nat
  BY DEF Skip
<1>9. SlotsOf(d, c)[Skip(c) + j] = l[j] /\ Skip(c) + Len(l) <= Len(SlotsOf(d, c))
  BY <1>4 DEF Holds, Lists
<1>10. Len(l) \in Nat /\ Len(SlotsOf(d, c)) \in Nat
  BY <1>5, LenProperties, SlotsAre
<1>11. Skip(c) + j \in 1 .. Len(SlotsOf(d, c))
  BY <1>8, <1>9, <1>10
<1>12. retrieve_folders_from_folder(d, c) = l
  BY <1>4, HoldsIs
<1> QED
  BY <1>2, <1>3, <1>4, <1>5, <1>7, <1>9, <1>11, <1>12

(* Reading and writing one slot of a directory *)
LEMMA SlotChanged ==
    ASSUME NEW d \in Disks, NEW c, NEW chain, chain = ClustersOf(d, c), chain # <<>>,
           NEW i \in 1 .. Len(SlotsOf(d, c)), NEW n \in Nat, n = i - 1, NEW s \in Slots,
           NEW e, e = PutSlot(d, chain, n, s)
    PROVE  /\ GetSlot(d, chain, n) = SlotsOf(d, c)[i]
           /\ e \in Refilled(d) /\ SlotsOf(e, c) = [SlotsOf(d, c) EXCEPT ![i] = s]
           /\ c = Root => e.data = d.data
           /\ c # Root => e.root = d.root
           /\ \A x \in Clusters : x \notin ToSet(chain) => e.data[x] = d.data[x]
<1>1. CASE c = Root
  <2>0. ClustersOf(d, c) = <<Root>> /\ <<Root>>[1] = Root
    BY <1>1 DEF ClustersOf
  <2>1. chain[1] = Root
    BY <2>0
  <2>2. n + 1 = i
    OBVIOUS
  <2>3. GetSlot(d, chain, n) = d.root[i]
    BY <2>1, <2>2 DEF GetSlot
  <2>4. PutSlot(d, chain, n, s) = [d EXCEPT !.root[i] = s]
    BY <2>1, <2>2 DEF PutSlot
  <2>5. [d.root EXCEPT ![i] = s] \in Roots
    BY DEF Disks, Roots
  <2>6. PICK x \in Roots : x = [d.root EXCEPT ![i] = s]
    BY <2>5
  <2>7. e = [d EXCEPT !.root = x]
    BY <2>4, <2>6
  <2>8. e \in Refilled(d) /\ e.root = x /\ e.data = d.data
    BY <2>7, Refill DEF Disks
  <2> QED
    BY <1>1, <2>1, <2>3, <2>6, <2>8 DEF SlotsOf
<1>2. CASE c # Root
  <2>1. PICK q \in Seq(Clusters) : q = chain /\ q = retrieve_sectors_fs(d.fat, c) /\ q # <<>>
    BY <1>2, ChainOf DEF ClustersOf
  <2>2. \A x, y \in 1 .. Len(q) : q[x] = q[y] => x = y
    <3>1. d.fat \in FatTables
      BY DEF Disks, FatTables, Ids
    <3>2. IsChain(d.fat, c, q)
      BY <2>1, <3>1, ChainIs
    <3> QED
      BY <3>1, <3>2, ChainOnce
  <2>3. SlotsOf(d, c) = Content(d, q) /\ Len(SlotsOf(d, c)) = Len(q) * K /\ Len(SlotsOf(d, c)) \in Nat
    BY <1>2, <2>1, SlotsAre DEF SlotsOf
  <2>4. PICK index \in 0 .. (Len(q) * K) - 1 : index = n /\ index + 1 = i
    <3>1. n \in 0 .. (Len(q) * K) - 1 /\ n + 1 = i
      BY <2>3
    <3> QED
      BY <3>1
  <2>5. e = PutSlot(d, q, index, s)
    BY <2>1, <2>4
  <2>6. /\ GetSlot(d, q, index) = Content(d, q)[i]
        /\ e \in Refilled(d) /\ e.root = d.root
        /\ Content(e, q) = [Content(d, q) EXCEPT ![i] = s]
        /\ \A x \in Clusters \ ToSet(q) : e.data[x] = d.data[x]
    BY <2>1, <2>2, <2>4, <2>5, SlotPut
  <2>7. e.fat = d.fat
    BY <2>6, RefilledKeeps
  <2>8. SlotsOf(e, c) = Content(e, q)
    BY <1>2, <2>1, <2>7 DEF SlotsOf
  <2> QED
    BY <1>2, <2>1, <2>3, <2>4, <2>5, <2>6, <2>8
<1> QED
  BY <1>1, <1>2

LEMMA SlotRead ==
    ASSUME NEW d \in Disks, NEW c, ClustersOf(d, c) # <<>>,
           NEW i \in 1 .. Len(SlotsOf(d, c)), NEW n \in Nat, n = i - 1
    PROVE  GetSlot(d, ClustersOf(d, c), n) = SlotsOf(d, c)[i]
<1>1. PICK s \in Slots : s = Zero
  BY SlotTypes
<1>2. PICK e, chain : chain = ClustersOf(d, c) /\ e = PutSlot(d, chain, n, s)
  OBVIOUS
<1>3. GetSlot(d, chain, n) = SlotsOf(d, c)[i] /\ e \in Refilled(d)
  BY <1>1, <1>2, SlotChanged
<1> QED
  BY <1>2, <1>3

LEMMA TidyTo ==
    ASSUME NEW d \in Disks, Tidy(d), Shy(d)
    PROVE  SoundTree(d) /\ Kinds(d)
<1>1. \A p \in Items(d) : Kind(p, ItemAt(d, p)) /\ Chain(d, p) # <<>>
  BY DEF Tidy
<1>2. ASSUME NEW p \in Directories(d)
      PROVE  /\ Packed(SlotsOf(d, ItemAt(d, p).first))
             /\ \A i, j \in DOMAIN dirread(d, p) :
                   NameOf(dirread(d, p)[i]) = NameOf(dirread(d, p)[j]) => i = j
  <2> DEFINE c == ItemAt(d, p).first
  <2>1. PICK u : u = List(d, p) /\ Holds(d, c, u) /\ Unique(u)
    BY DEF Tidy
  <2>2. p # <<>> => Last(p) # <<Dot>>
    BY <1>1, DirectoryIs DEF Kind
  <2>3. dirread(d, p) = u /\ DOMAIN u = 1 .. Len(u)
    BY <2>1, <2>2, DirReadIs
  <2>4. PICK b \in Seq(Slots) : b = SlotsOf(d, c)
    BY SlotsAre
  <2>5. Lists(b, Skip(c), u) /\ Skip(c) \in Nat
    BY <2>1, <2>4 DEF Holds, Skip
  <2>6. Skip(c) <= Len(b) /\ \A i \in 1 .. Skip(c) : b[i] # Zero
    <3>1. Skip(c) + Len(u) <= Len(b) /\ Len(u) \in Nat /\ Len(b) \in Nat
      BY <2>5, LenProperties DEF Lists
    <3>2. Skip(c) <= Len(b)
      BY <2>5, <3>1
    <3> QED
      BY <2>5, <3>2 DEF Lists
  <2>7. Packed(b)
    BY <2>5, <2>6, PackedLists
  <2> QED
    BY <2>1, <2>3, <2>4, <2>7 DEF Unique
<1>3. d.root[1] # Zero
  <2>1. <<>> \in Directories(d) /\ ItemAt(d, <<>>).first = Root
    BY DirectoryIs, DirFirst
  <2>2. Holds(d, Root, List(d, <<>>))
    BY <2>1 DEF Tidy
  <2> QED
    BY <2>2 DEF Holds, Lists, SlotsOf, Skip
<1>4. ASSUME NEW p \in Items(d) PROVE get_file_attribute(d, p) = ItemAt(d, p).attr
  <2> DEFINE u == Front(p)
             l == List(d, u)
             j == IndexOf(l, Last(p))
             c == ItemAt(d, u).first
  <2>1. /\ u \in Directories(d) /\ l \in Seq(Slots) /\ j \in 1 .. Len(l)
        /\ SlotsOf(d, c)[Skip(c) + j] = ItemAt(d, p)
        /\ Skip(c) + j \in 1 .. Len(SlotsOf(d, c)) /\ ItemAt(d, p) \in Slots
        /\ retrieve_folders_from_folder(d, c) = l
    BY <1>4, EntryOf
  <2>2. p \in Named
    BY DEF Items
  <2>3. PICK up : up = Upper(d, p)
    OBVIOUS
  <2>4. up.first = c /\ up.skip = Skip(c) /\ up.chain = ClustersOf(d, c) /\ up.chain # <<>>
    BY <2>1, <2>2, <2>3, UpperAre
  <2>5. AttributeIndex(d, up, p) = j - 1
    BY <2>1, <2>4 DEF AttributeIndex
  <2>6. PICK i \in 1 .. Len(SlotsOf(d, c)) : i = Skip(c) + j
    BY <2>1
  <2>7. PICK n \in Nat : n = (j - 1) + Skip(c) /\ n = i - 1
    <3>1. (j - 1) + Skip(c) \in Nat /\ (j - 1) + Skip(c) = i - 1
      BY <2>1, <2>6 DEF Skip
    <3> QED
      BY <3>1
  <2>8. GetSlot(d, ClustersOf(d, c), n) = SlotsOf(d, c)[i]
    <3>1. ClustersOf(d, c) # <<>>
      BY <2>4
    <3> HIDE DEF c
    <3> QED
      BY <2>6, <2>7, <3>1, SlotRead
  <2>9. GetSlot(d, up.chain, AttributeIndex(d, up, p) + up.skip) = ItemAt(d, p)
    BY <2>1, <2>4, <2>5, <2>6, <2>7, <2>8
  <2> QED
    BY <2>3, <2>9 DEF get_file_attribute, GetAttributeIn
<1>5. \A p \in Items(d) \cap Folders :
          LET head == d.data[ItemAt(d, p).first] IN
          /\ head[1].name = <<Dot>> /\ head[1].first = ItemAt(d, p).first
          /\ head[2].name = <<Dot, Dot>>
          /\ head[2].first = IF Len(p) = 1 THEN 0 ELSE ItemAt(d, Front(p)).first
  BY DEF Tidy, HeadOf, UpFirst
<1>6. SoundTree(d)
  BY <1>1, <1>2, <1>4, <1>5 DEF SoundTree, Tidy
<1>7. Kinds(d)
  BY <1>1, <1>3 DEF Kinds, Kind, Shy
<1> QED
  BY <1>6, <1>7
=============================================================================
