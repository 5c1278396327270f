-------------------------------- MODULE TreeProofs ---------------------------
(***************************************************************************)
(* What the system calls do to the directory tree and the content of the   *)
(* files.                                                                  *)
(*                                                                         *)
(* An operation of Fat12 for a path t is followed step by step (Moves:     *)
(* what a step does to the directory of t and to the clusters of both) and *)
(* ends in Others: the disk is tidy, and every other path leads to what it *)
(* led to.  On top of that a write is followed slot by slot, so that the   *)
(* clusters of a file hold what was written to it.  TreeInv, at the end,   *)
(* is the invariant that all calls keep, but for one that makes an item    *)
(* where it goes astray; that one is the last (SafeInv).                   *)
(***************************************************************************)
EXTENDS FilesProofs

-----------------------------------------------------------------------------
(* Taken clusters, and new ones                                            *)

LEMMA TablesOf ==
    ASSUME NEW d \in Disks
    PROVE  d.fat \in FatTables /\ \A x \in Clusters : d.data[x] \in [1 .. K -> Slots]
  BY DEF Disks, FatTables, Ids

(* The clusters of a chain are taken. *)
LEMMA ChainTaken ==
    ASSUME NEW d \in Disks, NEW c, NEW x \in ToSet(retrieve_sectors_fs(d.fat, c))
    PROVE  x \in Clusters /\ d.fat[x] # 0 /\ x \in Taken(d)
<1>1. PICK s \in Seq(Clusters) : s = retrieve_sectors_fs(d.fat, c)
  BY ChainOf
<1>2. PICK i \in 1 .. Len(s) : x = s[i]
  BY <1>1, SetOf
<1>3. PICK m \in Nat : m = Len(s)
  BY <1>1, LenProperties
<1>4. s # <<>> /\ x \in Clusters
  <2>1. s = <<>> => Len(s) = 0
    OBVIOUS
  <2> QED
    BY <1>2, <1>3, <2>1, ElementOfSeq
<1>5. IsChain(d.fat, c, s)
  BY <1>1, <1>4, TablesOf, ChainIs
<1>6. CASE i = m
  <2>1. d.fat[x] \in 4088 .. 4095
    BY <1>2, <1>3, <1>5, <1>6 DEF IsChain
  <2> QED
    BY <1>4, <2>1 DEF Taken
<1>7. CASE i # m
  <2>1. i \in 1 .. m - 1 /\ i + 1 \in 1 .. m
    BY <1>2, <1>3, <1>7
  <2>2. d.fat[x] = s[i + 1]
    BY <1>2, <1>3, <1>5, <2>1 DEF IsChain
  <2>3. s[i + 1] \in Clusters
    BY <1>3, <2>1, ElementOfSeq
  <2> QED
    BY <1>4, <2>2, <2>3, ClustersAre DEF Taken
<1> QED
  BY <1>6, <1>7

LEMMA ChainSet ==
    ASSUME NEW d \in Disks, NEW e \in Disks, NEW c, retrieve_sectors_fs(d.fat, c) # <<>>,
           \A x \in ToSet(retrieve_sectors_fs(d.fat, c)) : e.fat[x] = d.fat[x]
    PROVE  retrieve_sectors_fs(e.fat, c) = retrieve_sectors_fs(d.fat, c)
<1>1. PICK s \in Seq(Clusters) : s = retrieve_sectors_fs(d.fat, c)
  BY ChainOf
<1>2. \A i \in 1 .. Len(s) : s[i] \in ToSet(s)
  BY SetOf
<1> QED
  BY <1>1, <1>2, TablesOf, ChainKept

LEMMA AppendedSet ==
    ASSUME NEW X, NEW s \in Seq(X), NEW g \in X
    PROVE  Append(s, g) \in Seq(X) /\ ToSet(Append(s, g)) = ToSet(s) \cup {g}
<1>1. PICK m \in Nat : m = Len(s)
  BY LenProperties
<1>2. PICK a : a = Append(s, g)
  OBVIOUS
<1>3. a \in Seq(X) /\ Len(a) = m + 1 /\ a[m + 1] = g /\ \A i \in 1 .. m : a[i] = s[i]
  BY <1>1, <1>2, AppendProperties
<1>4. \A x : x \in ToSet(s) <=> \E i \in 1 .. m : x = s[i]
  BY <1>1, SetOf
<1>5. \A x : x \in ToSet(a) <=> \E i \in 1 .. m + 1 : x = a[i]
  BY <1>3, SetOf
<1>6. ASSUME NEW x \in ToSet(s) PROVE x \in ToSet(a)
  <2>1. PICK i \in 1 .. m : x = s[i]
    BY <1>4, <1>6
  <2>2. i \in 1 .. m + 1 /\ a[i] = x
    BY <1>3, <2>1
  <2> QED
    BY <1>5, <2>2
<1>7. g \in ToSet(a)
  <2>1. m + 1 \in 1 .. m + 1
    OBVIOUS
  <2> QED
    BY <1>3, <1>5, <2>1
<1>8. ASSUME NEW x \in ToSet(a) PROVE x \in ToSet(s) \cup {g}
  <2>1. PICK i \in 1 .. m + 1 : x = a[i]
    BY <1>5, <1>8
  <2>2. CASE i = m + 1
    BY <1>3, <2>1, <2>2
  <2>3. CASE i # m + 1
    <3>1. i \in 1 .. m
      BY <2>3
    <3> QED
      BY <1>3, <1>4, <2>1, <3>1
  <2> QED
    BY <2>2, <2>3
<1> QED
  BY <1>2, <1>3, <1>6, <1>7, <1>8

(* A new cluster adds its slots behind the others. *)
Longer(d, e, s, q, g, m) ==
    /\ Content(e, q) \in Seq(Slots) /\ Len(Content(e, q)) = (m * K) + K
    /\ \A i \in 1 .. m * K : Content(e, q)[i] = Content(d, s)[i]
    /\ \A i \in 1 .. K : Content(e, q)[(m * K) + i] = e.data[g][i]

LEMMA ContentGrown ==
    ASSUME NEW d \in Disks, NEW e \in Disks, NEW s \in Seq(Clusters), NEW g \in Clusters,
           \A i \in 1 .. Len(s) : e.data[s[i]] = d.data[s[i]], NEW m \in Nat, m = Len(s),
           NEW q, q = Append(s, g)
    PROVE  Longer(d, e, s, q, g, m)
<1>1. m = Len(s)
  OBVIOUS
<1>2. q = Append(s, g)
  OBVIOUS
<1>3. q \in Seq(Clusters) /\ Len(q) = m + 1 /\ q[m + 1] = g /\ \A i \in 1 .. m : q[i] = s[i]
  BY <1>1, <1>2, AppendProperties
<1>4. K \in Nat
  BY Sizes0
<1>5. PICK a \in Seq(Slots) : a = Content(e, q) /\ Len(a) = (m + 1) * K
  BY <1>3, ContentIs
<1>6. (m + 1) * K = (m * K) + K
  BY <1>4
<1>7. ASSUME NEW j \in 1 .. m * K PROVE a[j] = Content(d, s)[j]
  <2>1. PICK i \in 1 .. m, x \in 1 .. K : j = ((i - 1) * K) + x
    BY SlotParts
  <2>2. i \in 1 .. Len(s) /\ i \in 1 .. Len(q)
    BY <1>1, <1>3
  <2>3. Content(e, q)[((i - 1) * K) + x] = e.data[q[i]][x]
    BY <1>3, <2>2, ContentAt
  <2>4. Content(d, s)[((i - 1) * K) + x] = d.data[s[i]][x]
    BY <2>2, ContentAt
  <2> QED
    BY <1>1, <1>3, <1>5, <2>1, <2>2, <2>3, <2>4
<1>8. ASSUME NEW x \in 1 .. K PROVE a[(m * K) + x] = e.data[g][x]
  <2>1. m + 1 \in 1 .. Len(q) /\ (m + 1) - 1 = m
    BY <1>3
  <2>2. Content(e, q)[(((m + 1) - 1) * K) + x] = e.data[q[m + 1]][x]
    BY <1>3, <2>1, ContentAt
  <2> QED
    BY <1>3, <1>5, <2>1, <2>2
<1> QED
  BY <1>5, <1>6, <1>7, <1>8 DEF Longer

LEMMA BlankSlots ==
    /\ Blank \in Seq(Slots) /\ Blank \in [1 .. K -> Slots] /\ \A i \in 1 .. K : Blank[i] = Zero
<1>1. K \in Nat
  BY Sizes0
<1>2. Zeros(K) \in Seq(Slots) /\ Len(Zeros(K)) = K
  BY <1>1, ZerosAre
<1>3. Zeros(K) = [i \in 1 .. K |-> Zero]
  <2>1. [i \in 1 .. K |-> Zero] \in Seq(Slots)
    BY <1>1, SlotTypes
  <2>2. PICK z \in Seq(Slots) : z = [i \in 1 .. K |-> Zero]
    BY <2>1
  <2>3. <<>> \o z = z
    BY ConcatEmptySeq
  <2> QED
    BY <2>2, <2>3 DEF Zeros
<1>4. Blank \in [1 .. K -> Slots]
  BY <1>3, SlotTypes DEF Blank
<1> QED
  BY <1>2, <1>3, <1>4 DEF Blank

LEMMA OneCluster ==
    ASSUME NEW d \in Disks, NEW c \in Clusters, d.fat[c] \in 4088 .. 4095
    PROVE  /\ retrieve_sectors_fs(d.fat, c) = <<c>> /\ ToSet(<<c>>) = {c}
           /\ SlotsOf(d, c) = d.data[c] /\ <<c>> # <<>>
<1> DEFINE s == <<c>>
<1>2. s \in Seq(Clusters) /\ s # <<>> /\ s[1] = c /\ Len(s) = 1
  OBVIOUS
<1>1. s = <<c>>
  OBVIOUS
<1> HIDE DEF s
<1>3. IsChain(d.fat, c, s)
  <2>1. \A i \in 1 .. Len(s) - 1 : FALSE
    BY <1>2
  <2> QED
    BY <1>2, <2>1 DEF IsChain
<1>4. retrieve_sectors_fs(d.fat, c) = s
  BY <1>3, TablesOf, ChainFound
<1>5. ToSet(s) = {c}
  <2>1. \A x : x \in ToSet(s) <=> \E i \in 1 .. 1 : x = s[i]
    BY <1>2, SetOf
  <2>2. \A x : x \in ToSet(s) <=> x = c
    BY <1>2, <2>1
  <2> QED
    BY <2>2
<1>6. Content(d, s) = d.data[c]
  <2>1. d.data[c] \in Seq(Slots) /\ Len(d.data[c]) = K
    <3>1. d.data[c] \in [1 .. K -> Slots] /\ K \in Nat
      BY TablesOf, Sizes0
    <3> QED
      BY <3>1, Filled
  <2>2. PICK b \in Seq(Slots) : b = d.data[c] /\ Len(b) = K
    BY <2>1
  <2>3. Len(s) * K = K
    BY <1>2, Sizes0
  <2>4. ASSUME NEW i \in 1 .. Len(s), NEW a \in 1 .. K PROVE d.data[s[i]][a] = b[((i - 1) * K) + a]
    <3>1. i = 1
      BY <1>2
    <3>2. ((i - 1) * K) + a = a
      BY <3>1, Sizes0
    <3> QED
      BY <1>2, <2>2, <3>1, <3>2
  <2>5. Content(d, s) = b
    <3>1. s \in Seq(Clusters) /\ b \in Seq(Slots) /\ Len(b) = Len(s) * K
      BY <1>2, <2>2, <2>3
    <3> QED
      BY <2>4, <3>1, ContentGiven
  <2> QED
    BY <2>2, <2>5
<1>7. c # Root
  BY ClustersAre
<1> QED
  BY <1>1, <1>2, <1>4, <1>5, <1>6, <1>7 DEF SlotsOf

-----------------------------------------------------------------------------
(* Changes of a tidy disk that leave it tidy                               *)

(* A path, its directory and the clusters of both on a tidy disk *)
LEMMA Around ==
    ASSUME NEW d \in Disks, Tidy(d), NEW t \in Named, Front(t) \in Directories(d)
    PROVE  LET u   == Front(t)
               c   == ItemAt(d, u).first
               own == ToSet(retrieve_sectors_fs(d.fat, c))
           IN  /\ Holds(d, c, List(d, u)) /\ Unique(List(d, u)) /\ List(d, u) \in Seq(Slots)
               /\ u # t /\ (u = <<>> <=> c = Root) /\ own \cap ToSet(Chain(d, t)) = {}
               /\ u # <<>> => /\ u \in Items(d) /\ c \in Clusters /\ c \in own
                              /\ Chain(d, u) = retrieve_sectors_fs(d.fat, c) /\ Chain(d, u) # <<>>
                              /\ HeadOf(d, c, UpFirst(d, u))
               /\ ItemAt(d, t) = Found(List(d, u), Last(t))
               /\ \A q \in Items(d) \ {t, u} : \A x \in ToSet(Chain(d, q)) :
                     x \notin own /\ x \notin ToSet(Chain(d, t))
               /\ t \notin Items(d) => ItemAt(d, t) = NoItem /\ ToSet(Chain(d, t)) = {}
<1> DEFINE u   == Front(t)
           c   == ItemAt(d, u).first
           own == ToSet(retrieve_sectors_fs(d.fat, c))
<1>1. Holds(d, c, List(d, u)) /\ Unique(List(d, u)) /\ List(d, u) \in Seq(Slots)
  BY DEF Tidy, Holds, Lists
<1>2. u # t
  <2>1. Len(Front(t)) = Len(t) - 1 /\ Len(t) \in Nat
    BY PathParts
  <2>2. Len(Front(t)) # Len(t)
    BY <2>1
  <2> QED
    BY <2>2
<1>3. u = <<>> <=> c = Root
  BY DirFirst
<1>4. u # <<>> => /\ u \in Items(d) /\ c \in Clusters /\ c \in own
                  /\ Chain(d, u) = retrieve_sectors_fs(d.fat, c) /\ Chain(d, u) # <<>>
                  /\ HeadOf(d, c, UpFirst(d, u))
  <2>1. SUFFICES ASSUME u # <<>> PROVE u \in Items(d) /\ c \in Clusters /\ c \in own
            /\ Chain(d, u) = retrieve_sectors_fs(d.fat, c) /\ Chain(d, u) # <<>>
            /\ HeadOf(d, c, UpFirst(d, u))
    OBVIOUS
  <2>2. u \in Items(d) /\ u \in Folders /\ c \in Clusters /\ retrieve_sectors_fs(d.fat, c) # <<>>
    BY <2>1, DirFirst
  <2>3. c \in own
    BY <2>2, ChainStarts
  <2>4. HeadOf(d, c, UpFirst(d, u))
    BY <2>2 DEF Tidy
  <2> QED
    BY <2>2, <2>3, <2>4 DEF Chain
<1>5. t \notin Items(d) => ItemAt(d, t) = NoItem /\ ToSet(Chain(d, t)) = {}
  <2>1. t \notin Items(d) => ItemAt(d, t) = NoItem
    BY ItemStep
  <2>2. ToSet(retrieve_sectors_fs(d.fat, -1)) = {}
    BY NoChain, ClustersAre
  <2> QED
    BY <2>1, <2>2, RootIsItem DEF Chain
<1>6. u = <<>> => own = {}
  BY <1>3, NoChain, ClustersAre
<1>7. own \cap ToSet(Chain(d, t)) = {}
  <2>1. CASE u = <<>> \/ t \notin Items(d)
    BY <1>5, <1>6, <2>1
  <2>2. CASE u # <<>> /\ t \in Items(d)
    <3>1. ToSet(Chain(d, u)) \cap ToSet(Chain(d, t)) = {}
      BY <1>2, <1>4, <2>2 DEF Tidy
    <3> QED
      BY <1>4, <2>2, <3>1
  <2> QED
    BY <2>1, <2>2
<1>8. ASSUME NEW q \in Items(d) \ {t, u}, NEW x \in ToSet(Chain(d, q))
      PROVE  x \notin own /\ x \notin ToSet(Chain(d, t))
  <2>1. x \notin own
    <3>1. CASE u = <<>>
      BY <1>6, <3>1
    <3>2. CASE u # <<>>
      <4>1. ToSet(Chain(d, u)) \cap ToSet(Chain(d, q)) = {}
        BY <1>4, <3>2 DEF Tidy
      <4> QED
        BY <1>4, <3>2, <4>1
    <3> QED
      BY <3>1, <3>2
  <2>2. x \notin ToSet(Chain(d, t))
    <3>1. CASE t \in Items(d)
      <4>1. ToSet(Chain(d, t)) \cap ToSet(Chain(d, q)) = {}
        BY <3>1 DEF Tidy
      <4> QED
        BY <4>1
    <3> QED
      BY <1>5, <3>1
  <2> QED
    BY <2>1, <2>2
<1>9. ItemAt(d, t) = Found(List(d, u), Last(t))
  BY ItemStep
<1> QED
  BY <1>1, <1>2, <1>3, <1>4, <1>5, <1>7, <1>8, <1>9

LEMMA Unchanged ==
    ASSUME NEW u \in Seq(Slots), Unique(u), NEW name
    PROVE  Changed(u, u, name, Found(u, name))
  BY DEF Changed

(* The entries stay as they are; the clusters of a path or of its          *)
(* directory may become more.                                              *)
Keeps(d, e, t, u, c, own, new) ==
    /\ u = Front(t) /\ u \in Directories(d) /\ c = ItemAt(d, u).first
    /\ t \notin Folders \/ t \notin Items(d)
    /\ e.root = d.root
    /\ own = ToSet(retrieve_sectors_fs(e.fat, c))
    /\ new = ToSet(retrieve_sectors_fs(e.fat, ItemAt(d, t).first))
    /\ \A q \in Items(d) \ {t, u} : \A x \in ToSet(Chain(d, q)) :
          e.fat[x] = d.fat[x] /\ e.data[x] = d.data[x] /\ x \notin own /\ x \notin new
    /\ own \cap new = {}
    /\ Holds(e, c, List(d, u))
    /\ u # <<>> => ToSet(Chain(d, u)) \subseteq own /\ e.data[c] = d.data[c]
    /\ t \in Items(d) => retrieve_sectors_fs(e.fat, ItemAt(d, t).first) # <<>>
    /\ \A x \in Clusters \ Taken(e) : e.data[x] = Blank

LEMMA Kept ==
    ASSUME NEW d \in Disks, NEW e \in Disks, Tidy(d), NEW t \in Named, NEW u, NEW c,
           NEW own, NEW new, Keeps(d, e, t, u, c, own, new)
    PROVE  Moves(d, e, t, List(d, u), ItemAt(d, t))
<1>0. /\ u = Front(t) /\ u \in Directories(d) /\ c = ItemAt(d, u).first
      /\ t \notin Folders \/ t \notin Items(d)
      /\ e.root = d.root
      /\ own = ToSet(retrieve_sectors_fs(e.fat, c))
      /\ new = ToSet(retrieve_sectors_fs(e.fat, ItemAt(d, t).first))
      /\ \A q \in Items(d) \ {t, u} : \A x \in ToSet(Chain(d, q)) :
            e.fat[x] = d.fat[x] /\ e.data[x] = d.data[x] /\ x \notin own /\ x \notin new
      /\ own \cap new = {}
      /\ Holds(e, c, List(d, u))
      /\ u # <<>> => ToSet(Chain(d, u)) \subseteq own /\ e.data[c] = d.data[c]
      /\ t \in Items(d) => retrieve_sectors_fs(e.fat, ItemAt(d, t).first) # <<>>
      /\ \A x \in Clusters \ Taken(e) : e.data[x] = Blank
  BY DEF Keeps
<1> DEFINE item == ItemAt(d, t)
<1>1. Clustered(e, item) = retrieve_sectors_fs(e.fat, item.first)
  BY DEF Clustered
<1>2. /\ Unique(List(d, u)) /\ List(d, u) \in Seq(Slots)
      /\ u # <<>> => HeadOf(d, c, UpFirst(d, u))
      /\ item = Found(List(d, u), Last(t))
      /\ t \notin Items(d) => item = NoItem
  BY <1>0, Around
<1>3. Changed(List(d, u), List(d, u), Last(t), item)
  BY <1>2, Unchanged
<1>4. IF u = <<>> THEN TRUE
      ELSE e.root = d.root /\ ToSet(Chain(d, u)) \subseteq own /\ HeadOf(e, c, UpFirst(d, u))
  BY <1>0, <1>2 DEF HeadOf
<1>5. item # NoItem =>
          /\ Kind(t, item) /\ Clustered(e, item) # <<>>
          /\ t \in Folders => HeadOf(e, item.first, UpFirst(d, t)) /\ Holds(e, item.first, <<>>)
  BY <1>0, <1>1, <1>2 DEF Tidy
<1> HIDE DEF item
<1>6. own = ToSet(retrieve_sectors_fs(e.fat, c)) /\ new = ToSet(Clustered(e, item))
  BY <1>0, <1>1 DEF item
<1>7. t \in Folders /\ t \in Items(d) => List(d, t) = <<>>
  BY <1>0
<1>8. Moves(d, e, t, List(d, u), item)
  BY <1>0, <1>3, <1>4, <1>5, <1>6, <1>7 DEF Moves
<1> QED
  BY <1>8 DEF item

(* A change that no chain meets *)
LEMMA Spare ==
    ASSUME NEW d \in Disks, NEW e \in Disks, Tidy(d), NEW t \in Named, t \notin Items(d),
           Front(t) \in Directories(d), e.root = d.root,
           \A q \in Items(d) : \A x \in ToSet(Chain(d, q)) :
              e.fat[x] = d.fat[x] /\ e.data[x] = d.data[x],
           \A x \in Clusters \ Taken(e) : e.data[x] = Blank
    PROVE  LET c == ItemAt(d, Front(t)).first IN
           /\ Moves(d, e, t, List(d, Front(t)), NoItem)
           /\ retrieve_sectors_fs(e.fat, c) = retrieve_sectors_fs(d.fat, c)
<1> DEFINE u == Front(t)
           c == ItemAt(d, u).first
           s == retrieve_sectors_fs(d.fat, c)
<1>1. /\ Holds(d, c, List(d, u)) /\ (u = <<>> <=> c = Root)
      /\ u # <<>> => u \in Items(d) /\ c \in ToSet(s) /\ Chain(d, u) = s /\ s # <<>>
      /\ \A q \in Items(d) \ {t, u} : \A x \in ToSet(Chain(d, q)) : x \notin ToSet(s)
      /\ ItemAt(d, t) = NoItem
  BY Around
<1>2. u # <<>> => \A x \in ToSet(s) : e.fat[x] = d.fat[x] /\ e.data[x] = d.data[x]
  BY <1>1
<1>3. retrieve_sectors_fs(e.fat, c) = s
  <2>1. CASE u = <<>>
    BY <1>1, <2>1, NoChain, ClustersAre
  <2>2. CASE u # <<>>
    BY <1>1, <1>2, <2>2, ChainSet
  <2> QED
    BY <2>1, <2>2
<1>4. Holds(e, c, List(d, u))
  <2>1. c # Root => \A x \in ToSet(retrieve_sectors_fs(d.fat, c)) :
                          e.fat[x] = d.fat[x] /\ e.data[x] = d.data[x]
    BY <1>1, <1>2
  <2> HIDE DEF c, u
  <2> QED
    BY <1>1, <2>1, HoldsSame
<1>5. ToSet(retrieve_sectors_fs(e.fat, ItemAt(d, t).first)) = {}
  BY <1>1, NoChain, ClustersAre, RootIsItem
<1>6. u # <<>> => ToSet(Chain(d, u)) \subseteq ToSet(s) /\ e.data[c] = d.data[c]
  BY <1>1, <1>2
<1>7. PICK new : new = ToSet(retrieve_sectors_fs(e.fat, ItemAt(d, t).first)) /\ new = {}
  BY <1>5
<1>8. Moves(d, e, t, List(d, u), ItemAt(d, t))
  <2>1. PICK own : own = ToSet(retrieve_sectors_fs(e.fat, c))
    OBVIOUS
  <2>2. \A q \in Items(d) \ {t, u} : \A x \in ToSet(Chain(d, q)) :
              e.fat[x] = d.fat[x] /\ e.data[x] = d.data[x] /\ x \notin own /\ x \notin new
    BY <1>1, <1>3, <1>7, <2>1
  <2>3. own \cap new = {} /\ (u # <<>> => ToSet(Chain(d, u)) \subseteq own /\ e.data[c] = d.data[c])
    BY <1>3, <1>6, <1>7, <2>1
  <2>4. u \in Directories(d) /\ u = Front(t) /\ c = ItemAt(d, u).first
    OBVIOUS
  <2>5. new = ToSet(retrieve_sectors_fs(e.fat, ItemAt(d, t).first))
    BY <1>7
  <2>6. (t \notin Folders \/ t \notin Items(d)) /\ Holds(e, c, List(d, u))
        /\ (t \in Items(d) => retrieve_sectors_fs(e.fat, ItemAt(d, t).first) # <<>>)
    BY <1>4
  <2> HIDE DEF c, u, s
  <2>7. Keeps(d, e, t, u, c, own, new)
    BY <2>1, <2>2, <2>3, <2>4, <2>5, <2>6 DEF Keeps
  <2> QED
    BY <2>7, Kept
<1> QED
  BY <1>1, <1>3, <1>8

(* aloc_cluster for the directory of a path that does not exist *)
LEMMA ParentGrown ==
    ASSUME NEW d \in Disks, NEW e \in Disks, Tidy(d), NEW t \in Named, t \notin Items(d),
           NEW u, u = Front(t), u \in Directories(d), u # <<>>, NEW c, c = ItemAt(d, u).first,
           NEW s, s = retrieve_sectors_fs(d.fat, c), NEW g \in Clusters, d.fat[g] = 0,
           e.root = d.root, e.data = d.data,
           e.fat = [d.fat EXCEPT ![g] = EndMark, ![s[Len(s)]] = g]
    PROVE  /\ Moves(d, e, t, List(d, u), NoItem)
           /\ retrieve_sectors_fs(e.fat, c) = Append(s, g)
           /\ Len(SlotsOf(e, c)) = Len(SlotsOf(d, c)) + K
<1>1. /\ Holds(d, c, List(d, u)) /\ c # Root
      /\ u \in Items(d) /\ c \in Clusters /\ c \in ToSet(s) /\ Chain(d, u) = s /\ s # <<>>
      /\ \A q \in Items(d) \ {t, u} : \A x \in ToSet(Chain(d, q)) : x \notin ToSet(s)
      /\ ItemAt(d, t) = NoItem
  BY Around
<1>2. PICK m \in Nat : m = Len(s) /\ m # 0 /\ s \in Seq(Clusters)
  BY <1>1, ChainOf, LenProperties, EmptySeq
<1>3. \A i \in 1 .. m : s[i] \in Clusters /\ s[i] \in ToSet(s)
  <2>1. \A i \in 1 .. m : s[i] \in Clusters
    BY <1>2, ElementOfSeq
  <2> QED
    BY <1>2, <2>1, SetOf
<1>4. \A x \in ToSet(s) : d.fat[x] # 0
  BY ChainTaken
<1>5. d.fat \in [Ids -> Entry] /\ \A x \in Clusters : x \in Ids /\ d.fat[x] \in Entry
  BY TablesOf, ClustersAre DEF FatTables
<1>6. g \notin ToSet(s) /\ \A i \in 1 .. m : s[i] # g
  BY <1>3, <1>4
<1>7. m \in 1 .. m /\ s[m] \in Clusters
  BY <1>2, <1>3
<1>8. /\ e.fat[g] = EndMark /\ e.fat[s[m]] = g
      /\ \A x \in Clusters : x # g /\ x # s[m] => e.fat[x] = d.fat[x]
  BY <1>2, <1>5, <1>6, <1>7
<1>9. \A i \in 1 .. m - 1 : s[i] # s[m]
  <2>1. IsChain(d.fat, c, s)
    BY <1>1, TablesOf, ChainIs
  <2>2. \A i, j \in 1 .. m : s[i] = s[j] => i = j
    BY <1>2, <2>1, TablesOf, ChainOnce
  <2> QED
    BY <1>7, <2>2
<1>10. retrieve_sectors_fs(e.fat, c) = Append(s, g)
  <2>1. \A i \in 1 .. Len(s) - 1 : e.fat[s[i]] = d.fat[s[i]]
    <3> TAKE i \in 1 .. Len(s) - 1
    <3>1. i \in 1 .. m - 1 /\ i \in 1 .. m
      BY <1>2
    <3> QED
      BY <1>3, <1>6, <1>8, <1>9, <3>1
  <2>2. e.fat[g] \in 4088 .. 4095 /\ e.fat[s[Len(s)]] = g
    BY <1>2, <1>8, ClustersAre
  <2>3. PICK fat \in FatTables, tab \in FatTables : fat = d.fat /\ tab = e.fat
    BY TablesOf
  <2>4. retrieve_sectors_fs(tab, c) = Append(s, g)
    <3>1. s = retrieve_sectors_fs(fat, c) /\ s # <<>>
      BY <1>1, <2>3
    <3>2. tab[g] \in 4088 .. 4095 /\ tab[s[Len(s)]] = g /\ \A i \in 1 .. Len(s) - 1 : tab[s[i]] = fat[s[i]]
      BY <2>1, <2>2, <2>3
    <3> QED
      BY <3>1, <3>2, ChainGrown
  <2> QED
    BY <2>3, <2>4
<1>11. PICK own : own = ToSet(retrieve_sectors_fs(e.fat, c)) /\ own = ToSet(s) \cup {g}
  <2>1. ToSet(Append(s, g)) = ToSet(s) \cup {g}
    BY <1>2, AppendedSet
  <2> QED
    BY <1>10, <2>1
<1>12. ASSUME NEW q \in Items(d) \ {t, u}, NEW x \in ToSet(Chain(d, q))
       PROVE  e.fat[x] = d.fat[x] /\ e.data[x] = d.data[x] /\ x \notin own
  <2>1. x \in Clusters /\ d.fat[x] # 0
    BY ChainTaken DEF Chain
  <2>2. x \notin ToSet(s)
    BY <1>1
  <2>3. x # g /\ x # s[m]
    BY <1>3, <1>7, <2>1, <2>2
  <2> QED
    BY <1>8, <1>11, <2>1, <2>2, <2>3
<1>13. d.data[g] = Blank
  BY DEF Tidy, Taken
<1>14. /\ Content(e, Append(s, g)) \in Seq(Slots) /\ Len(Content(e, Append(s, g))) = (m * K) + K
       /\ \A i \in 1 .. m * K : Content(e, Append(s, g))[i] = Content(d, s)[i]
       /\ \A i \in 1 .. K : Content(e, Append(s, g))[(m * K) + i] = e.data[g][i]
  <2> DEFINE q == Append(s, g)
  <2>1. q = Append(s, g) /\ \A i \in 1 .. Len(s) : e.data[s[i]] = d.data[s[i]]
    OBVIOUS
  <2> HIDE DEF q
  <2>2. Longer(d, e, s, q, g, m)
    BY <1>2, <2>1, ContentGrown
  <2> QED
    BY <2>1, <2>2 DEF Longer
<1>15. SlotsOf(e, c) = Content(e, Append(s, g)) /\ SlotsOf(d, c) = Content(d, s)
  BY <1>1, <1>10 DEF SlotsOf
<1>16. PICK k \in Nat : k = m * K /\ Len(SlotsOf(d, c)) = k
  <2>1. m * K \in Nat
    BY Sizes0
  <2> QED
    BY <1>1, <1>2, <2>1, SlotsAre
<1>17. Len(SlotsOf(e, c)) = k + K
  BY <1>14, <1>15, <1>16
<1>18. Holds(e, c, List(d, u))
  <2>1. Lists(SlotsOf(d, c), Skip(c), List(d, u)) /\ Skip(c) \in Nat
    BY <1>1 DEF Holds, Skip
  <2>2. SlotsOf(e, c) \in Seq(Slots) /\ Len(SlotsOf(d, c)) <= Len(SlotsOf(e, c))
    BY <1>14, <1>15, <1>16, <1>17, Sizes0
  <2>3. \A i \in 1 .. k : SlotsOf(e, c)[i] = SlotsOf(d, c)[i]
    BY <1>14, <1>15, <1>16
  <2>4. \A i \in 1 .. K : SlotsOf(e, c)[k + i] = Zero
    BY <1>13, <1>14, <1>15, <1>16, BlankSlots
  <2>5. \A i \in k + 1 .. k + K : SlotsOf(e, c)[i] = Zero
    <3> TAKE i \in k + 1 .. k + K
    <3>1. i - k \in 1 .. K /\ k + (i - k) = i
      BY Sizes0
    <3> QED
      BY <2>4, <3>1
  <2>6. Lists(SlotsOf(e, c), Skip(c), List(d, u))
    BY <1>16, <1>17, <2>1, <2>2, <2>3, <2>5, SlotsGrown
  <2>7. Append(s, g) # <<>>
    BY <1>2, AppendProperties
  <2> QED
    BY <1>10, <2>6, <2>7 DEF Holds
<1>19. PICK new : new = ToSet(retrieve_sectors_fs(e.fat, ItemAt(d, t).first)) /\ \A x : x \notin new
  <2>1. ToSet(retrieve_sectors_fs(e.fat, -1)) = {}
    BY NoChain, ClustersAre
  <2> QED
    BY <1>1, <2>1, RootIsItem
<1>20. ASSUME NEW x \in Clusters \ Taken(e) PROVE e.data[x] = Blank
  <2>1. e.fat[x] = 0
    BY <1>20 DEF Taken
  <2>2. x # g /\ x # s[m]
    BY <1>8, <2>1, ClustersAre
  <2>3. d.fat[x] = 0
    BY <1>8, <2>1, <2>2
  <2> QED
    BY <2>3 DEF Tidy, Taken
<1>21. Moves(d, e, t, List(d, u), ItemAt(d, t))
  <2>1. own = ToSet(retrieve_sectors_fs(e.fat, c)) /\ new = ToSet(retrieve_sectors_fs(e.fat, ItemAt(d, t).first))
    BY <1>11, <1>19
  <2>2. \A q \in Items(d) \ {t, u} : \A x \in ToSet(Chain(d, q)) :
              e.fat[x] = d.fat[x] /\ e.data[x] = d.data[x] /\ x \notin own /\ x \notin new
    BY <1>12, <1>19
  <2>3. own \cap new = {}
    BY <1>19
  <2>4. u # <<>> => ToSet(Chain(d, u)) \subseteq own /\ e.data[c] = d.data[c]
    BY <1>1, <1>11
  <2>5. t \in Items(d) => retrieve_sectors_fs(e.fat, ItemAt(d, t).first) # <<>>
    OBVIOUS
  <2>6. t \notin Folders \/ t \notin Items(d)
    OBVIOUS
  <2>7. Keeps(d, e, t, u, c, own, new)
    BY <1>18, <1>20, <2>1, <2>2, <2>3, <2>4, <2>5, <2>6 DEF Keeps
  <2> QED
    BY <2>7, Kept
<1> QED
  BY <1>1, <1>10, <1>16, <1>17, <1>21

(* A change in the clusters of one file *)
LEMMA FileMoved ==
    ASSUME NEW d \in Disks, NEW e \in Disks, Tidy(d), NEW t \in Items(d) \ Folders, e.root = d.root,
           NEW old, old = ToSet(Chain(d, t)),
           retrieve_sectors_fs(e.fat, ItemAt(d, t).first) # <<>>,
           NEW new, new = ToSet(retrieve_sectors_fs(e.fat, ItemAt(d, t).first)),
           \A x \in Clusters : x \notin old /\ x \notin new => e.fat[x] = d.fat[x] /\ e.data[x] = d.data[x],
           \A x \in new : x \in old \/ d.fat[x] = 0,
           \A x \in old : e.fat[x] # 0
    PROVE  Moves(d, e, t, List(d, Front(t)), ItemAt(d, t))
<1> DEFINE u == Front(t)
           c == ItemAt(d, u).first
           s == retrieve_sectors_fs(d.fat, c)
<1>0. t \in Named /\ u \in Directories(d)
  BY ItemStep DEF Items
<1>1. /\ Holds(d, c, List(d, u)) /\ (u = <<>> <=> c = Root) /\ ToSet(s) \cap old = {}
      /\ u # <<>> => u \in Items(d) /\ c \in ToSet(s) /\ Chain(d, u) = s /\ s # <<>>
      /\ \A q \in Items(d) \ {t, u} : \A x \in ToSet(Chain(d, q)) : x \notin ToSet(s) /\ x \notin old
  BY <1>0, Around
<1>2. ASSUME NEW x \in Clusters, d.fat[x] # 0, x \notin old
      PROVE  e.fat[x] = d.fat[x] /\ e.data[x] = d.data[x] /\ x \notin new
  BY <1>2
<1>3. \A x \in ToSet(s) : e.fat[x] = d.fat[x] /\ e.data[x] = d.data[x] /\ x \notin new
  <2> TAKE x \in ToSet(s)
  <2>1. x \in Clusters /\ d.fat[x] # 0
    BY ChainTaken
  <2> QED
    BY <1>1, <1>2, <2>1
<1>4. retrieve_sectors_fs(e.fat, c) = s
  <2>1. CASE u = <<>>
    BY <1>1, <2>1, NoChain, ClustersAre
  <2>2. CASE u # <<>>
    BY <1>1, <1>3, <2>2, ChainSet
  <2> QED
    BY <2>1, <2>2
<1>5. Holds(e, c, List(d, u))
  <2>1. c # Root => \A x \in ToSet(retrieve_sectors_fs(d.fat, c)) :
                          e.fat[x] = d.fat[x] /\ e.data[x] = d.data[x]
    BY <1>3
  <2>2. Holds(d, c, List(d, u))
    BY <1>1
  <2> HIDE DEF c, u
  <2> QED
    BY <2>1, <2>2, HoldsSame
<1>6. ASSUME NEW q \in Items(d) \ {t, u}, NEW x \in ToSet(Chain(d, q))
      PROVE  e.fat[x] = d.fat[x] /\ e.data[x] = d.data[x] /\ x \notin new /\ x \notin ToSet(s)
  <2>1. x \in Clusters /\ d.fat[x] # 0
    BY ChainTaken DEF Chain
  <2> QED
    BY <1>1, <1>2, <2>1
<1>7. ASSUME NEW x \in Clusters \ Taken(e) PROVE e.data[x] = Blank
  <2>1. e.fat[x] = 0
    BY <1>7 DEF Taken
  <2>2. x \notin new
    BY <2>1, ChainTaken
  <2>3. d.fat[x] = 0 /\ e.data[x] = d.data[x]
    BY <2>1, <2>2
  <2> QED
    BY <2>3 DEF Tidy, Taken
<1>8. PICK own : own = ToSet(retrieve_sectors_fs(e.fat, c)) /\ own = ToSet(s)
  BY <1>4
<1>9. \A q \in Items(d) \ {t, u} : \A x \in ToSet(Chain(d, q)) :
              e.fat[x] = d.fat[x] /\ e.data[x] = d.data[x] /\ x \notin own /\ x \notin new
  BY <1>6, <1>8
<1>10. own \cap new = {} /\ (u # <<>> => ToSet(Chain(d, u)) \subseteq own /\ e.data[c] = d.data[c])
  BY <1>1, <1>3, <1>8
<1>11. u = Front(t) /\ c = ItemAt(d, u).first
  OBVIOUS
<1>12. own = ToSet(retrieve_sectors_fs(e.fat, c))
  BY <1>8
<1> HIDE DEF u, c, s
<1>13. Moves(d, e, t, List(d, u), ItemAt(d, t))
  <2>1. Keeps(d, e, t, u, c, own, new)
    BY <1>0, <1>5, <1>7, <1>9, <1>10, <1>11, <1>12 DEF Keeps
  <2> QED
    BY <1>0, <2>1, Kept
<1> QED
  BY <1>11, <1>13

(* The entry of a file is written again: set_file_attribute and            *)
(* update_file_size.                                                       *)
LEMMA EntryChanged ==
    ASSUME NEW d \in Disks, Tidy(d), NEW t \in Items(d) \ Folders, NEW u, u = Front(t),
           NEW c, c = ItemAt(d, u).first, NEW l, l = List(d, u),
           NEW j, j = IndexOf(l, Last(t)), NEW n \in Nat, n = (Skip(c) + j) - 1,
           NEW slot \in Slots, slot.first = ItemAt(d, t).first, NameOf(slot) = Last(t), Kind(t, slot),
           NEW e, e = PutSlot(d, ClustersOf(d, c), n, slot)
    PROVE  Moves(d, e, t, [l EXCEPT ![j] = slot], slot) /\ e \in Refilled(d)
           /\ \A x \in ToSet(Chain(d, t)) : e.data[x] = d.data[x]
<1>0. t \in Named /\ u \in Directories(d) /\ t \notin Folders
  BY ItemStep DEF Items
<1>1. /\ Holds(d, c, l) /\ Unique(l) /\ l \in Seq(Slots) /\ j \in 1 .. Len(l) /\ NameOf(l[j]) = Last(t)
      /\ Skip(c) + j \in 1 .. Len(SlotsOf(d, c))
  BY EntryOf
<1>2. /\ u = <<>> <=> c = Root
      /\ u # <<>> => /\ u \in Items(d) /\ c \in Clusters /\ c \in ToSet(retrieve_sectors_fs(d.fat, c))
                     /\ Chain(d, u) = retrieve_sectors_fs(d.fat, c) /\ Chain(d, u) # <<>>
                     /\ HeadOf(d, c, UpFirst(d, u))
      /\ ToSet(retrieve_sectors_fs(d.fat, c)) \cap ToSet(Chain(d, t)) = {}
      /\ \A q \in Items(d) \ {t, u} : \A x \in ToSet(Chain(d, q)) :
            x \notin ToSet(retrieve_sectors_fs(d.fat, c)) /\ x \notin ToSet(Chain(d, t))
  BY <1>0, Around
<1>3. ClustersOf(d, c) # <<>>
  BY <1>2 DEF ClustersOf
<1>4. PICK i \in 1 .. Len(SlotsOf(d, c)) : i = Skip(c) + j
  BY <1>1
<1>5. PICK chain : chain = ClustersOf(d, c)
  OBVIOUS
<1>6. n = i - 1
  BY <1>4
<1>7. /\ e \in Refilled(d) /\ SlotsOf(e, c) = [SlotsOf(d, c) EXCEPT ![i] = slot]
      /\ c = Root => e.data = d.data
      /\ c # Root => e.root = d.root
      /\ \A x \in Clusters : x \notin ToSet(chain) => e.data[x] = d.data[x]
  BY <1>3, <1>5, <1>6, SlotChanged
<1>8. e \in Disks /\ e.fat = d.fat
  BY <1>7, RefilledKeeps
<1>9. \A x \in Clusters : x \notin ToSet(retrieve_sectors_fs(d.fat, c)) => e.data[x] = d.data[x]
  BY <1>5, <1>7 DEF ClustersOf
<1>10. slot # Zero /\ slot # NoItem /\ Clustered(e, slot) = Chain(d, t) /\ Chain(d, t) # <<>>
  <2>1. Chain(d, t) # <<>>
    BY DEF Tidy
  <2>2. ItemAt(d, t).first \in Clusters
    BY <2>1, ChainOf DEF Chain
  <2>3. slot # Zero
    BY <2>2, NotZero, ClustersAre
  <2> QED
    BY <1>8, <2>1, <2>3, NoSlot DEF Clustered, Chain
<1>11. Holds(e, c, [l EXCEPT ![j] = slot])
  <2>1. Lists(SlotsOf(d, c), Skip(c), l) /\ Skip(c) \in Nat
    BY <1>1 DEF Holds, Skip
  <2>2. PICK b : b = SlotsOf(d, c)
    OBVIOUS
  <2>3. Lists([b EXCEPT ![Skip(c) + j] = slot], Skip(c), [l EXCEPT ![j] = slot])
    BY <1>1, <1>10, <2>1, <2>2, SlotSet
  <2>4. Lists(SlotsOf(e, c), Skip(c), [l EXCEPT ![j] = slot])
    BY <1>4, <1>7, <2>2, <2>3
  <2> QED
    BY <1>1, <1>8, <2>4 DEF Holds
<1>12. Changed(l, [l EXCEPT ![j] = slot], Last(t), slot)
  BY <1>1, Replaced
<1>13. IF u = <<>> THEN TRUE
       ELSE e.root = d.root /\ ToSet(Chain(d, u)) \subseteq ToSet(retrieve_sectors_fs(e.fat, c))
            /\ HeadOf(e, c, UpFirst(d, u))
  <2>1. SUFFICES ASSUME u # <<>>
                 PROVE  e.root = d.root /\ ToSet(Chain(d, u)) \subseteq ToSet(retrieve_sectors_fs(e.fat, c))
                        /\ HeadOf(e, c, UpFirst(d, u))
    OBVIOUS
  <2>2. c # Root /\ retrieve_sectors_fs(d.fat, c) # <<>> /\ retrieve_sectors_fs(e.fat, c) # <<>>
    BY <1>2, <1>8, <2>1
  <2>3. /\ SlotsOf(d, c)[1] = d.data[c][1] /\ SlotsOf(d, c)[2] = d.data[c][2]
        /\ SlotsOf(e, c)[1] = e.data[c][1] /\ SlotsOf(e, c)[2] = e.data[c][2]
    BY <1>8, <2>2, HeadSlots
  <2>4. i # 1 /\ i # 2
    BY <1>1, <1>4, <2>2 DEF Skip
  <2>5. 1 \in 1 .. Len(SlotsOf(d, c)) /\ 2 \in 1 .. Len(SlotsOf(d, c))
    BY <1>4, <2>2, HeadSlots, SlotsAre
  <2>6. SlotsOf(d, c) \in Seq(Slots)
    BY SlotsAre
  <2>7. SlotsOf(e, c)[1] = SlotsOf(d, c)[1] /\ SlotsOf(e, c)[2] = SlotsOf(d, c)[2]
    BY <1>7, <2>4, <2>5, <2>6
  <2> QED
    <3>1. e.data[c][1] = d.data[c][1] /\ e.data[c][2] = d.data[c][2]
      BY <2>3, <2>7
    <3>2. HeadOf(d, c, UpFirst(d, u))
      BY <1>2, <2>1
    <3>3. HeadOf(e, c, UpFirst(d, u))
      BY <3>1, <3>2 DEF HeadOf
    <3> QED
      BY <1>2, <1>7, <1>8, <2>1, <2>2, <3>3
<1>14. \A q \in Items(d) \ {t, u} : \A x \in ToSet(Chain(d, q)) :
          /\ e.fat[x] = d.fat[x] /\ e.data[x] = d.data[x]
          /\ x \notin ToSet(retrieve_sectors_fs(e.fat, c)) /\ x \notin ToSet(Clustered(e, slot))
  <2> TAKE q \in Items(d) \ {t, u}
  <2> TAKE x \in ToSet(Chain(d, q))
  <2>1. x \in Clusters
    BY ChainTaken DEF Chain
  <2> QED
    BY <1>2, <1>8, <1>9, <1>10, <2>1
<1>15. \A x \in Clusters \ Taken(e) : e.data[x] = Blank
  <2> TAKE x \in Clusters \ Taken(e)
  <2>1. x \in Clusters \ Taken(d)
    BY <1>8 DEF Taken
  <2>2. d.data[x] = Blank /\ x \notin ToSet(retrieve_sectors_fs(d.fat, c))
    BY <2>1, ChainTaken DEF Tidy
  <2> QED
    BY <1>9, <2>2
<1>16. \A x \in ToSet(Chain(d, t)) : e.data[x] = d.data[x]
  <2> TAKE x \in ToSet(Chain(d, t))
  <2>1. x \in Clusters
    BY ChainTaken DEF Chain
  <2> QED
    BY <1>2, <1>9, <2>1
<1>17. ToSet(retrieve_sectors_fs(e.fat, c)) \cap ToSet(Clustered(e, slot)) = {}
  BY <1>2, <1>8, <1>10
<1>18. Moves(d, e, t, [l EXCEPT ![j] = slot], slot)
  BY <1>0, <1>10, <1>11, <1>12, <1>13, <1>14, <1>15, <1>17 DEF Moves
<1> QED
  BY <1>7, <1>16, <1>18

(* The first slots of a new directory *)
LEMMA FolderHead ==
    ASSUME NEW d \in Disks, NEW x \in Clusters, NEW upper \in Clusters \cup {Root},
           NEW e, e = write_folder_into_fs(d, x, upper)
    PROVE  /\ e \in Refilled(d) /\ e.root = d.root
           /\ \A y \in Clusters : y # x => e.data[y] = d.data[y]
           /\ HeadOf(e, x, IF upper = Root THEN 0 ELSE upper)
           /\ \A i \in 3 .. K : e.data[x][i] = Zero
<1> DEFINE up == IF upper = Root THEN 0 ELSE upper
           s1 == Slot(<<Dot>>, <<>>, {"Directory"}, x, 0)
           s2 == Slot(<<Dot, Dot>>, <<>>, {"Hidden", "Volume_ID"}, up, 0)
           v  == <<s1, s2>>
           z  == Zeros(K - 2)
<1>1. x \in Ids
  BY ClustersAre
<1>2. e \in Refilled(d)
  BY <1>1, FolderWritten
<1>3. e = [d EXCEPT !.data[x] = v \o z]
  BY DEF write_folder_into_fs
<1>4. e.root = d.root /\ e.data = [d.data EXCEPT ![x] = v \o z]
  BY <1>3 DEF Disks
<1>5. K - 2 \in Nat /\ K \in Nat
  BY Sizes0
<1>6. z \in Seq(Slots) /\ Len(z) = K - 2 /\ \A i \in 1 .. K - 2 : z[i] = Zero
  <2>1. Zeros(K - 2) \in Seq(Slots) /\ Len(Zeros(K - 2)) = K - 2
    BY <1>5, ZerosAre
  <2>2. [i \in 1 .. K - 2 |-> Zero] \in Seq(Slots)
    BY <1>5, SlotTypes
  <2>3. PICK y \in Seq(Slots) : y = [i \in 1 .. K - 2 |-> Zero]
    BY <2>2
  <2>4. <<>> \o y = y
    BY <2>3, ConcatEmptySeq
  <2>5. Zeros(K - 2) = [i \in 1 .. K - 2 |-> Zero]
    BY <2>3, <2>4 DEF Zeros
  <2> QED
    BY <2>1, <2>5
<1>7. v[1] = s1 /\ v[2] = s2 /\ Len(v) = 2
  OBVIOUS
<1> HIDE DEF s1, s2, z
<1>8. PICK Y : Y = Slots \cup {s1, s2}
  OBVIOUS
<1>9. v \in Seq(Y) /\ z \in Seq(Y)
  <2>1. Slots \subseteq Y /\ s1 \in Y /\ s2 \in Y
    BY <1>8
  <2>2. z \in Seq(Y)
    BY <1>6, <2>1, SeqMonotonic
  <2> QED
    BY <2>1, <2>2
<1> HIDE DEF v
<1>10. PICK w : w = v \o z
  OBVIOUS
<1>11. /\ Len(w) = 2 + (K - 2) /\ w[1] = v[1] /\ w[2] = v[2]
       /\ \A i \in 1 .. K - 2 : w[2 + i] = z[i]
  <2>1. /\ w \in Seq(Y) /\ Len(w) = Len(v) + Len(z)
        /\ \A i \in 1 .. Len(v) + Len(z) : w[i] = IF i <= Len(v) THEN v[i] ELSE z[i - Len(v)]
    BY <1>9, <1>10, ConcatProperties
  <2>2. \A i \in 1 .. K : w[i] = IF i <= 2 THEN v[i] ELSE z[i - 2]
    BY <1>5, <1>6, <1>7, <2>1
  <2>3. \A i \in 1 .. K - 2 : 2 + i \in 1 .. K /\ ~(2 + i <= 2) /\ (2 + i) - 2 = i
    BY <1>5
  <2>4. 1 \in 1 .. K /\ 2 \in 1 .. K
    BY Sizes0
  <2> QED
    BY <1>6, <1>7, <2>1, <2>2, <2>3, <2>4
<1>12. e.data[x] = w /\ \A y \in Clusters : y # x => e.data[y] = d.data[y]
  <2>1. d.data \in [Clusters -> [1 .. K -> Slots]]
    BY DEF Disks
  <2> QED
    BY <1>4, <1>10, <2>1
<1>13. HeadOf(e, x, up)
  BY <1>7, <1>11, <1>12 DEF HeadOf, s1, s2, Slot
<1>14. ASSUME NEW i \in 3 .. K PROVE e.data[x][i] = Zero
  <2>1. i - 2 \in 1 .. K - 2 /\ 2 + (i - 2) = i
    BY <1>5
  <2> QED
    BY <1>6, <1>11, <1>12, <2>1
<1> QED
  BY <1>2, <1>4, <1>12, <1>13, <1>14

(* create_folder and create_file: the entry behind the others, and the     *)
(* first slots of a directory.  The cluster is taken already.              *)
NewEntry(d, t, u, c, l, new, n, slot, folder) ==
    /\ Tidy(d) /\ t \notin Items(d) /\ u = Front(t) /\ u \in Directories(d)
    /\ c = ItemAt(d, u).first /\ l = List(d, u)
    /\ d.fat[new] \in 4088 .. 4095 /\ d.data[new] = Blank
    /\ \A q \in Items(d) : new \notin ToSet(Chain(d, q))
    /\ n = Skip(c) + Len(l) /\ n + 1 <= Len(SlotsOf(d, c))
    /\ slot.first = new /\ NameOf(slot) = Last(t) /\ Kind(t, slot)
    /\ folder <=> t \in Folders

LEMMA ItemPut ==
    ASSUME NEW d \in Disks, NEW t \in Named, NEW u, NEW c, NEW l, NEW new \in Clusters,
           NEW n \in Nat, NEW slot \in Slots, NEW folder \in BOOLEAN,
           NewEntry(d, t, u, c, l, new, n, slot, folder),
           NEW e, e = PutItem(d, ClustersOf(d, c), n, slot, folder)
    PROVE  Moves(d, e, t, Append(l, slot), slot) /\ e \in Refilled(d)
           /\ (~folder => e.data[new] = Blank)
<1>a. /\ Tidy(d) /\ t \notin Items(d) /\ u = Front(t) /\ u \in Directories(d)
      /\ c = ItemAt(d, u).first /\ l = List(d, u)
  BY DEF NewEntry
<1>b. d.fat[new] \in 4088 .. 4095 /\ d.data[new] = Blank /\ \A q \in Items(d) : new \notin ToSet(Chain(d, q))
  BY DEF NewEntry
<1>c. n = Skip(c) + Len(l) /\ n + 1 <= Len(SlotsOf(d, c))
  BY DEF NewEntry
<1>d. slot.first = new /\ Kind(t, slot) /\ (folder <=> t \in Folders)
  BY DEF NewEntry
<1>e. NameOf(slot) = Last(t)
  BY DEF NewEntry
<1>1. /\ Holds(d, c, l) /\ Unique(l) /\ l \in Seq(Slots) /\ ItemAt(d, t) = Found(l, Last(t))
      /\ ItemAt(d, t) = NoItem
      /\ u = <<>> <=> c = Root
      /\ u # <<>> => /\ u \in Items(d) /\ c \in Clusters /\ c \in ToSet(retrieve_sectors_fs(d.fat, c))
                     /\ Chain(d, u) = retrieve_sectors_fs(d.fat, c) /\ Chain(d, u) # <<>>
                     /\ HeadOf(d, c, UpFirst(d, u))
      /\ \A q \in Items(d) \ {t, u} : \A x \in ToSet(Chain(d, q)) :
            x \notin ToSet(retrieve_sectors_fs(d.fat, c))
  BY <1>a, Around
<1>2. ClustersOf(d, c) # <<>>
  BY <1>1 DEF ClustersOf
<1>3. PICK i \in 1 .. Len(SlotsOf(d, c)) : i = n + 1 /\ i = Skip(c) + Len(l) + 1
  <2>1. n + 1 \in 1 .. Len(SlotsOf(d, c)) /\ Len(l) \in Nat /\ Skip(c) \in Nat
    BY <1>1, <1>c, SlotsAre, LenProperties DEF Skip
  <2>2. n + 1 = Skip(c) + Len(l) + 1
    BY <1>c, <2>1
  <2> QED
    BY <2>1, <2>2
<1>4. PICK chain : chain = ClustersOf(d, c)
  OBVIOUS
<1>5. PICK f : f = PutSlot(d, chain, n, slot)
  OBVIOUS
<1>6. n = i - 1
  BY <1>3
<1>7. /\ f \in Refilled(d) /\ SlotsOf(f, c) = [SlotsOf(d, c) EXCEPT ![i] = slot]
      /\ c = Root => f.data = d.data
      /\ c # Root => f.root = d.root
      /\ \A x \in Clusters : x \notin ToSet(chain) => f.data[x] = d.data[x]
  BY <1>2, <1>4, <1>5, <1>6, SlotChanged
<1>8. f \in Disks /\ f.fat = d.fat
  BY <1>7, RefilledKeeps
<1>9. PICK s : s = retrieve_sectors_fs(d.fat, c) /\ s \in Seq(Clusters)
  BY ChainOf
<1>10. \A x \in Clusters : x \notin ToSet(s) => f.data[x] = d.data[x]
  BY <1>4, <1>7, <1>9 DEF ClustersOf
<1>11. new \notin ToSet(s)
  <2>1. CASE u = <<>>
    <3>1. Root \notin Clusters
      BY ClustersAre
    <3>2. ToSet(retrieve_sectors_fs(d.fat, c)) = {}
      BY <1>1, <2>1, <3>1, NoChain
    <3> QED
      BY <1>9, <3>2
  <2>2. CASE u # <<>>
    BY <1>1, <1>9, <1>b, <2>2
  <2> QED
    BY <2>1, <2>2
<1>12. chain[1] = c /\ c \in Clusters \cup {Root}
  <2>1. CASE c = Root
    <3>1. <<Root>>[1] = Root
      OBVIOUS
    <3> QED
      BY <1>4, <2>1, <3>1 DEF ClustersOf
  <2>2. CASE c # Root
    BY <1>1, <1>4, <2>2, ChainOf DEF ClustersOf
  <2> QED
    BY <2>1, <2>2
<1>13. /\ e \in Refilled(f) /\ e.root = f.root
       /\ \A y \in Clusters : y # new => e.data[y] = f.data[y]
       /\ folder => /\ HeadOf(e, new, IF c = Root THEN 0 ELSE c)
                    /\ \A k \in 3 .. K : e.data[new][k] = Zero
       /\ ~folder => e = f
  <2>1. e = IF folder THEN write_folder_into_fs(f, new, c) ELSE f
    BY <1>4, <1>5, <1>12, <1>d DEF PutItem
  <2>2. CASE folder
    BY <1>8, <1>12, <2>1, <2>2, FolderHead
  <2>3. CASE ~folder
    BY <1>8, <2>1, <2>3, Refill
  <2> QED
    BY <2>2, <2>3
<1>14. e \in Refilled(d) /\ e \in Disks /\ e.fat = d.fat
  BY <1>7, <1>8, <1>13, RefilledKeeps
<1>15. \A x \in Clusters : x \notin ToSet(s) /\ x # new => e.data[x] = d.data[x]
  BY <1>10, <1>13
<1>16. SlotsOf(e, c) = SlotsOf(f, c)
  <2>1. CASE c = Root
    BY <1>13, <2>1 DEF SlotsOf
  <2>2. CASE c # Root
    <3>1. ASSUME NEW k \in 1 .. Len(s) PROVE e.data[s[k]] = f.data[s[k]]
      <4>1. s[k] \in Clusters /\ s[k] \in ToSet(s)
        BY <1>9, ElementOfSeq, SetOf
      <4> QED
        BY <1>11, <1>13, <4>1
    <3>2. Content(e, s) = Content(f, s)
      BY <1>8, <1>9, <1>14, <3>1, ContentSame
    <3> QED
      BY <1>8, <1>9, <1>14, <2>2, <3>2 DEF SlotsOf
  <2> QED
    BY <2>1, <2>2
<1>17. slot # Zero /\ slot # NoItem
  BY <1>d, NotZero, ClustersAre, NoSlot
<1>18. Holds(e, c, Append(l, slot))
  <2>1. Lists(SlotsOf(d, c), Skip(c), l) /\ Skip(c) \in Nat
    BY <1>1 DEF Holds, Skip
  <2>2. PICK b : b = SlotsOf(d, c)
    OBVIOUS
  <2>3. Skip(c) + Len(l) + 1 <= Len(b)
    BY <1>3, <2>2, SlotsAre
  <2>4. Lists([b EXCEPT ![Skip(c) + Len(l) + 1] = slot], Skip(c), Append(l, slot))
    BY <1>17, <2>1, <2>2, <2>3, SlotAdded
  <2>5. Lists(SlotsOf(e, c), Skip(c), Append(l, slot))
    BY <1>3, <1>7, <1>16, <2>2, <2>4
  <2> QED
    BY <1>1, <1>14, <2>5 DEF Holds
<1>19. Changed(l, Append(l, slot), Last(t), slot)
  <2>1. Found(l, NameOf(slot)) = NoItem
    BY <1>1, <1>e
  <2>2. Changed(l, Append(l, slot), NameOf(slot), slot)
    BY <1>1, <2>1, Appended
  <2> QED
    BY <1>e, <2>2
<1>20. retrieve_sectors_fs(e.fat, new) = <<new>> /\ ToSet(<<new>>) = {new}
       /\ SlotsOf(e, new) = e.data[new] /\ <<new>> # <<>>
  <2>1. e.fat[new] \in 4088 .. 4095
    BY <1>14, <1>b
  <2> QED
    BY <1>14, <2>1, OneCluster
<1>21. Clustered(e, slot) # <<>> /\ ToSet(Clustered(e, slot)) = {new}
  <2>1. Clustered(e, slot) = <<new>>
    BY <1>20, <1>d DEF Clustered
  <2> QED
    BY <1>20, <2>1
<1>22. t \in Folders => HeadOf(e, new, UpFirst(d, t)) /\ Holds(e, new, <<>>)
  <2>1. SUFFICES ASSUME t \in Folders PROVE HeadOf(e, new, UpFirst(d, t)) /\ Holds(e, new, <<>>)
    OBVIOUS
  <2>2. UpFirst(d, t) = IF c = Root THEN 0 ELSE c
    <3>1. Len(t) = 1 <=> u = <<>>
      BY <1>a, PathParts
    <3> QED
      BY <1>1, <1>a, <3>1 DEF UpFirst
  <2>3. HeadOf(e, new, UpFirst(d, t)) /\ \A k \in 3 .. K : e.data[new][k] = Zero
    BY <1>13, <1>d, <2>1, <2>2
  <2>4. PICK b : b = SlotsOf(e, new) /\ b = e.data[new]
    BY <1>20
  <2>5. b \in Seq(Slots) /\ Len(b) = K /\ K \in Nat /\ K >= 2
    <3>1. b \in [1 .. K -> Slots] /\ K \in Nat
      BY <1>14, <2>4, TablesOf, Sizes0
    <3> QED
      BY <3>1, Filled, Sizes0
  <2>6. b[1] # Zero /\ b[2] # Zero
    <3>1. <<Dot>> # <<>> /\ <<Dot, Dot>> # <<>>
      OBVIOUS
    <3>2. b[1].name = <<Dot>> /\ b[2].name = <<Dot, Dot>>
      BY <2>3, <2>4 DEF HeadOf
    <3> QED
      BY <3>1, <3>2, NotZero
  <2>7. \A k \in 1 .. 2 : b[k] # Zero
    BY <2>6
  <2>8. Len(<<>>) = 0 /\ <<>> \in Seq(Slots)
    OBVIOUS
  <2>9. \A k \in 2 + 0 + 1 .. Len(b) : b[k] = Zero
    BY <2>3, <2>4, <2>5
  <2>10. Lists(b, 2, <<>>)
    <3> DEFINE z == <<>>
    <3>1. z \in Seq(Slots) /\ Len(z) = 0
      BY <2>8
    <3> HIDE DEF z
    <3>2. Lists(b, 2, z)
      BY <2>5, <2>7, <2>9, <3>1 DEF Lists
    <3> QED
      BY <3>2 DEF z
  <2>11. new # Root
    BY ClustersAre
  <2> QED
    BY <1>20, <2>3, <2>4, <2>10, <2>11 DEF Holds, Skip
<1>23. IF u = <<>> THEN TRUE
       ELSE e.root = d.root /\ ToSet(Chain(d, u)) \subseteq ToSet(retrieve_sectors_fs(e.fat, c))
            /\ HeadOf(e, c, UpFirst(d, u))
  <2>1. SUFFICES ASSUME u # <<>>
                 PROVE  e.root = d.root /\ ToSet(Chain(d, u)) \subseteq ToSet(retrieve_sectors_fs(e.fat, c))
                        /\ HeadOf(e, c, UpFirst(d, u))
    OBVIOUS
  <2>2. c # Root /\ retrieve_sectors_fs(d.fat, c) # <<>> /\ retrieve_sectors_fs(e.fat, c) # <<>>
    BY <1>1, <1>14, <2>1
  <2>3. /\ SlotsOf(d, c)[1] = d.data[c][1] /\ SlotsOf(d, c)[2] = d.data[c][2]
        /\ SlotsOf(e, c)[1] = e.data[c][1] /\ SlotsOf(e, c)[2] = e.data[c][2]
    BY <1>14, <2>2, HeadSlots
  <2>4. i # 1 /\ i # 2
    <3>1. Len(l) \in Nat
      BY <1>1, LenProperties
    <3> QED
      BY <1>3, <2>2, <3>1 DEF Skip
  <2>5. 1 \in 1 .. Len(SlotsOf(d, c)) /\ 2 \in 1 .. Len(SlotsOf(d, c))
    BY <2>2, HeadSlots, SlotsAre
  <2>6. SlotsOf(d, c) \in Seq(Slots)
    BY SlotsAre
  <2>7. SlotsOf(e, c)[1] = SlotsOf(d, c)[1] /\ SlotsOf(e, c)[2] = SlotsOf(d, c)[2]
    BY <1>7, <1>16, <2>4, <2>5, <2>6
  <2>8. e.data[c][1] = d.data[c][1] /\ e.data[c][2] = d.data[c][2]
    BY <2>3, <2>7
  <2>9. HeadOf(d, c, UpFirst(d, u))
    BY <1>1, <2>1
  <2>10. HeadOf(e, c, UpFirst(d, u))
    BY <2>8, <2>9 DEF HeadOf
  <2> QED
    BY <1>1, <1>7, <1>13, <1>14, <2>1, <2>2, <2>10
<1>24. \A q \in Items(d) \ {t, u} : \A x \in ToSet(Chain(d, q)) :
          /\ e.fat[x] = d.fat[x] /\ e.data[x] = d.data[x]
          /\ x \notin ToSet(retrieve_sectors_fs(e.fat, c)) /\ x \notin ToSet(Clustered(e, slot))
  <2> TAKE q \in Items(d) \ {t, u}
  <2> TAKE x \in ToSet(Chain(d, q))
  <2>1. x \in Clusters
    BY ChainTaken DEF Chain
  <2>2. x \notin ToSet(s) /\ x # new
    BY <1>1, <1>9, <1>b
  <2>3. x \notin ToSet(retrieve_sectors_fs(e.fat, c)) /\ x \notin ToSet(Clustered(e, slot))
    BY <1>9, <1>14, <1>21, <2>2
  <2> QED
    BY <1>14, <1>15, <2>1, <2>2, <2>3
<1>25. \A x \in Clusters \ Taken(e) : e.data[x] = Blank
  <2> TAKE x \in Clusters \ Taken(e)
  <2>1. x \in Clusters \ Taken(d) /\ d.fat[x] = 0
    BY <1>14 DEF Taken
  <2>2. d.data[x] = Blank /\ x \notin ToSet(s) /\ x # new
    BY <1>9, <1>a, <1>b, <2>1, ChainTaken DEF Tidy
  <2> QED
    BY <1>15, <2>2
<1>26. ToSet(retrieve_sectors_fs(e.fat, c)) \cap ToSet(Clustered(e, slot)) = {}
  BY <1>9, <1>11, <1>14, <1>21
<1>27. Moves(d, e, t, Append(l, slot), slot)
  BY <1>18, <1>19, <1>21, <1>22, <1>23, <1>24, <1>25, <1>26, <1>a, <1>d DEF Moves
<1>28. ~folder => e.data[new] = Blank
  BY <1>10, <1>11, <1>13, <1>b
<1> QED
  BY <1>14, <1>27, <1>28

-----------------------------------------------------------------------------
(* rmdir                                                                   *)

(* What write_to_fs of a part of a cluster leaves there *)
LEMMA ClusterWritten ==
    ASSUME NEW d \in Disks, NEW c \in Clusters, NEW u \in Seq(Slots), Len(u) <= K,
           NEW e, e = write_to_fs(d, c, u)
    PROVE  /\ e \in Refilled(d) /\ e.root = d.root
           /\ \A x \in Clusters : x # c => e.data[x] = d.data[x]
           /\ \A i \in 1 .. K : e.data[c][i] = IF i <= Len(u) THEN u[i] ELSE d.data[c][i]
<1>1. PICK old \in Seq(Slots) : old = d.data[c] /\ Len(old) = K
  <2>1. d.data[c] \in [1 .. K -> Slots] /\ K \in Nat
    BY TablesOf, Sizes0
  <2> QED
    BY <2>1, Filled
<1>2. PICK m \in Nat : m = Len(u) /\ m <= K /\ K \in Nat
  BY LenProperties, Sizes0
<1>3. PICK t \in Seq(Slots) : t = SubSeq(old, m + 1, K) /\ Len(t) = K - m /\ \A i \in 1 .. K - m : t[i] = old[m + i]
  <2>1. PICK a \in Nat, b \in Nat : a = m + 1 /\ b = K
    BY <1>2
  <2>2. 1 <= a /\ a <= b + 1 /\ b <= Len(old) /\ (b + 1) - a = K - m
    BY <1>1, <1>2, <2>1
  <2>3. SubSeq(old, a, b) \in Seq(Slots) /\ Len(SubSeq(old, a, b)) = (b + 1) - a
        /\ \A i \in 1 .. (b + 1) - a : SubSeq(old, a, b)[i] = old[(a + i) - 1]
    BY <1>1, <2>2, Cut
  <2>4. \A i \in 1 .. K - m : (a + i) - 1 = m + i
    BY <1>2, <2>1
  <2>5. PICK t : t = SubSeq(old, a, b)
    OBVIOUS
  <2>6. t \in Seq(Slots) /\ Len(t) = K - m /\ \A i \in 1 .. K - m : t[i] = old[(a + i) - 1]
    BY <2>2, <2>3, <2>5
  <2>7. \A i \in 1 .. K - m : t[i] = old[m + i]
    BY <2>4, <2>6
  <2>8. t = SubSeq(old, m + 1, K)
    BY <2>1, <2>5
  <2> QED
    BY <2>6, <2>7, <2>8
<1>4. PICK v : v = u \o t
  OBVIOUS
<1>5. \A i \in 1 .. K : v[i] = IF i <= m THEN u[i] ELSE old[i]
  <2>1. \A i \in 1 .. Len(u) + Len(t) : v[i] = IF i <= Len(u) THEN u[i] ELSE t[i - Len(u)]
    BY <1>3, <1>4, ConcatProperties
  <2>2. \A i \in 1 .. K : v[i] = IF i <= m THEN u[i] ELSE t[i - m]
    <3>1. Len(u) = m /\ Len(u) + Len(t) = K
      BY <1>2, <1>3
    <3> QED
      BY <2>1, <3>1
  <2>3. ASSUME NEW i \in 1 .. K, i <= m PROVE v[i] = u[i]
    BY <2>2, <2>3
  <2>4. ASSUME NEW i \in 1 .. K, ~ (i <= m) PROVE v[i] = old[i]
    <3>1. i - m \in 1 .. K - m /\ m + (i - m) = i
      BY <1>2, <2>4
    <3>2. v[i] = t[i - m]
      BY <2>2, <2>4
    <3> QED
      BY <1>3, <3>1, <3>2
  <2> QED
    BY <2>3, <2>4
<1>6. e \in Refilled(d)
  BY WriteKeeps
<1>7. e = [d EXCEPT !.data[c] = v]
  BY <1>1, <1>2, <1>3, <1>4 DEF write_to_fs
<1>8. e.root = d.root /\ e.data = [d.data EXCEPT ![c] = v]
  BY <1>7 DEF Disks
<1>9. d.data \in [Clusters -> [1 .. K -> Slots]]
  BY DEF Disks
<1>10. e.data[c] = v /\ \A x \in Clusters : x # c => e.data[x] = d.data[x]
  BY <1>8, <1>9
<1> QED
  BY <1>1, <1>2, <1>5, <1>6, <1>8, <1>10

(* The clusters of a chain given back *)
Freed(d, f, s) ==
    /\ f \in Sound /\ f.root = d.root
    /\ \A x \in Clusters : IF x \in ToSet(s) THEN f.fat[x] = 0 /\ f.data[x] = Blank
                           ELSE f.fat[x] = d.fat[x] /\ f.data[x] = d.data[x]

LEMMA OneFreed ==
    ASSUME NEW d \in Sound, NEW c \in Clusters, NEW e, e = write_to_fs(SetEntry(d, c, 0), c, Blank)
    PROVE  /\ e \in Sound /\ e.root = d.root /\ e.fat[c] = 0 /\ e.data[c] = Blank
           /\ \A x \in Clusters : x # c => e.fat[x] = d.fat[x] /\ e.data[x] = d.data[x]
<1>1. 0 \in Entry
  BY DEF Entry
<1>2. PICK f \in Sound : f = SetEntry(d, c, 0) /\ f.fat = [d.fat EXCEPT ![c] = 0] /\ f.data = d.data /\ f.root = d.root
  BY <1>1, SetEntryKeeps
<1>3. f \in Disks /\ d \in Disks
  BY DEF Sound
<1>4. PICK b \in Seq(Slots) : b = Blank /\ Len(b) = K /\ K \in Nat
  <2>1. Blank \in [1 .. K -> Slots] /\ K \in Nat
    BY BlankSlots, Sizes0
  <2>2. PICK b : b = Blank
    OBVIOUS
  <2>3. b \in Seq(Slots) /\ Len(b) = K
    BY <2>1, <2>2, Filled
  <2> QED
    BY <2>1, <2>2, <2>3
<1>5. e = write_to_fs(f, c, b) /\ Len(b) <= K
  BY <1>2, <1>4
<1>6. /\ e \in Refilled(f) /\ e.root = f.root
      /\ \A x \in Clusters : x # c => e.data[x] = f.data[x]
      /\ \A i \in 1 .. K : e.data[c][i] = IF i <= Len(b) THEN b[i] ELSE f.data[c][i]
  BY <1>3, <1>5, ClusterWritten
<1>7. e \in Sound /\ e \in Disks /\ e.fat = f.fat
  BY <1>3, <1>6, RefilledKeeps
<1>8. e.data[c] = Blank
  <2>1. e.data[c] \in [1 .. K -> Slots] /\ Blank \in [1 .. K -> Slots]
    BY <1>7, TablesOf, BlankSlots
  <2>2. \A i \in 1 .. K : e.data[c][i] = Blank[i]
    BY <1>4, <1>6
  <2>3. PICK v, z : v = e.data[c] /\ z = Blank
    OBVIOUS
  <2>4. v \in [1 .. K -> Slots] /\ z \in [1 .. K -> Slots] /\ \A i \in 1 .. K : v[i] = z[i]
    BY <2>1, <2>2, <2>3
  <2>5. v = [i \in 1 .. K |-> v[i]] /\ z = [i \in 1 .. K |-> z[i]]
    BY <2>4
  <2>6. [i \in 1 .. K |-> v[i]] = [i \in 1 .. K |-> z[i]]
    BY <2>4, Zenon
  <2>7. v = z
    BY <2>5, <2>6, Zenon
  <2> QED
    BY <2>3, <2>7
<1>9. d.fat \in [Ids -> Entry] /\ \A x \in Clusters : x \in Ids
  BY <1>3, TablesOf, ClustersAre DEF FatTables
<1>10. e.fat[c] = 0 /\ \A x \in Clusters : x # c => e.fat[x] = d.fat[x]
  BY <1>2, <1>7, <1>9
<1> QED
  BY <1>2, <1>6, <1>7, <1>8, <1>10

LEMMA ReleaseIs ==
    ASSUME NEW d \in Sound, NEW s \in Seq(Clusters)
    PROVE  Freed(d, Release(d, s), s)
<1>1. PICK m \in Nat : m = Len(s)
  BY LenProperties
<1>2. PICK g : ReleasedBy(d, s, g)
  BY Released
<1>3. /\ Release(d, s) = g[m] /\ g[0] = d
      /\ \A i \in 0 .. m : g[i] \in Sound
      /\ \A i \in 1 .. m : g[i] = write_to_fs(SetEntry(g[i - 1], s[i], 0), s[i], Blank)
  BY <1>1, <1>2 DEF ReleasedBy
<1> DEFINE In(x, n) == \E i \in 1 .. n : x = s[i]
           P(n) == /\ g[n].root = d.root
                   /\ \A x \in Clusters : IF In(x, n) THEN g[n].fat[x] = 0 /\ g[n].data[x] = Blank
                                          ELSE g[n].fat[x] = d.fat[x] /\ g[n].data[x] = d.data[x]
           S == {n \in Nat : n <= m => P(n)}
<1>4. 0 \in S
  BY <1>3
<1>5. ASSUME NEW n \in S PROVE n + 1 \in S
  <2>1. SUFFICES ASSUME n + 1 <= m PROVE P(n + 1)
    OBVIOUS
  <2>2. n + 1 \in 1 .. m /\ (n + 1) - 1 = n /\ n \in 0 .. m /\ n <= m
    BY <1>1, <2>1
  <2>3. P(n)
    BY <2>2
  <2>4. PICK c \in Clusters : c = s[n + 1]
    BY <1>1, <2>2, ElementOfSeq
  <2>5. PICK f \in Sound : f = g[n]
    BY <1>3, <2>2
  <2>6. PICK e : e = g[n + 1]
    OBVIOUS
  <2>7. e = write_to_fs(SetEntry(f, c, 0), c, Blank)
    BY <1>3, <2>2, <2>4, <2>5, <2>6
  <2>8. /\ e.root = f.root /\ e.fat[c] = 0 /\ e.data[c] = Blank
        /\ \A x \in Clusters : x # c => e.fat[x] = f.fat[x] /\ e.data[x] = f.data[x]
    BY <2>7, OneFreed
  <2>9. ASSUME NEW x \in Clusters PROVE In(x, n + 1) <=> In(x, n) \/ x = c
    <3>1. \A i \in 1 .. n + 1 : i \in 1 .. n \/ i = n + 1
      OBVIOUS
    <3>2. \A i \in 1 .. n : i \in 1 .. n + 1
      OBVIOUS
    <3>3. n + 1 \in 1 .. n + 1
      OBVIOUS
    <3> QED
      BY <2>4, <3>1, <3>2, <3>3
  <2> HIDE DEF In
  <2>10. ASSUME NEW x \in Clusters
         PROVE  IF In(x, n + 1) THEN e.fat[x] = 0 /\ e.data[x] = Blank
                ELSE e.fat[x] = d.fat[x] /\ e.data[x] = d.data[x]
    <3>1. IF In(x, n) THEN f.fat[x] = 0 /\ f.data[x] = Blank
          ELSE f.fat[x] = d.fat[x] /\ f.data[x] = d.data[x]
      BY <2>3, <2>5
    <3> QED
      BY <2>8, <2>9, <3>1
  <2> QED
    BY <2>3, <2>5, <2>6, <2>8, <2>10
<1>6. S \in SUBSET Nat
  OBVIOUS
<1> HIDE DEF S
<1>7. S = Nat
  BY <1>4, <1>5, <1>6, NatSet
<1>8. P(m)
  <2>1. m \in S /\ m <= m
    BY <1>7
  <2> QED
    BY <2>1 DEF S
<1>9. \A x : x \in ToSet(s) <=> In(x, m)
  BY <1>1, SetOf
<1>10. g[m] \in Sound
  BY <1>3
<1> HIDE DEF In
<1> QED
  BY <1>3, <1>8, <1>9, <1>10 DEF Freed

LEMMA ZeroEnds ==
    ASSUME NEW d \in Disks, NEW c, c \in Clusters => d.fat[c] = 0
    PROVE  retrieve_sectors_fs(d.fat, c) = <<>>
<1>1. SUFFICES ASSUME retrieve_sectors_fs(d.fat, c) # <<>> PROVE FALSE
  OBVIOUS
<1>2. c \in ToSet(retrieve_sectors_fs(d.fat, c))
  BY <1>1, ChainStarts
<1>3. c \in Clusters /\ d.fat[c] # 0
  BY <1>2, ChainTaken
<1> QED
  BY <1>3

(* What rmdir does to the slots of the upper directory *)
LEMMA ErasedSlot ==
    ASSUME NEW d \in Disks, NEW c, NEW l, Holds(d, c, l), NEW i \in 1 .. Len(l),
           NEW n \in Nat, n = (Skip(c) + i) - 1,
           NEW up, up.first = c, up.chain = ClustersOf(d, c), NEW e, e = EraseSlot(d, up, n)
    PROVE  /\ e \in Refilled(d) /\ Holds(e, c, RemoveAt(l, i))
           /\ c = Root => e.data = d.data
           /\ c # Root => e.root = d.root /\ \A x \in 1 .. 2 : SlotsOf(e, c)[x] = SlotsOf(d, c)[x]
           /\ \A x \in Clusters : x \notin ToSet(retrieve_sectors_fs(d.fat, c)) => e.data[x] = d.data[x]
<1>1. Lists(SlotsOf(d, c), Skip(c), l) /\ l \in Seq(Slots)
  BY DEF Holds, Lists
<1>2. PICK b, k : b = SlotsOf(d, c) /\ k = Skip(c)
  OBVIOUS
<1>0. k \in 1 .. 2 /\ k \in Nat
  BY <1>2 DEF Skip
<1>3. n + 1 = k + i
  BY <1>0, <1>1, <1>2
<1> DEFINE v == Append(RemoveAt(b, k + i), Zero)
<1>4. /\ Lists(v, k, RemoveAt(l, i)) /\ v \in Seq(Slots) /\ Len(v) = Len(b)
      /\ \A x \in 1 .. k : v[x] = b[x]
  <2>1. Lists(b, k, l) /\ k \in Nat
    BY <1>0, <1>1, <1>2
  <2> QED
    BY <2>1, SlotErased
<1>5. b = SlotsOf(d, c) /\ v = Append(RemoveAt(b, n + 1), Zero)
  BY <1>2, <1>3
<1> HIDE DEF v
<1>6. CASE c = Root
  <2>1. b = d.root /\ Len(b) = R /\ R \in Nat
    BY <1>2, <1>6, SlotsAre, Sizes0
  <2>2. e = [d EXCEPT !.root = v]
    BY <1>5, <1>6, <2>1 DEF EraseSlot
  <2>3. v \in Roots
    BY <1>4, <2>1, Filled DEF Roots
  <2>4. e \in Refilled(d)
    BY <2>2, <2>3, Refill
  <2>5. e.root = v /\ e.data = d.data
    BY <2>2 DEF Disks
  <2>6. SlotsOf(e, c) = v
    BY <1>6, <2>5 DEF SlotsOf
  <2> QED
    BY <1>2, <1>4, <1>6, <2>4, <2>5, <2>6 DEF Holds
<1>7. CASE c # Root
  <2>1. PICK s : s = retrieve_sectors_fs(d.fat, c)
    OBVIOUS
  <2>2. s \in Seq(Clusters) /\ s # <<>>
    BY <1>7, <2>1, ChainOf DEF Holds
  <2>3. \A x, y \in 1 .. Len(s) : s[x] = s[y] => x = y
    <3>1. IsChain(d.fat, c, s)
      BY <2>1, <2>2, TablesOf, ChainIs
    <3> QED
      BY <3>1, TablesOf, ChainOnce
  <2>4. b = Content(d, s) /\ Len(b) = Len(s) * K
    BY <1>2, <1>7, <2>1, <2>2, ContentIs DEF SlotsOf
  <2>5. e = EraseIn(d, s, v)
    BY <1>5, <1>7, <2>1, <2>4 DEF EraseSlot, ClustersOf
  <2>6. /\ e \in Refilled(d) /\ e.root = d.root /\ Content(e, s) = v
        /\ \A x \in Clusters \ ToSet(s) : e.data[x] = d.data[x]
    BY <1>4, <2>2, <2>3, <2>4, <2>5, ChainWritten
  <2>7. e.fat = d.fat
    BY <2>6, RefilledKeeps
  <2>8. SlotsOf(e, c) = v
    BY <1>7, <2>1, <2>6, <2>7 DEF SlotsOf
  <2>9. k = 2
    BY <1>2, <1>7 DEF Skip
  <2>10. Holds(e, c, RemoveAt(l, i))
    BY <1>2, <1>4, <2>1, <2>2, <2>7, <2>8 DEF Holds
  <2>11. \A x \in 1 .. 2 : SlotsOf(e, c)[x] = SlotsOf(d, c)[x]
    BY <1>4, <1>5, <2>8, <2>9
  <2> QED
    BY <1>7, <2>1, <2>6, <2>10, <2>11
<1> QED
  BY <1>6, <1>7

(* The clusters of an item are given back; the directories stay as they are. *)
LEMMA ItemFreed ==
    ASSUME NEW d \in Disks, NEW f \in Disks, Tidy(d), NEW t \in Items(d),
           Freed(d, f, Chain(d, t)), t \in Folders => List(d, t) = <<>>
    PROVE  /\ \A q \in Named : ItemAt(f, q) = ItemAt(d, q)
           /\ ItemAt(f, <<>>) = ItemAt(d, <<>>)
           /\ \A q \in Directories(d) \ {t} : Holds(f, ItemAt(d, q).first, List(d, q))
<1>1. t \in Named /\ ItemAt(d, t) # NoItem /\ Chain(d, t) # <<>>
  BY ItemStep DEF Items, Tidy
<1>2. /\ f.root = d.root
      /\ \A x \in Clusters : IF x \in ToSet(Chain(d, t)) THEN f.fat[x] = 0 /\ f.data[x] = Blank
                             ELSE f.fat[x] = d.fat[x] /\ f.data[x] = d.data[x]
  BY DEF Freed
<1>3. ASSUME NEW q \in Directories(d) \ {t}
      PROVE  Holds(f, ItemAt(d, q).first, List(d, q))
  <2>1. Holds(d, ItemAt(d, q).first, List(d, q))
    BY DEF Tidy
  <2>2. CASE q = <<>>
    <3>1. ItemAt(d, q).first = Root
      BY <2>2, DirFirst
    <3> QED
      BY <1>2, <2>1, <3>1, HoldsSame
  <2>3. CASE q # <<>>
    <3>1. q \in Items(d) /\ q # t
      BY <2>3, DirFirst
    <3>2. ToSet(Chain(d, q)) \cap ToSet(Chain(d, t)) = {}
      BY <3>1 DEF Tidy
    <3>3. ASSUME NEW x \in ToSet(retrieve_sectors_fs(d.fat, ItemAt(d, q).first))
          PROVE  f.fat[x] = d.fat[x] /\ f.data[x] = d.data[x]
      <4>1. x \in Clusters /\ x \notin ToSet(Chain(d, t))
        BY <3>2, ChainTaken DEF Chain
      <4> QED
        BY <1>2, <4>1
    <3>4. ItemAt(d, q).first # Root
      BY <2>3, DirFirst
    <3> QED
      BY <2>1, <3>3, <3>4, HoldsSame
  <2> QED
    BY <2>2, <2>3
<1>4. \A q \in Directories(d) \ {t} :
         retrieve_folders_from_folder(f, ItemAt(d, q).first) = List(d, q)
  BY <1>3, HoldsIs
<1>5. Front(t) \in Directories(d) \ {t}
  <2>1. Front(t) \in Directories(d)
    BY <1>1, ItemStep
  <2>2. Front(t) # t
    BY <1>1, PathParts
  <2> QED
    BY <2>1, <2>2
<1>6. ItemAt(d, t) = NextItem(f, ItemAt(d, Front(t)), Last(t))
  <2>1. ItemAt(d, t) = Found(List(d, Front(t)), Last(t))
    BY <1>1, <1>5, ItemStep
  <2>2. ItemAt(d, Front(t)) # NoItem
    BY <1>5, DirectoryIs
  <2> QED
    BY <1>4, <1>5, <2>1, <2>2 DEF NextItem
<1>7. ASSUME NEW q \in Named, Front(q) = t
      PROVE  ItemAt(d, q) = NoItem /\ NextItem(f, ItemAt(d, t), Last(q)) = NoItem
  <2>1. t \in Folders /\ t \in Directories(d)
    BY <1>1, <1>7, PathParts, DirectoryIs DEF Named
  <2>2. List(d, t) = <<>> /\ <<>> \in Seq(Slots) /\ Len(<<>>) = 0
    BY <2>1
  <2>3. \A name : Found(<<>>, name) = NoItem
    <3>1. PICK z \in Seq(Slots) : z = <<>> /\ Len(z) = 0
      BY <2>2
    <3>2. ~ \E i \in 1 .. Len(z) : TRUE
      BY <3>1
    <3>3. \A name : Found(z, name) = NoItem
      BY <3>2, IndexFound
    <3> QED
      BY <3>1, <3>3
  <2>4. ItemAt(d, q) = NoItem
    BY <1>7, <2>1, <2>2, <2>3, ItemStep
  <2>5. PICK c : c = ItemAt(d, t).first
    OBVIOUS
  <2>6. c # Root /\ c \in Clusters /\ c \in ToSet(Chain(d, t))
    BY <1>1, <2>5, ChainStarts DEF Chain
  <2>7. f.fat[c] = 0
    BY <1>2, <2>6
  <2>8. retrieve_sectors_fs(f.fat, c) = <<>>
    BY <2>7, ZeroEnds
  <2>9. retrieve_folders_from_folder(f, c) = ItemsIn(f, <<>>)
    BY <2>6, <2>8 DEF retrieve_folders_from_folder
  <2>10. ItemsIn(f, <<>>) = <<>>
    <3>0. <<>> \in Seq(Clusters)
      OBVIOUS
    <3>1. PICK g : GatheredBy(f, <<>>, g)
      BY <3>0, Gathered
    <3> QED
      BY <3>1, <2>2 DEF GatheredBy
  <2> QED
    BY <2>3, <2>4, <2>5, <2>9, <2>10 DEF NextItem
<1>8. \A q \in Directories(d) \ {t} : \A x :
         Found(retrieve_folders_from_folder(f, ItemAt(d, q).first), x) = Found(List(d, q), x)
  BY <1>4
<1>9. /\ \A q \in Named \ {t} : ItemAt(f, q) = ItemAt(d, q)
      /\ ItemAt(f, t) = ItemAt(d, t)
      /\ ItemAt(f, <<>>) = ItemAt(d, <<>>)
  BY <1>1, <1>6, <1>7, <1>8, OnlyOne
<1> QED
  BY <1>3, <1>9

(* rmdir of a file or an empty directory *)
LEMMA ItemErased ==
    ASSUME NEW d \in Saved, Tidy(d), NEW t \in Items(d), rmdir(d, t).error = "Success",
           NEW e, e = rmdir(d, t).disk, NEW l, l = List(d, Front(t)), NEW j, j = IndexOf(l, Last(t))
    PROVE  /\ Moves(d, e, t, RemoveAt(l, j), NoItem)
           /\ \A x \in Clusters : e.fat[x] = IF x \in ToSet(Chain(d, t)) THEN 0 ELSE d.fat[x]
<1>1. d \in Sound /\ d \in Disks
  BY DEF Saved, Sound
<1>2. t \in Named /\ ItemAt(d, t) # NoItem /\ Chain(d, t) # <<>> /\ Chain(d, t) \in Seq(Clusters)
  BY <1>1, ItemStep, ChainOf DEF Items, Tidy, Chain
<1>3. PICK f : f = save_fat(Release(d, Chain(d, t)))
  OBVIOUS
<1>4. f \in Disks /\ Freed(d, f, Chain(d, t))
  <2>1. PICK r : r = Release(d, Chain(d, t))
    OBVIOUS
  <2>2. Freed(d, r, Chain(d, t)) /\ r \in Sound
    BY <1>1, <1>2, <2>1, ReleaseIs DEF Freed
  <2>3. f \in Sound /\ f.fat = r.fat /\ f.data = r.data /\ f.root = r.root
    BY <1>3, <2>1, <2>2, SaveKeeps
  <2> QED
    BY <2>2, <2>3 DEF Freed, Sound
<1>5. retrieve_folders_from_folder(d, ItemAt(d, t).first) = <<>> /\ e = RemoveFreed(f, t)
  BY <1>2, <1>3 DEF rmdir, RemoveItem, ItemAt, Chain
<1>6. t \in Folders => List(d, t) = <<>>
  BY <1>5 DEF List
<1>7. /\ \A q \in Named : ItemAt(f, q) = ItemAt(d, q)
      /\ ItemAt(f, <<>>) = ItemAt(d, <<>>)
      /\ \A q \in Directories(d) \ {t} : Holds(f, ItemAt(d, q).first, List(d, q))
  BY <1>1, <1>4, <1>6, ItemFreed
<1>8. /\ f.root = d.root
      /\ \A x \in Clusters : IF x \in ToSet(Chain(d, t)) THEN f.fat[x] = 0 /\ f.data[x] = Blank
                             ELSE f.fat[x] = d.fat[x] /\ f.data[x] = d.data[x]
  BY <1>4 DEF Freed
<1>9. PICK u, c : u = Front(t) /\ c = ItemAt(d, u).first
  OBVIOUS
<1>10. u \in Directories(d) /\ u # t /\ l = List(d, u)
  BY <1>1, <1>2, <1>9, ItemStep, PathParts
<1>11. /\ l \in Seq(Slots) /\ Unique(l) /\ j \in 1 .. Len(l)
       /\ l[j] = ItemAt(d, t) /\ NameOf(l[j]) = Last(t)
  BY <1>1, <1>9, <1>10, EntryOf
<1>12. Holds(f, c, l)
  BY <1>7, <1>9, <1>10
<1>13. /\ \A q \in Items(d) \ {t, u} : \A x \in ToSet(Chain(d, q)) :
             x \notin ToSet(retrieve_sectors_fs(d.fat, c)) /\ x \notin ToSet(Chain(d, t))
       /\ ToSet(retrieve_sectors_fs(d.fat, c)) \cap ToSet(Chain(d, t)) = {}
       /\ (u = <<>> <=> c = Root)
       /\ u # <<>> => Chain(d, u) = retrieve_sectors_fs(d.fat, c) /\ Chain(d, u) # <<>>
                      /\ HeadOf(d, c, UpFirst(d, u))
  BY <1>1, <1>2, <1>9, <1>10, Around
<1>14. retrieve_sectors_fs(f.fat, c) = retrieve_sectors_fs(d.fat, c)
  <2>1. CASE u = <<>>
    <3>1. c \notin Clusters
      BY <1>13, <2>1, ClustersAre
    <3> QED
      BY <1>1, <1>4, <3>1, NoChain
  <2>2. CASE u # <<>>
    <3>1. ASSUME NEW x \in ToSet(retrieve_sectors_fs(d.fat, c)) PROVE f.fat[x] = d.fat[x]
      <4>1. x \in Clusters /\ x \notin ToSet(Chain(d, t))
        BY <1>1, <1>13, ChainTaken
      <4> QED
        BY <1>8, <4>1
    <3>2. retrieve_sectors_fs(d.fat, c) # <<>>
      BY <1>13, <2>2
    <3> QED
      BY <1>1, <1>4, <3>1, <3>2, ChainSet
  <2> QED
    BY <2>1, <2>2
<1>15. PICK up : up = Upper(f, t)
  OBVIOUS
<1>16. Upper(f, t) = Upper(d, t)
  <2>1. CASE Len(t) = 1
    BY <2>1 DEF Upper
  <2>2. CASE Len(t) # 1
    <3>1. u # <<>> /\ u \in Named
      BY <1>2, <1>9, <2>2, PathParts
    <3>2. ItemAt(f, u) = ItemAt(d, u)
      BY <1>7, <3>1
    <3> QED
      BY <1>9, <1>14, <2>2, <3>2 DEF Upper, UpperAt, ItemAt
  <2> QED
    BY <2>1, <2>2
<1>17. up.first = c /\ up.skip = Skip(c) /\ up.chain = ClustersOf(d, c)
  BY <1>1, <1>2, <1>9, <1>10, <1>15, <1>16, UpperAre
<1>18. up.chain = ClustersOf(f, c)
  BY <1>14, <1>17 DEF ClustersOf
<1>19. PICK n \in Nat : n = (Skip(c) + j) - 1
  BY <1>11 DEF Skip
<1>20. e = EraseSlot(f, up, n)
  <2>1. retrieve_folders_from_folder(f, c) = l
    BY <1>4, <1>12, HoldsIs
  <2>2. EntryIndex(f, up, t) = (j - 1) + Skip(c)
    BY <1>17, <2>1 DEF EntryIndex
  <2>3. (j - 1) + Skip(c) = n
    BY <1>11, <1>19 DEF Skip
  <2> QED
    BY <1>5, <1>15, <2>2, <2>3 DEF RemoveFreed, EraseEntry
<1>21. /\ e \in Refilled(f) /\ Holds(e, c, RemoveAt(l, j))
       /\ c = Root => e.data = f.data
       /\ c # Root => e.root = f.root /\ \A x \in 1 .. 2 : SlotsOf(e, c)[x] = SlotsOf(f, c)[x]
       /\ \A x \in Clusters : x \notin ToSet(retrieve_sectors_fs(f.fat, c)) => e.data[x] = f.data[x]
  <2>1. f \in Disks /\ j \in 1 .. Len(l) /\ up.first = c
    BY <1>4, <1>11, <1>17
  <2> QED
    BY <2>1, <1>12, <1>18, <1>19, <1>20, ErasedSlot
<1>22. e \in Disks /\ e.fat = f.fat
  BY <1>21, RefilledKeeps
<1>23. PICK own : own = ToSet(retrieve_sectors_fs(d.fat, c)) /\ own = ToSet(retrieve_sectors_fs(e.fat, c))
                  /\ own = ToSet(retrieve_sectors_fs(f.fat, c))
  BY <1>14, <1>22
<1>24. Clustered(e, NoItem) = <<>> /\ ToSet(Clustered(e, NoItem)) = {}
  <2>1. NoItem.first \notin Clusters
    BY RootIsItem, ClustersAre
  <2> QED
    BY <1>22, <2>1, NoChain DEF Clustered
<1>25. ASSUME NEW q \in Items(d) \ {t, u}, NEW x \in ToSet(Chain(d, q))
       PROVE  e.fat[x] = d.fat[x] /\ e.data[x] = d.data[x] /\ x \notin own
  <2>1. x \in Clusters
    BY <1>1, ChainTaken DEF Chain
  <2>2. x \notin own /\ x \notin ToSet(Chain(d, t))
    BY <1>13, <1>23
  <2> QED
    BY <1>8, <1>21, <1>22, <1>23, <2>1, <2>2
<1>26. Changed(l, RemoveAt(l, j), Last(t), NoItem)
  BY <1>11, Removed
<1>27. u # <<>> => e.root = d.root /\ ToSet(Chain(d, u)) \subseteq own /\ HeadOf(e, c, UpFirst(d, u))
  <2>1. SUFFICES ASSUME u # <<>>
                 PROVE  e.root = d.root /\ ToSet(Chain(d, u)) \subseteq own /\ HeadOf(e, c, UpFirst(d, u))
    OBVIOUS
  <2>2. c # Root /\ HeadOf(d, c, UpFirst(d, u)) /\ Chain(d, u) = retrieve_sectors_fs(d.fat, c)
        /\ retrieve_sectors_fs(d.fat, c) # <<>>
    BY <1>13, <2>1
  <2>3. e.root = d.root
    BY <1>8, <1>21, <2>2
  <2>4. e.data[c][1] = f.data[c][1] /\ e.data[c][2] = f.data[c][2]
    <3>1. SlotsOf(e, c)[1] = SlotsOf(f, c)[1] /\ SlotsOf(e, c)[2] = SlotsOf(f, c)[2]
      BY <1>21, <2>2
    <3>2. SlotsOf(e, c)[1] = e.data[c][1] /\ SlotsOf(e, c)[2] = e.data[c][2]
      BY <1>14, <1>22, <2>2, HeadSlots
    <3>3. SlotsOf(f, c)[1] = f.data[c][1] /\ SlotsOf(f, c)[2] = f.data[c][2]
      BY <1>4, <1>14, <2>2, HeadSlots
    <3> QED
      BY <3>1, <3>2, <3>3
  <2>5. f.data[c] = d.data[c]
    <3>1. c \in own /\ c \in Clusters
      BY <1>1, <1>23, <2>2, ChainStarts
    <3>2. c \notin ToSet(Chain(d, t))
      BY <1>13, <1>23, <3>1
    <3> QED
      BY <1>8, <3>1, <3>2
  <2>6. e.data[c][1] = d.data[c][1] /\ e.data[c][2] = d.data[c][2]
    BY <2>4, <2>5
  <2>7. HeadOf(e, c, UpFirst(d, u))
    BY <2>2, <2>6 DEF HeadOf
  <2> QED
    BY <1>23, <2>2, <2>3, <2>7
<1>28. ASSUME NEW x \in Clusters \ Taken(e) PROVE e.data[x] = Blank
  <2>1. e.fat[x] = 0 /\ x \notin own
    BY <1>22, <1>23, ChainTaken DEF Taken
  <2>2. e.data[x] = f.data[x] /\ f.fat[x] = 0
    BY <1>21, <1>22, <1>23, <2>1
  <2>3. CASE x \in ToSet(Chain(d, t))
    BY <1>8, <2>2, <2>3
  <2>4. CASE x \notin ToSet(Chain(d, t))
    <3>1. d.fat[x] = 0 /\ f.data[x] = d.data[x]
      BY <1>8, <2>2, <2>4
    <3>2. x \in Clusters \ Taken(d)
      BY <3>1 DEF Taken
    <3> QED
      BY <2>2, <3>1, <3>2 DEF Tidy
  <2> QED
    BY <2>3, <2>4
<1>29. Moves(d, e, t, RemoveAt(l, j), NoItem)
  BY <1>6, <1>9, <1>10, <1>21, <1>23, <1>24, <1>25, <1>26, <1>27, <1>28 DEF Moves
<1>30. \A x \in Clusters : e.fat[x] = IF x \in ToSet(Chain(d, t)) THEN 0 ELSE d.fat[x]
  BY <1>8, <1>22
<1> QED
  BY <1>29, <1>30

-----------------------------------------------------------------------------
(* What a call leaves behind                                               *)

(* What a call that names t leaves behind *)
Others(d, e, t) == Tidy(e) /\ \A q \in Named \ {t} : View(e, q) = View(d, q)

LEMMA ViewItem ==
    ASSUME NEW d \in Disks, NEW e \in Disks, NEW q \in Named, View(e, q) = View(d, q)
    PROVE  /\ ItemAt(e, q) = ItemAt(d, q) /\ (q \in Items(e) <=> q \in Items(d))
           /\ q \in Items(d) \ Folders =>
                 /\ Chain(e, q) = Chain(d, q)
                 /\ \A i \in 1 .. Len(Chain(d, q)) : e.data[Chain(d, q)[i]] = d.data[Chain(d, q)[i]]
<1>1. (q \in Items(e) <=> ItemAt(e, q) # NoItem) /\ (q \in Items(d) <=> ItemAt(d, q) # NoItem)
  BY ItemStep
<1> DEFINE V(b) == <<ItemAt(b, q), Chain(b, q), [i \in DOMAIN Chain(b, q) |-> b.data[Chain(b, q)[i]]]>>
<1>2. /\ View(d, q) = IF ItemAt(d, q) = NoItem THEN <<>> ELSE IF q \in Folders THEN <<ItemAt(d, q)>> ELSE V(d)
      /\ View(e, q) = IF ItemAt(e, q) = NoItem THEN <<>> ELSE IF q \in Folders THEN <<ItemAt(e, q)>> ELSE V(e)
  BY DEF View, Chain
<1>3. CASE ItemAt(d, q) = NoItem
  <2>1. View(e, q) = <<>>
    BY <1>2, <1>3
  <2>2. ItemAt(e, q) = NoItem
    <3>1. <<>> # <<ItemAt(e, q)>> /\ <<>> # V(e)
      OBVIOUS
    <3> QED
      BY <1>2, <2>1, <3>1
  <2> QED
    BY <1>1, <1>3, <2>2
<1>4. CASE ItemAt(d, q) # NoItem /\ q \in Folders
  <2>1. View(e, q) = <<ItemAt(d, q)>>
    BY <1>2, <1>4
  <2>2. ItemAt(e, q) # NoItem
    BY <1>2, <2>1
  <2>3. <<ItemAt(e, q)>> = <<ItemAt(d, q)>>
    BY <1>2, <1>4, <2>1, <2>2
  <2> QED
    BY <1>1, <1>4, <2>2, <2>3
<1>5. CASE ItemAt(d, q) # NoItem /\ q \notin Folders
  <2>1. View(e, q) = V(d)
    BY <1>2, <1>5
  <2>2. ItemAt(e, q) # NoItem
    BY <1>2, <2>1
  <2>3. V(e) = V(d)
    BY <1>2, <1>5, <2>1, <2>2
  <2>4. /\ ItemAt(e, q) = ItemAt(d, q) /\ Chain(e, q) = Chain(d, q)
        /\ [i \in DOMAIN Chain(e, q) |-> e.data[Chain(e, q)[i]]]
              = [i \in DOMAIN Chain(d, q) |-> d.data[Chain(d, q)[i]]]
    BY <2>3
  <2>5. Chain(d, q) \in Seq(Clusters) /\ DOMAIN Chain(d, q) = 1 .. Len(Chain(d, q))
    BY ChainOf DEF Chain
  <2>6. \A i \in DOMAIN Chain(d, q) : e.data[Chain(d, q)[i]] = d.data[Chain(d, q)[i]]
    BY <2>4
  <2> QED
    BY <1>1, <1>5, <2>2, <2>4, <2>5, <2>6
<1> QED
  BY <1>3, <1>4, <1>5

(* The tree of two disks with the same table and the same contents *)
LEMMA SameTree ==
    ASSUME NEW d \in Disks, NEW e \in Disks, Tidy(d),
           e.fat = d.fat, e.data = d.data, e.root = d.root, NEW t
    PROVE  /\ Others(d, e, t) /\ Lost(e) = Lost(d) /\ Items(e) = Items(d)
           /\ \A q \in Named : ItemAt(e, q) = ItemAt(d, q)
<1>1. ASSUME NEW q \in Directories(d)
      PROVE  /\ Holds(e, ItemAt(d, q).first, List(d, q))
             /\ retrieve_folders_from_folder(e, ItemAt(d, q).first) = List(d, q)
  <2>1. Holds(d, ItemAt(d, q).first, List(d, q))
    BY DEF Tidy
  <2>2. Holds(e, ItemAt(d, q).first, List(d, q))
    BY <2>1, HoldsSame
  <2> QED
    BY <2>2, HoldsIs
<1>2. ASSUME NEW q \in Named
      PROVE  NextItem(e, ItemAt(d, Front(q)), Last(q)) = ItemAt(d, q)
  <2>1. ItemAt(d, q) = NextItem(d, ItemAt(d, Front(q)), Last(q))
    BY ItemNext DEF ItemAt
  <2>2. CASE ItemAt(d, Front(q)) = NoItem
    BY <2>1, <2>2 DEF NextItem
  <2>3. CASE ItemAt(d, Front(q)) # NoItem
    <3>1. Front(q) \in Directories(d)
      BY <2>3, PathParts, DirectoryIs
    <3> QED
      BY <1>1, <2>1, <2>3, <3>1 DEF NextItem, List
  <2> QED
    BY <2>2, <2>3
<1>3. ASSUME NEW q \in Named PROVE ItemAt(e, q) = ItemAt(d, q)
  <2>1. ItemAt(d, q) = NextItem(e, ItemAt(d, Front(q)), Last(q))
    BY <1>2
  <2>2. \A u \in Directories(d) \ {q} : \A x : (u # Front(q) \/ x # Last(q)) =>
           Found(retrieve_folders_from_folder(e, ItemAt(d, u).first), x) = Found(List(d, u), x)
    BY <1>1
  <2>3. \A p \in Named : Front(p) = q => NextItem(e, ItemAt(d, q), Last(p)) = ItemAt(d, p)
    BY <1>2
  <2> QED
    BY <2>1, <2>2, <2>3, OnlyOne
<1>4. Items(e) = Items(d)
  <2>1. \A q \in Named : q \in Items(e) <=> q \in Items(d)
    BY <1>3, ItemStep
  <2> QED
    BY <2>1 DEF Items
<1>5. ItemAt(e, <<>>) = ItemAt(d, <<>>)
  <2>1. PICK z : z = <<>> /\ Len(z) = 0 /\ Len(z) \in Nat
    OBVIOUS
  <2> QED
    BY <2>1, ItemIs DEF ItemAt
<1>6. Directories(e) = Directories(d)
  BY <1>4 DEF Directories
<1>7. \A q \in Named : Chain(e, q) = Chain(d, q)
  BY <1>3 DEF Chain
<1>8. ASSUME NEW q \in Directories(d)
      PROVE  List(e, q) = List(d, q) /\ ItemAt(e, q) = ItemAt(d, q)
  <2>1. q = <<>> \/ q \in Named
    BY DirectoryIs
  <2> QED
    BY <1>1, <1>3, <1>5, <2>1 DEF List
<1>9. Items(d) \subseteq Named /\ Taken(e) = Taken(d)
  BY DEF Items, Taken
<1>10. ASSUME NEW p \in Items(d) \cap Folders
       PROVE  HeadOf(e, ItemAt(e, p).first, UpFirst(e, p))
  <2>1. p \in Named /\ (Front(p) = <<>> \/ Front(p) \in Named)
    BY <1>9, PathParts
  <2>2. ItemAt(e, p) = ItemAt(d, p) /\ ItemAt(e, Front(p)) = ItemAt(d, Front(p))
    BY <1>3, <1>5, <2>1
  <2>3. HeadOf(d, ItemAt(d, p).first, UpFirst(d, p))
    BY DEF Tidy
  <2> QED
    BY <2>2, <2>3 DEF HeadOf, UpFirst
<1>11. Tidy(e)
  <2>1. \A p \in Items(e) : Kind(p, ItemAt(e, p)) /\ Chain(e, p) # <<>>
    BY <1>3, <1>4, <1>7, <1>9 DEF Tidy
  <2>2. \A p, q \in Items(e) : p # q => ToSet(Chain(e, p)) \cap ToSet(Chain(e, q)) = {}
    BY <1>4, <1>7, <1>9 DEF Tidy
  <2>3. \A p \in Directories(e) : Holds(e, ItemAt(e, p).first, List(e, p)) /\ Unique(List(e, p))
    BY <1>1, <1>6, <1>8 DEF Tidy
  <2>4. \A c \in Clusters \ Taken(e) : e.data[c] = Blank
    BY <1>9 DEF Tidy
  <2> QED
    BY <1>4, <1>10, <2>1, <2>2, <2>3, <2>4 DEF Tidy
<1>12. \A q \in Named : View(e, q) = View(d, q)
  BY <1>3 DEF View
<1>13. Lost(e) = Lost(d)
  <2>1. \A q \in Items(d) : Chain(e, q) = Chain(d, q)
    BY <1>7, <1>9
  <2>2. {ToSet(Chain(e, q)) : q \in Items(e)} = {ToSet(Chain(d, q)) : q \in Items(d)}
    BY <1>4, <2>1
  <2> QED
    BY <1>9, <2>2 DEF Lost
<1> QED
  BY <1>3, <1>4, <1>11, <1>12, <1>13 DEF Others

(* No item comes to begin at RootSector but the one that the call names. *)
LEMMA OthersShy ==
    ASSUME NEW d \in Disks, NEW e \in Disks, NEW t, Others(d, e, t), Shy(d),
           t \in Items(e) => ItemAt(e, t).first # RootSector
    PROVE  Shy(e)
<1>1. ASSUME NEW p \in Items(e), p # t PROVE ItemAt(e, p).first # RootSector
  <2>1. p \in Named
    BY DEF Items
  <2>2. View(e, p) = View(d, p)
    BY <1>1, <2>1 DEF Others
  <2>3. ItemAt(e, p) = ItemAt(d, p) /\ p \in Items(d)
    BY <2>1, <2>2, ViewItem
  <2> QED
    BY <2>3 DEF Shy
<1> QED
  BY <1>1 DEF Shy

(* A move of the tree, summed up *)
LEMMA MoveDone ==
    ASSUME NEW d \in Disks, NEW e \in Disks, Tidy(d), NEW t \in Named, NEW v, NEW item,
           Moves(d, e, t, v, item)
    PROVE  /\ Others(d, e, t) /\ ItemAt(e, t) = item /\ List(e, Front(t)) = v
           /\ (t \in Items(e) <=> item # NoItem)
           /\ Front(t) \in Directories(e) /\ ItemAt(e, Front(t)) = ItemAt(d, Front(t))
<1>1. /\ \A q \in Named \ {t} : ItemAt(e, q) = ItemAt(d, q)
      /\ ItemAt(e, t) = item /\ ItemAt(e, <<>>) = ItemAt(d, <<>>)
      /\ (t \in Items(e) <=> item # NoItem)
      /\ Directories(e) \ {t} = Directories(d) \ {t}
  BY MoveItems
<1>2. /\ Tidy(e) /\ List(e, Front(t)) = v
      /\ \A q \in Named \ {t} : View(e, q) = View(d, q)
  BY MoveTidy
<1>3. Front(t) # t /\ (Front(t) = <<>> \/ Front(t) \in Named)
  BY PathParts
<1>4. Front(t) \in Directories(d)
  BY DEF Moves
<1>5. Front(t) \in Directories(e) /\ ItemAt(e, Front(t)) = ItemAt(d, Front(t))
  BY <1>1, <1>3, <1>4
<1> QED
  BY <1>1, <1>2, <1>5 DEF Others

(* Clusters that no chain of the items meets get lost or found alone. *)
LEMMA LostSame ==
    ASSUME NEW d \in Disks, NEW e \in Disks, Tidy(d),
           \A q \in Named : ItemAt(e, q) = ItemAt(d, q),
           \A q \in Items(d) : \A x \in ToSet(Chain(d, q)) : e.fat[x] = d.fat[x]
    PROVE  /\ \A q \in Items(d) : Chain(e, q) = Chain(d, q)
           /\ Items(e) = Items(d)
           /\ \A x \in Lost(e) : x \in Taken(d) => x \in Lost(d)
<1>1. ASSUME NEW q \in Items(d) PROVE Chain(e, q) = Chain(d, q)
  <2>1. q \in Named /\ ItemAt(e, q) = ItemAt(d, q)
    BY DEF Items
  <2>2. Chain(d, q) # <<>>
    BY DEF Tidy
  <2> QED
    BY <2>1, <2>2, ChainSet DEF Chain
<1>2. ASSUME NEW q \in Named PROVE q \in Items(e) <=> q \in Items(d)
  BY ItemStep
<1>3. Items(e) = Items(d)
  BY <1>2 DEF Items
<1>4. UNION {ToSet(Chain(e, q)) : q \in Items(e)} = UNION {ToSet(Chain(d, q)) : q \in Items(d)}
  BY <1>1, <1>3
<1> QED
  BY <1>1, <1>3, <1>4 DEF Lost

(* create_folder and create_file have taken a cluster. *)
Taking(d, e, t, new) ==
    /\ e \in Sound /\ Others(d, e, t) /\ t \notin Items(e) /\ Front(t) \in Directories(e)
    /\ ItemAt(e, Front(t)) = ItemAt(d, Front(t)) /\ List(e, Front(t)) = List(d, Front(t))
    /\ e.fat = [d.fat EXCEPT ![new] = EndMark] /\ e.data = d.data /\ e.root = d.root
    /\ e.fat[new] \in 4088 .. 4095 /\ e.data[new] = Blank
    /\ \A q \in Items(e) : new \notin ToSet(Chain(e, q))
    /\ Lost(e) \subseteq Lost(d) \cup {new}
    /\ LET c == ItemAt(d, Front(t)).first IN
       /\ retrieve_sectors_fs(e.fat, c) = retrieve_sectors_fs(d.fat, c)
       /\ SlotsOf(e, c) = SlotsOf(d, c)

LEMMA ClusterTaken ==
    ASSUME NEW d \in Sound, Tidy(d), NEW t \in Named, t \notin Items(d), Front(t) \in Directories(d),
           NEW new \in Clusters, d.fat[new] = 0,
           NEW e, e = save_fat(SetEntry(d, new, EndMark))
    PROVE  Taking(d, e, t, new)
<1>1. d \in Disks /\ d.fat \in [Ids -> Entry] /\ EndMark \in Entry /\ EndMark \in 4088 .. 4095
      /\ \A x \in Clusters : x \in Ids
  BY TablesOf, Sizes0, ClustersAre DEF Sound, FatTables
<1>2. e \in Sound /\ e \in Disks /\ e.fat = [d.fat EXCEPT ![new] = EndMark] /\ e.data = d.data /\ e.root = d.root
  <2>1. PICK f : f = SetEntry(d, new, EndMark)
    OBVIOUS
  <2>2. f \in Sound /\ f.fat = [d.fat EXCEPT ![new] = EndMark] /\ f.data = d.data /\ f.root = d.root
    BY <1>1, <2>1, SetEntryKeeps
  <2>3. e \in Sound /\ e.fat = f.fat /\ e.data = f.data /\ e.root = f.root
    BY <2>1, <2>2, SaveKeeps
  <2> QED
    BY <2>2, <2>3 DEF Sound
<1>3. \A x \in Clusters : e.fat[x] = IF x = new THEN EndMark ELSE d.fat[x]
  BY <1>1, <1>2
<1>4. ASSUME NEW q \in Items(d), NEW x \in ToSet(Chain(d, q))
      PROVE  x # new /\ e.fat[x] = d.fat[x] /\ e.data[x] = d.data[x]
  <2>1. x \in Clusters /\ d.fat[x] # 0
    BY <1>1, ChainTaken DEF Chain
  <2> QED
    BY <1>2, <1>3, <2>1
<1>5. ASSUME NEW x \in Clusters \ Taken(e) PROVE e.data[x] = Blank
  <2>1. e.fat[x] = 0 /\ EndMark # 0
    BY DEF Taken, EndMark
  <2>2. d.fat[x] = 0
    BY <1>3, <2>1
  <2>3. x \in Clusters \ Taken(d)
    BY <2>2 DEF Taken
  <2> QED
    BY <1>2, <2>3 DEF Tidy
<1>6. PICK c : c = ItemAt(d, Front(t)).first
  OBVIOUS
<1>7. /\ Moves(d, e, t, List(d, Front(t)), NoItem)
      /\ retrieve_sectors_fs(e.fat, c) = retrieve_sectors_fs(d.fat, c)
  <2>1. \A q \in Items(d) : \A x \in ToSet(Chain(d, q)) : e.fat[x] = d.fat[x] /\ e.data[x] = d.data[x]
    BY <1>4
  <2>2. \A x \in Clusters \ Taken(e) : e.data[x] = Blank
    BY <1>5
  <2>3. d \in Disks /\ e \in Disks /\ e.root = d.root
    BY <1>1, <1>2
  <2> QED
    BY <1>6, <2>1, <2>2, <2>3, Spare
<1>8. /\ Others(d, e, t) /\ ItemAt(e, t) = NoItem /\ List(e, Front(t)) = List(d, Front(t))
      /\ t \notin Items(e)
      /\ Front(t) \in Directories(e) /\ ItemAt(e, Front(t)) = ItemAt(d, Front(t))
  BY <1>1, <1>2, <1>7, MoveDone
<1>9. \A q \in Named : ItemAt(e, q) = ItemAt(d, q)
  <2>1. ItemAt(d, t) = NoItem
    BY <1>1, ItemStep
  <2>2. \A q \in Named \ {t} : ItemAt(e, q) = ItemAt(d, q)
    BY <1>1, <1>2, <1>7, MoveItems
  <2> QED
    BY <1>8, <2>1, <2>2
<1>10. /\ \A q \in Items(d) : Chain(e, q) = Chain(d, q)
       /\ Items(e) = Items(d)
       /\ \A x \in Lost(e) : x \in Taken(d) => x \in Lost(d)
  <2>1. \A q \in Items(d) : \A x \in ToSet(Chain(d, q)) : e.fat[x] = d.fat[x]
    BY <1>4
  <2>2. d \in Disks /\ e \in Disks
    BY <1>1, <1>2
  <2> QED
    BY <1>9, <2>1, <2>2, LostSame
<1>11. Lost(e) \subseteq Lost(d) \cup {new}
  <2>1. ASSUME NEW x \in Lost(e), x # new PROVE x \in Taken(d)
    <3>1. x \in Clusters /\ e.fat[x] # 0
      BY DEF Lost, Taken
    <3> QED
      BY <1>3, <2>1, <3>1 DEF Taken
  <2> QED
    BY <1>10, <2>1
<1>12. e.data[new] = Blank
  <2>1. new \in Clusters \ Taken(d)
    BY DEF Taken
  <2> QED
    BY <1>2, <2>1 DEF Tidy
<1>13. SlotsOf(e, c) = SlotsOf(d, c)
  BY <1>2, <1>7 DEF SlotsOf, Content
<1>14. \A q \in Items(e) : new \notin ToSet(Chain(e, q))
  BY <1>4, <1>10
<1>15. e.fat[new] \in 4088 .. 4095
  BY <1>1, <1>3
<1> QED
  BY <1>2, <1>6, <1>7, <1>8, <1>11, <1>12, <1>13, <1>14, <1>15 DEF Taking

(* ... and give it back. *)
LEMMA ClusterBack ==
    ASSUME NEW d \in Sound, Tidy(d), NEW t \in Named, t \notin Items(d), Front(t) \in Directories(d),
           NEW new \in Clusters, d.fat[new] = 0, NEW f, Taking(d, f, t, new),
           NEW e, e = Undo(f, new)
    PROVE  Others(d, e, t) /\ t \notin Items(e) /\ Lost(e) \subseteq Lost(d)
<1>0. 0 \in Entry
  BY DEF Entry
<1>1. d \in Disks /\ d.fat \in [Ids -> Entry] /\ 0 \in Entry /\ \A x \in Clusters : x \in Ids
  BY <1>0, TablesOf, ClustersAre DEF Sound, FatTables
<1>2. f \in Sound /\ f.fat = [d.fat EXCEPT ![new] = EndMark] /\ f.data = d.data /\ f.root = d.root
  BY DEF Taking
<1>3. e \in Disks /\ e.fat = [f.fat EXCEPT ![new] = 0] /\ e.data = d.data /\ e.root = d.root
  <2>1. PICK g : g = SetEntry(f, new, 0)
    OBVIOUS
  <2>2. g \in Sound /\ g.fat = [f.fat EXCEPT ![new] = 0] /\ g.data = f.data /\ g.root = f.root
    BY <1>1, <1>2, <2>1, SetEntryKeeps
  <2>3. e = save_fat(g)
    BY <2>1 DEF Undo
  <2>4. e \in Sound /\ e.fat = g.fat /\ e.data = g.data /\ e.root = g.root
    BY <2>2, <2>3, SaveKeeps
  <2> QED
    BY <1>2, <2>2, <2>4 DEF Sound
<1>4. e.fat = d.fat
  <2>1. new \in Ids
    BY <1>1
  <2> QED
    BY <1>1, <1>2, <1>3, <2>1
<1>5. Taken(e) = Taken(d)
  BY <1>4 DEF Taken
<1>6. Moves(d, e, t, List(d, Front(t)), NoItem)
  <2>1. \A x \in Clusters \ Taken(e) : e.data[x] = Blank
    BY <1>3, <1>5 DEF Tidy
  <2>2. \A q \in Items(d) : \A x \in ToSet(Chain(d, q)) :
              e.fat[x] = d.fat[x] /\ e.data[x] = d.data[x]
    BY <1>3, <1>4
  <2> QED
    BY <1>1, <1>3, <2>1, <2>2, Spare
<1>7. Others(d, e, t) /\ ItemAt(e, t) = NoItem /\ t \notin Items(e)
  BY <1>1, <1>3, <1>6, MoveDone
<1>8. \A q \in Named : ItemAt(e, q) = ItemAt(d, q)
  <2>1. ItemAt(d, t) = NoItem
    BY <1>1, ItemStep
  <2>2. \A q \in Named \ {t} : ItemAt(e, q) = ItemAt(d, q)
    BY <1>1, <1>3, <1>6, MoveItems
  <2> QED
    BY <1>7, <2>1, <2>2
<1>9. \A x \in Lost(e) : x \in Taken(d) => x \in Lost(d)
  <2>1. \A q \in Items(d) : \A x \in ToSet(Chain(d, q)) : e.fat[x] = d.fat[x]
    BY <1>4
  <2> QED
    BY <1>1, <1>3, <1>8, <2>1, LostSame
<1>10. Lost(e) \subseteq Lost(d)
  BY <1>5, <1>9 DEF Lost
<1> QED
  BY <1>7, <1>10

(* The new item has its entry. *)
Made(d, e, t, new, slot) ==
    /\ Others(d, e, t) /\ ItemAt(e, t) = slot /\ t \in Items(e) /\ Chain(e, t) = <<new>>
    /\ Lost(e) \subseteq Lost(d) \ {new}

LEMMA EntryMade ==
    ASSUME NEW d \in Disks, NEW t \in Named, NEW u, NEW c, NEW l, NEW new \in Clusters,
           NEW n \in Nat, NEW slot \in Slots, NEW folder \in BOOLEAN,
           NewEntry(d, t, u, c, l, new, n, slot, folder),
           NEW e, e = PutItem(d, ClustersOf(d, c), n, slot, folder)
    PROVE  Made(d, e, t, new, slot) /\ e \in Refilled(d) /\ (~folder => e.data[new] = Blank)
<1>1. /\ Moves(d, e, t, Append(l, slot), slot) /\ e \in Refilled(d)
      /\ (~folder => e.data[new] = Blank)
  BY ItemPut
<1>2. e \in Disks /\ e.fat = d.fat /\ Tidy(d) /\ slot.first = new /\ t \notin Items(d)
      /\ e.fat[new] \in 4088 .. 4095
  BY <1>1, RefilledKeeps DEF NewEntry
<1>3. slot # NoItem
  BY NoSlot
<1>4. Others(d, e, t) /\ ItemAt(e, t) = slot /\ t \in Items(e)
  BY <1>1, <1>2, <1>3, MoveDone
<1>5. Chain(e, t) = <<new>> /\ ToSet(<<new>>) = {new}
  BY <1>2, <1>4, OneCluster DEF Chain
<1>6. Taken(e) = Taken(d)
  BY <1>2 DEF Taken
<1>7. Lost(e) \subseteq Lost(d)
  BY <1>1, <1>2, <1>6, MoveLost
<1>8. new \notin Lost(e)
  BY <1>4, <1>5 DEF Lost
<1> QED
  BY <1>1, <1>4, <1>5, <1>7, <1>8 DEF Made

(* The upper directory has grown by a cluster. *)
LEMMA UpperGrown ==
    ASSUME NEW d \in Sound, Tidy(d), NEW t \in Named, t \notin Items(d), NEW u, u = Front(t),
           u \in Directories(d), u # <<>>, NEW c, c = ItemAt(d, u).first,
           NEW e, e = aloc_cluster(d, c).disk, NEW g, g = aloc_cluster(d, c).new, g # -1
    PROVE  /\ e \in Sound /\ e.data = d.data
           /\ Others(d, e, t) /\ t \notin Items(e) /\ u \in Directories(e)
           /\ ItemAt(e, u) = ItemAt(d, u) /\ List(e, u) = List(d, u)
           /\ ClustersOf(e, c) = Append(ClustersOf(d, c), g)
           /\ Len(SlotsOf(e, c)) = Len(SlotsOf(d, c)) + K
           /\ Lost(e) \subseteq Lost(d)
           /\ \A x \in Clusters : d.fat[x] # 0 /\ x \notin ToSet(retrieve_sectors_fs(d.fat, c)) =>
                 e.fat[x] = d.fat[x] /\ x \notin ToSet(retrieve_sectors_fs(e.fat, c))
           /\ \A q \in Items(e) \ {u} : q \in Items(d) /\ Chain(e, q) = Chain(d, q)
<1>1. d \in Disks /\ d.fat \in FatTables /\ c \in Clusters /\ retrieve_sectors_fs(d.fat, c) # <<>>
      /\ c # Root
  <2>1. d \in Disks
    BY DEF Sound
  <2>2. c \in Clusters /\ retrieve_sectors_fs(d.fat, c) # <<>>
    BY <2>1, DirFirst
  <2> QED
    BY <2>1, <2>2, TablesOf, ClustersAre
<1>2. PICK s : s = retrieve_sectors_fs(d.fat, c)
  OBVIOUS
<1>3. s \in Seq(Clusters) /\ Len(s) \in Nat /\ Len(s) >= 1 /\ Last(s) = s[Len(s)] /\ s[Len(s)] \in Clusters
  <2>1. s \in Seq(Clusters) /\ Len(s) \in 1 .. N - 2 /\ Last(s) \in Clusters
    BY <1>1, <1>2, ChainType
  <2>2. Last(s) = s[Len(s)]
    BY DEF Last
  <2> QED
    BY <2>1, <2>2
<1>4. g = retrieve_free_index(d)
  BY DEF aloc_cluster, AlocBehind
<1>5. g \in Clusters /\ d.fat[g] = 0
  BY <1>4, FreeIndex
<1>6. e = save_fat(SetEntry(SetEntry(d, g, EndMark), s[Len(s)], g))
  BY <1>2, <1>3, <1>4 DEF aloc_cluster, AlocBehind
<1>7. /\ e \in Sound /\ e.fat = [d.fat EXCEPT ![g] = EndMark, ![s[Len(s)]] = g]
      /\ e.data = d.data /\ e.root = d.root
  <2>1. EndMark \in Entry /\ g \in Entry
    BY <1>5, Sizes0
  <2>2. PICK f : f = SetEntry(d, g, EndMark)
    OBVIOUS
  <2>3. f \in Sound /\ f.fat = [d.fat EXCEPT ![g] = EndMark] /\ f.data = d.data /\ f.root = d.root
    BY <1>5, <2>1, <2>2, SetEntryKeeps
  <2>4. PICK h : h = SetEntry(f, s[Len(s)], g)
    OBVIOUS
  <2>5. h \in Sound /\ h.fat = [f.fat EXCEPT ![s[Len(s)]] = g] /\ h.data = f.data /\ h.root = f.root
    BY <1>3, <2>1, <2>3, <2>4, SetEntryKeeps
  <2>6. e = save_fat(h)
    BY <1>6, <2>2, <2>4
  <2>7. e \in Sound /\ e.fat = h.fat /\ e.data = h.data /\ e.root = h.root
    BY <2>5, <2>6, SaveKeeps
  <2> QED
    BY <2>3, <2>5, <2>7
<1>8. e \in Disks
  BY <1>7 DEF Sound
<1>9. /\ Moves(d, e, t, List(d, u), NoItem)
      /\ retrieve_sectors_fs(e.fat, c) = Append(s, g)
      /\ Len(SlotsOf(e, c)) = Len(SlotsOf(d, c)) + K
  <2>1. d \in Disks
    BY <1>1
  <2>2. e.root = d.root /\ e.data = d.data
    BY <1>7
  <2>3. e.fat = [d.fat EXCEPT ![g] = EndMark, ![s[Len(s)]] = g]
    BY <1>7
  <2>4. g \in Clusters /\ d.fat[g] = 0
    BY <1>5
  <2> QED
    BY <2>1, <2>2, <2>3, <2>4, <1>2, <1>8, ParentGrown
<1>10. /\ Others(d, e, t) /\ t \notin Items(e) /\ u \in Directories(e)
       /\ ItemAt(e, u) = ItemAt(d, u) /\ List(e, u) = List(d, u)
  BY <1>1, <1>8, <1>9, MoveDone
<1>11. ToSet(Append(s, g)) = ToSet(s) \cup {g}
  BY <1>3, <1>5, AppendedSet
<1>12. s[Len(s)] \in ToSet(s)
  BY <1>3, SetOf
<1>13. d.fat \in [Ids -> Entry] /\ \A x \in Clusters : x \in Ids
  BY <1>1, ClustersAre DEF FatTables
<1>14. \A x \in Clusters : x # g /\ x # s[Len(s)] => e.fat[x] = d.fat[x]
  BY <1>7, <1>13
<1>15. ASSUME NEW x \in Clusters, d.fat[x] # 0, x \notin ToSet(s)
       PROVE  e.fat[x] = d.fat[x] /\ x \notin ToSet(Append(s, g))
  BY <1>5, <1>11, <1>12, <1>14, <1>15
<1>16. Lost(e) \subseteq Lost(d)
  <2>1. ASSUME NEW x \in Taken(e)
        PROVE  x \in Taken(d) \/ x \in ToSet(retrieve_sectors_fs(e.fat, ItemAt(d, Front(t)).first))
    <3>1. x \in Clusters /\ e.fat[x] # 0
      BY DEF Taken
    <3>2. x \in ToSet(Append(s, g)) \/ e.fat[x] = d.fat[x]
      BY <1>11, <1>12, <1>14, <3>1
    <3> QED
      BY <1>9, <3>1, <3>2 DEF Taken
  <2> QED
    BY <1>1, <1>8, <1>9, <2>1, MoveLost
<1>17. ClustersOf(e, c) = Append(ClustersOf(d, c), g)
  BY <1>1, <1>2, <1>9 DEF ClustersOf
<1>18. ASSUME NEW q \in Items(e) \ {u} PROVE q \in Items(d) /\ Chain(e, q) = Chain(d, q)
  <2>1. q \in Named \ {t}
    BY <1>10 DEF Items
  <2>2. View(e, q) = View(d, q)
    BY <1>10, <2>1 DEF Others
  <2>3. q \in Items(d)
    BY <1>1, <1>8, <2>1, <2>2, ViewItem
  <2>4. q \in Items(d) \ {t, Front(t)}
    BY <2>1, <2>3
  <2> QED
    BY <1>1, <1>8, <1>9, <2>3, <2>4, MoveTidy
<1> QED
  BY <1>2, <1>7, <1>9, <1>10, <1>15, <1>16, <1>17, <1>18

-----------------------------------------------------------------------------
(* create_folder and create_file                                           *)

LEMMA OthersOn ==
    ASSUME NEW d, NEW e, NEW f, NEW t, Others(d, e, t), Others(e, f, t)
    PROVE  Others(d, f, t)
BY DEF Others

(* A disk on which create_folder or create_file has a cluster and a place  *)
(* for the entry                                                           *)
Ready(d, e, t, c, new) ==
    /\ e \in Disks /\ Others(d, e, t) /\ t \notin Items(e) /\ Front(t) \in Directories(e)
    /\ c = ItemAt(e, Front(t)).first /\ List(e, Front(t)) = List(d, Front(t))
    /\ e.fat[new] \in 4088 .. 4095 /\ e.data[new] = Blank
    /\ \A q \in Items(e) : new \notin ToSet(Chain(e, q))
    /\ Lost(e) \subseteq Lost(d) \cup {new}

LEMMA ReadyMade ==
    ASSUME NEW d \in Disks, NEW t \in Named, NEW c, NEW new \in Clusters, NEW e, Ready(d, e, t, c, new),
           NEW n \in Nat, n = Skip(c) + Len(List(d, Front(t))), n + 1 <= Len(SlotsOf(e, c)),
           NEW slot \in Slots, slot.first = new, NameOf(slot) = Last(t), Kind(t, slot),
           NEW folder \in BOOLEAN, folder <=> t \in Folders,
           NEW f, f = PutItem(e, ClustersOf(e, c), n, slot, folder)
    PROVE  Made(d, f, t, new, slot) /\ Lost(f) \subseteq Lost(d) /\ (~folder => f.data[new] = Blank)
<1>1. PICK u, l : u = Front(t) /\ l = List(e, u)
  OBVIOUS
<1>2. e \in Disks /\ NewEntry(e, t, u, c, l, new, n, slot, folder)
  BY <1>1 DEF Ready, NewEntry, Others
<1>3. Made(e, f, t, new, slot) /\ (~folder => f.data[new] = Blank)
  BY <1>2, EntryMade
<1>4. Others(d, f, t)
  BY <1>3, OthersOn DEF Made, Ready
<1>5. Lost(f) \subseteq Lost(d) \ {new}
  BY <1>3 DEF Made, Ready
<1> QED
  BY <1>3, <1>4, <1>5 DEF Made

(* create_folder and create_file *)
LEMMA Created ==
    ASSUME NEW d \in Sound, Tidy(d), NEW t \in Named, t \notin Items(d), Front(t) \in Directories(d),
           NEW slot \in Slots, NameOf(slot) = Last(t), Kind(t, slot),
           NEW folder \in BOOLEAN, folder <=> t \in Folders,
           NEW r, r = CreateIn(d, Upper(d, t), retrieve_free_index(d), slot, folder)
    PROVE  /\ Others(d, r.disk, t) /\ Lost(r.disk) \subseteq Lost(d)
           /\ IF r.ok THEN \E new \in Clusters :
                              /\ new = retrieve_free_index(d)
                              /\ Made(d, r.disk, t, new, [slot EXCEPT !.first = new])
                              /\ ~folder => r.disk.data[new] = Blank
              ELSE t \notin Items(r.disk)
<1>1. d \in Disks
  BY DEF Sound
<1>2. PICK u, c : u = Front(t) /\ c = ItemAt(d, u).first
  OBVIOUS
<1>3. PICK up : up = Upper(d, t)
  OBVIOUS
<1>4. /\ u \in Directories(d) /\ up.first = c /\ up.skip = Skip(c) /\ up.chain = ClustersOf(d, c)
      /\ up.room = Len(SlotsOf(d, c)) /\ retrieve_folders_from_folder(d, up.first) = List(d, u)
  BY <1>1, <1>2, <1>3, UpperAre DEF List
<1>5. PICK new : new = retrieve_free_index(d)
  OBVIOUS
<1>6. CASE new = -1
  <2>1. r.disk = d /\ r.ok = FALSE
    BY <1>3, <1>5, <1>6 DEF CreateIn
  <2> QED
    BY <2>1 DEF Others
<1>7. CASE new # -1
  <2>1. new \in Clusters /\ d.fat[new] = 0
    BY <1>5, <1>7, FreeIndex
  <2>2. PICK e : e = save_fat(SetEntry(d, new, EndMark))
    OBVIOUS
  <2>3. Taking(d, e, t, new)
    BY <2>1, <2>2, ClusterTaken
  <2>4. PICK s : s = [slot EXCEPT !.first = new]
    OBVIOUS
  <2>5. s \in Slots /\ s.first = new /\ NameOf(s) = Last(t) /\ Kind(t, s)
    <3>1. new \in Ids
      BY <2>1, ClustersAre
    <3>2. s \in Slots
      BY <2>4, <3>1, SlotTypes
    <3>3. s.first = new /\ s.name = slot.name /\ s.ext = slot.ext /\ s.attr = slot.attr
      BY <2>4 DEF Slots
    <3> QED
      BY <3>2, <3>3 DEF NameOf, Kind
  <2>6. PICK l, n : l = List(d, u) /\ n = Len(l) + up.skip
    OBVIOUS
  <2>7. l \in Seq(Slots) /\ Skip(c) + Len(l) <= Len(SlotsOf(d, c)) /\ Len(l) \in Nat /\ Skip(c) \in Nat
        /\ Len(SlotsOf(d, c)) \in Nat
    <3>1. Holds(d, c, l)
      BY <1>2, <1>4, <2>6 DEF Tidy
    <3>2. l \in Seq(Slots) /\ Skip(c) + Len(l) <= Len(SlotsOf(d, c))
      BY <3>1 DEF Holds, Lists
    <3>3. Len(l) \in Nat
      BY <3>2, LenProperties
    <3> QED
      BY <1>1, <3>2, <3>3, SlotsAre DEF Skip
  <2>8. n \in Nat /\ n = Skip(c) + Len(l)
    BY <1>4, <2>6, <2>7
  <2>9. r = CreateAt(e, up, n, s, folder)
    BY <1>3, <1>4, <1>5, <1>7, <2>2, <2>4, <2>6 DEF CreateIn
  <2>10. /\ e \in Sound /\ e \in Disks /\ Others(d, e, t) /\ Tidy(e) /\ t \notin Items(e)
         /\ u \in Directories(e) /\ ItemAt(e, u).first = c /\ List(e, u) = l
         /\ e.fat[new] \in 4088 .. 4095 /\ e.data[new] = Blank
         /\ \A q \in Items(e) : new \notin ToSet(Chain(e, q))
         /\ Lost(e) \subseteq Lost(d) \cup {new}
         /\ ClustersOf(e, c) = up.chain /\ Len(SlotsOf(e, c)) = up.room
    BY <1>2, <1>4, <2>3, <2>6 DEF Taking, Sound, Others, ClustersOf
  <2>11. ASSUME NEW f, Ready(d, f, t, c, new), n + 1 <= Len(SlotsOf(f, c)),
                r = [ok |-> TRUE, disk |-> PutItem(f, ClustersOf(f, c), n, s, folder)]
         PROVE  /\ Others(d, r.disk, t) /\ Lost(r.disk) \subseteq Lost(d) /\ r.ok
                /\ Made(d, r.disk, t, new, s) /\ (~folder => r.disk.data[new] = Blank)
    <3>1. PICK g : g = PutItem(f, ClustersOf(f, c), n, s, folder)
      OBVIOUS
    <3>2. n = Skip(c) + Len(List(d, Front(t)))
      BY <1>2, <2>6, <2>8
    <3>3. Made(d, g, t, new, s) /\ Lost(g) \subseteq Lost(d) /\ (~folder => g.data[new] = Blank)
      BY <1>1, <2>1, <2>5, <2>8, <2>11, <3>1, <3>2, ReadyMade
    <3>4. r.disk = g /\ r.ok
      BY <2>11, <3>1
    <3> QED
      BY <3>3, <3>4 DEF Made
  <2>12. CASE n + 1 <= up.room
    <3>1. r = [ok |-> TRUE, disk |-> PutItem(e, ClustersOf(e, c), n, s, folder)]
      BY <2>9, <2>10, <2>12 DEF CreateAt
    <3>2. Ready(d, e, t, c, new)
      BY <1>2, <2>6, <2>10 DEF Ready
    <3>3. n + 1 <= Len(SlotsOf(e, c))
      BY <2>10, <2>12
    <3> QED
      BY <1>5, <2>1, <2>4, <2>11, <3>1, <3>2, <3>3
  <2>13. ASSUME r = [ok |-> FALSE, disk |-> Undo(e, new)]
         PROVE  Others(d, r.disk, t) /\ Lost(r.disk) \subseteq Lost(d) /\ ~r.ok /\ t \notin Items(r.disk)
    <3>1. PICK g : g = Undo(e, new)
      OBVIOUS
    <3>2. Others(d, g, t) /\ t \notin Items(g) /\ Lost(g) \subseteq Lost(d)
      BY <2>1, <2>3, <3>1, ClusterBack
    <3>3. r.disk = g /\ ~r.ok
      BY <2>13, <3>1
    <3> QED
      BY <3>2, <3>3
  <2>14. CASE ~ (n + 1 <= up.room) /\ c = Root
    <3>1. r = [ok |-> FALSE, disk |-> Undo(e, new)]
      BY <1>4, <2>5, <2>9, <2>14 DEF CreateAt
    <3> QED
      BY <2>13, <3>1
  <2>15. CASE ~ (n + 1 <= up.room) /\ c # Root
    <3>1. PICK a : a = aloc_cluster(e, c)
      OBVIOUS
    <3>2. r = CreateGrown(e, a, up, n, s, folder)
      BY <1>4, <2>9, <2>15, <3>1 DEF CreateAt
    <3>3. CASE a.new = -1
      <4>1. r = [ok |-> FALSE, disk |-> Undo(e, new)]
        BY <2>5, <3>2, <3>3 DEF CreateGrown
      <4> QED
        BY <2>13, <4>1
    <3>4. CASE a.new # -1
      <4>1. u # <<>>
        BY <1>1, <1>2, <1>4, <2>15, DirFirst
      <4>2. PICK f, g : f = a.disk /\ g = a.new
        OBVIOUS
      <4>3. /\ f \in Sound /\ f.data = e.data
            /\ Others(e, f, t) /\ t \notin Items(f) /\ u \in Directories(f)
            /\ ItemAt(f, u) = ItemAt(e, u) /\ List(f, u) = List(e, u)
            /\ ClustersOf(f, c) = Append(ClustersOf(e, c), g)
            /\ Len(SlotsOf(f, c)) = Len(SlotsOf(e, c)) + K
            /\ Lost(f) \subseteq Lost(e)
            /\ \A x \in Clusters : e.fat[x] # 0 /\ x \notin ToSet(retrieve_sectors_fs(e.fat, c)) =>
                  f.fat[x] = e.fat[x] /\ x \notin ToSet(retrieve_sectors_fs(f.fat, c))
            /\ \A q \in Items(f) \ {u} : q \in Items(e) /\ Chain(f, q) = Chain(e, q)
        BY <1>2, <2>10, <3>1, <3>4, <4>1, <4>2, UpperGrown
      <4>4. u \in Items(e) /\ Chain(e, u) = retrieve_sectors_fs(e.fat, c)
        BY <2>10, <4>1, DirFirst DEF Chain
      <4>5. new \notin ToSet(retrieve_sectors_fs(e.fat, c)) /\ e.fat[new] # 0
        BY <2>10, <4>4
      <4>6. f.fat[new] = e.fat[new] /\ new \notin ToSet(retrieve_sectors_fs(f.fat, c))
        BY <2>1, <4>3, <4>5
      <4>7. \A q \in Items(f) : new \notin ToSet(Chain(f, q))
        <5>1. Chain(f, u) = retrieve_sectors_fs(f.fat, c)
          BY <2>10, <4>3 DEF Chain
        <5> QED
          BY <2>10, <4>3, <4>6, <5>1
      <4>8. f.fat[new] \in 4088 .. 4095 /\ f.data[new] = Blank /\ Lost(f) \subseteq Lost(d) \cup {new}
        BY <2>10, <4>3, <4>6
      <4>9. f \in Disks /\ Others(d, f, t)
        BY <2>10, <4>3, OthersOn DEF Sound
      <4>10. Ready(d, f, t, c, new)
        BY <1>2, <2>6, <2>10, <4>3, <4>7, <4>8, <4>9 DEF Ready
      <4>11. r = [ok |-> TRUE, disk |-> PutItem(f, ClustersOf(f, c), n, s, folder)]
        BY <2>10, <3>2, <3>4, <4>2, <4>3 DEF CreateGrown
      <4>12. n + 1 <= Len(SlotsOf(f, c))
        BY <1>4, <2>7, <2>8, <2>10, <4>3, Sizes0
      <4> QED
        BY <1>5, <2>1, <2>4, <2>11, <4>10, <4>11, <4>12
    <3> QED
      BY <3>3, <3>4
  <2> QED
    BY <2>12, <2>14, <2>15
<1> QED
  BY <1>6, <1>7

-----------------------------------------------------------------------------
(* update_file_size and set_file_attribute                                 *)

(* Where the entry of an item is *)
LEMMA EntrySlot ==
    ASSUME NEW d \in Disks, Tidy(d), NEW t \in Items(d), NEW up, up = Upper(d, t),
           NEW l, l = List(d, Front(t)), NEW j, j = IndexOf(l, Last(t)),
           NEW n, n = (up.skip + j) - 1
    PROVE  /\ n \in Nat /\ j \in 1 .. Len(l) /\ up.chain = ClustersOf(d, ItemAt(d, Front(t)).first)
           /\ GetSlot(d, up.chain, n) = ItemAt(d, t) /\ ItemAt(d, t) \in Slots
           /\ retrieve_folders_from_folder(d, up.first) = l /\ up.skip \in {1, 2}
           /\ up.skip = Skip(ItemAt(d, Front(t)).first) /\ NameOf(ItemAt(d, t)) = Last(t)
<1>1. PICK u, c : u = Front(t) /\ c = ItemAt(d, u).first
  OBVIOUS
<1>2. t \in Named
  BY DEF Items
<1>3. /\ u \in Directories(d) /\ l \in Seq(Slots) /\ j \in 1 .. Len(l) /\ l[j] = ItemAt(d, t)
      /\ SlotsOf(d, c)[Skip(c) + j] = ItemAt(d, t) /\ Skip(c) + j \in 1 .. Len(SlotsOf(d, c))
      /\ ItemAt(d, t) \in Slots /\ retrieve_folders_from_folder(d, c) = l /\ NameOf(ItemAt(d, t)) = Last(t)
  BY <1>1, EntryOf
<1>4. up.first = c /\ up.skip = Skip(c) /\ up.chain = ClustersOf(d, c) /\ up.chain # <<>>
  BY <1>1, <1>2, <1>3, UpperAre
<1>5. Skip(c) \in {1, 2}
  BY DEF Skip
<1>6. n \in Nat /\ n = (Skip(c) + j) - 1
  BY <1>3, <1>4, <1>5
<1>7. GetSlot(d, ClustersOf(d, c), n) = ItemAt(d, t)
  <2>1. PICK i \in 1 .. Len(SlotsOf(d, c)) : i = Skip(c) + j
    BY <1>3
  <2>2. n = i - 1
    BY <1>6, <2>1
  <2>3. GetSlot(d, ClustersOf(d, c), n) = SlotsOf(d, c)[i]
    BY <1>4, <1>6, <2>2, SlotRead
  <2> QED
    BY <1>3, <2>1, <2>3
<1> QED
  BY <1>1, <1>3, <1>4, <1>5, <1>6, <1>7

(* The entry of a file is written anew. *)
Entered(d, e, t, slot) ==
    /\ e \in Refilled(d) /\ Others(d, e, t) /\ Lost(e) \subseteq Lost(d)
    /\ t \in Items(e) /\ ItemAt(e, t) = slot /\ Chain(e, t) = Chain(d, t)
    /\ \A x \in ToSet(Chain(d, t)) : e.data[x] = d.data[x]

LEMMA SlotEntered ==
    ASSUME NEW d \in Disks, Tidy(d), NEW t \in Items(d) \ Folders, NEW up, up = Upper(d, t),
           NEW n, n = (up.skip + IndexOf(List(d, Front(t)), Last(t))) - 1,
           NEW slot \in Slots, slot.first = ItemAt(d, t).first, NameOf(slot) = Last(t), Kind(t, slot),
           NEW e, e = PutSlot(d, up.chain, n, slot)
    PROVE  Entered(d, e, t, slot)
<1>1. PICK u, l, j : u = Front(t) /\ l = List(d, u) /\ j = IndexOf(l, Last(t))
  OBVIOUS
<1>2. PICK c : c = ItemAt(d, u).first
  OBVIOUS
<1>3. t \in Items(d) /\ t \in Named
  BY DEF Items
<1>4. n \in Nat /\ up.chain = ClustersOf(d, c) /\ n = (Skip(c) + j) - 1
  BY <1>1, <1>2, <1>3, EntrySlot
<1>5. e = PutSlot(d, ClustersOf(d, c), n, slot)
  BY <1>4
<1>6. /\ Moves(d, e, t, [l EXCEPT ![j] = slot], slot) /\ e \in Refilled(d)
      /\ \A x \in ToSet(Chain(d, t)) : e.data[x] = d.data[x]
  BY <1>1, <1>2, <1>4, <1>5, EntryChanged
<1>7. e \in Disks /\ e.fat = d.fat
  BY <1>6, RefilledKeeps
<1>8. slot # NoItem
  BY NoSlot
<1>9. Others(d, e, t) /\ ItemAt(e, t) = slot /\ t \in Items(e)
  BY <1>3, <1>6, <1>7, <1>8, MoveDone
<1>10. Chain(e, t) = Chain(d, t)
  BY <1>7, <1>9 DEF Chain
<1>11. Lost(e) \subseteq Lost(d)
  <2>1. Taken(e) = Taken(d)
    BY <1>7 DEF Taken
  <2>2. ToSet(Clustered(e, slot)) = ToSet(Chain(d, t))
    BY <1>7 DEF Clustered, Chain
  <2> QED
    BY <1>3, <1>6, <1>7, <2>1, <2>2, MoveLost
<1> QED
  BY <1>6, <1>9, <1>10, <1>11 DEF Entered

(* update_file_size *)
LEMMA SizeDone ==
    ASSUME NEW d \in Disks, Tidy(d), NEW t \in Items(d) \ Folders, NEW size \in 0 .. W - 1,
           NEW e, e = update_file_size(d, t, size)
    PROVE  Entered(d, e, t, [ItemAt(d, t) EXCEPT !.size = size])
<1>1. PICK up, l, j : up = Upper(d, t) /\ l = List(d, Front(t)) /\ j = IndexOf(l, Last(t))
  OBVIOUS
<1>2. PICK n : n = (up.skip + j) - 1
  OBVIOUS
<1>3. /\ n \in Nat /\ j \in 1 .. Len(l) /\ GetSlot(d, up.chain, n) = ItemAt(d, t) /\ ItemAt(d, t) \in Slots
      /\ retrieve_folders_from_folder(d, up.first) = l /\ up.skip \in {1, 2}
      /\ NameOf(ItemAt(d, t)) = Last(t)
  BY <1>1, <1>2, EntrySlot
<1>4. EntryIndex(d, up, t) = n
  <2>1. EntryIndex(d, up, t) = (j - 1) + up.skip
    BY <1>1, <1>3 DEF EntryIndex
  <2>2. (j - 1) + up.skip = n
    BY <1>2, <1>3
  <2> QED
    BY <2>1, <2>2
<1>5. PICK slot : slot = [ItemAt(d, t) EXCEPT !.size = size]
  OBVIOUS
<1>6. slot \in Slots /\ slot.first = ItemAt(d, t).first /\ NameOf(slot) = Last(t) /\ Kind(t, slot)
  <2>1. slot \in Slots
    BY <1>3, <1>5, SlotTypes
  <2>2. /\ slot.first = ItemAt(d, t).first /\ slot.name = ItemAt(d, t).name
        /\ slot.ext = ItemAt(d, t).ext /\ slot.attr = ItemAt(d, t).attr
    BY <1>3, <1>5 DEF Slots
  <2>3. Kind(t, ItemAt(d, t))
    BY DEF Tidy
  <2>4. NameOf(slot) = NameOf(ItemAt(d, t))
    BY <2>2 DEF NameOf
  <2> QED
    BY <1>3, <2>1, <2>2, <2>3, <2>4 DEF Kind
<1>7. e = PutSlot(d, up.chain, n, slot)
  BY <1>1, <1>3, <1>4, <1>5 DEF update_file_size, UpdateIn, PutSize
<1> QED
  BY <1>1, <1>2, <1>5, <1>6, <1>7, SlotEntered

LEMMA SlotBack ==
    ASSUME NEW d \in Disks, NEW chain, NEW n
    PROVE  PutSlot(d, chain, n, GetSlot(d, chain, n)) = d
<1>1. CASE chain[1] = Root
  <2>1. PutSlot(d, chain, n, GetSlot(d, chain, n)) = [d EXCEPT !.root[n + 1] = d.root[n + 1]]
    BY <1>1 DEF PutSlot, GetSlot
  <2>2. d.root \in [1 .. R -> Slots]
    BY DEF Disks
  <2>3. [d.root EXCEPT ![n + 1] = d.root[n + 1]] = d.root
    BY <2>2
  <2> QED
    BY <2>1, <2>3 DEF Disks
<1>2. CASE chain[1] # Root
  <2>1. PICK c, a : c = chain[(n \div K) + 1] /\ a = (n % K) + 1
    OBVIOUS
  <2>2. PutSlot(d, chain, n, GetSlot(d, chain, n)) = [d EXCEPT !.data[c][a] = d.data[c][a]]
    BY <1>2, <2>1 DEF PutSlot, GetSlot
  <2>3. d.data \in [Clusters -> [1 .. K -> Slots]]
    BY DEF Disks
  <2>4. [d.data EXCEPT ![c] = [d.data[c] EXCEPT ![a] = d.data[c][a]]] = d.data
    <3>1. CASE c \notin Clusters
      BY <2>3, <3>1
    <3>2. CASE c \in Clusters
      <4>1. d.data[c] \in [1 .. K -> Slots]
        BY <2>3, <3>2
      <4>2. [d.data[c] EXCEPT ![a] = d.data[c][a]] = d.data[c]
        BY <4>1
      <4> QED
        BY <2>3, <4>2
    <3> QED
      BY <3>1, <3>2
  <2>5. [d EXCEPT !.data[c][a] = d.data[c][a]]
           = [d EXCEPT !.data = [d.data EXCEPT ![c] = [d.data[c] EXCEPT ![a] = d.data[c][a]]]]
    OBVIOUS
  <2>6. [d EXCEPT !.data = d.data] = d
    BY DEF Disks
  <2> QED
    BY <2>2, <2>4, <2>5, <2>6
<1> QED
  BY <1>1, <1>2

(* set_file_attribute: a file has its attribute changed, or nothing is. *)
LEMMA AttributeDone ==
    ASSUME NEW d \in Disks, Tidy(d), NEW t \in Named, Front(t) \in Directories(d),
           NEW attr \in Attrs \cup {{"Directory"}},
           file_exist(d, t) => ("Directory" \in attr <=> "Directory" \in ItemAt(d, t).attr),
           NEW e, e = set_file_attribute(d, t, attr).disk
    PROVE  \/ e = d
           \/ t \in Items(d) \ Folders /\ Entered(d, e, t, [ItemAt(d, t) EXCEPT !.attr = attr])
<1>1. PICK u, c : u = Front(t) /\ c = ItemAt(d, u).first
  OBVIOUS
<1>2. PICK up, l, j : up = Upper(d, t) /\ l = List(d, Front(t)) /\ j = IndexOf(l, Last(t))
  OBVIOUS
<1>3. up.first = c
  BY <1>1, <1>2, UpperAre
<1>4. retrieve_folders_from_folder(d, up.first) = l
  BY <1>1, <1>2, <1>3 DEF List
<1>5. PICK i : i = AttributeIndex(d, up, t) /\ i = IF j = 0 THEN 0 ELSE j - 1
  BY <1>2, <1>4 DEF AttributeIndex
<1>6. e = PutAttribute(d, up, i, attr).disk
  BY <1>2, <1>5 DEF set_file_attribute, SetAttributeIn
<1>7. CASE i = 0
  BY <1>6, <1>7 DEF PutAttribute
<1>8. CASE i # 0
  <2>1. j # 0 /\ i = j - 1
    BY <1>5, <1>8
  <2>2. t \in Items(d)
    <3>1. l \in Seq(Slots)
      BY <1>4, FolderItems
    <3>2. Found(l, Last(t)) # NoItem
      BY <1>2, <2>1, <3>1, IndexFound
    <3> QED
      BY <1>2, <3>2, ItemStep
  <2>3. PICK n : n = (up.skip + j) - 1
    OBVIOUS
  <2>4. /\ n \in Nat /\ j \in 1 .. Len(l) /\ GetSlot(d, up.chain, n) = ItemAt(d, t) /\ ItemAt(d, t) \in Slots
        /\ up.skip \in {1, 2} /\ NameOf(ItemAt(d, t)) = Last(t)
    BY <1>2, <2>2, <2>3, EntrySlot
  <2>5. i + up.skip = n
    BY <2>1, <2>3, <2>4
  <2>6. PICK slot : slot = [ItemAt(d, t) EXCEPT !.attr = attr]
    OBVIOUS
  <2>7. e = PutSlot(d, up.chain, n, slot)
    BY <1>6, <1>8, <2>4, <2>5, <2>6 DEF PutAttribute
  <2>8. Kind(t, ItemAt(d, t)) /\ file_exist(d, t)
    BY <2>2 DEF Tidy, Items
  <2>9. CASE t \in Folders
    <3>1. ItemAt(d, t).attr = {"Directory"}
      BY <2>8, <2>9 DEF Kind
    <3>2. attr = {"Directory"}
      BY <2>8, <3>1 DEF Attrs
    <3>3. slot = ItemAt(d, t)
      BY <2>4, <2>6, <3>1, <3>2 DEF Slots
    <3>4. e = d
      BY <2>4, <2>7, <3>3, SlotBack
    <3> QED
      BY <3>4
  <2>10. CASE t \notin Folders
    <3>1. "Directory" \notin ItemAt(d, t).attr
      BY <2>8, <2>10 DEF Kind
    <3>2. "Directory" \notin attr
      BY <2>8, <3>1
    <3>3. attr \cap {"Volume_ID", "Directory"} = {} /\ attr \in SUBSET Flags
      BY <3>2 DEF Attrs, Flags
    <3>4. /\ slot \in Slots /\ slot.attr = attr
          /\ slot.first = ItemAt(d, t).first /\ slot.name = ItemAt(d, t).name
          /\ slot.ext = ItemAt(d, t).ext
      BY <2>4, <2>6, <3>3, SlotTypes DEF Slots
    <3>5. NameOf(slot) = Last(t)
      BY <2>4, <3>4 DEF NameOf
    <3>6. Kind(t, slot)
      BY <2>8, <2>10, <3>3, <3>4 DEF Kind
    <3>7. Entered(d, e, t, slot)
      BY <1>2, <2>2, <2>3, <2>7, <2>10, <3>4, <3>5, <3>6, SlotEntered
    <3> QED
      BY <2>2, <2>6, <2>10, <3>7
  <2> QED
    BY <2>9, <2>10
<1> QED
  BY <1>7, <1>8

-----------------------------------------------------------------------------
(* FAT::write, one part after the other                                    *)

(* A step of a write to the file t *)
Touched(d, e, t) ==
    /\ e \in Sound /\ Others(d, e, t) /\ t \in Items(e) /\ ItemAt(e, t) = ItemAt(d, t)

LEMMA FileTouched ==
    ASSUME NEW d \in Disks, NEW e \in Sound, Tidy(d), NEW t \in Items(d) \ Folders,
           Moves(d, e, t, List(d, Front(t)), ItemAt(d, t))
    PROVE  Touched(d, e, t)
<1>1. t \in Named /\ ItemAt(d, t) # NoItem /\ e \in Disks
  BY ItemStep DEF Items, Sound
<1>2. Others(d, e, t) /\ ItemAt(e, t) = ItemAt(d, t) /\ t \in Items(e)
  BY <1>1, MoveDone
<1> QED
  BY <1>2 DEF Touched

LEMMA TouchedOn ==
    ASSUME NEW d, NEW e, NEW f, NEW t, Touched(d, e, t), Touched(e, f, t)
    PROVE  Touched(d, f, t)
BY OthersOn DEF Touched

(* A part over a cluster of the file *)
LEMMA PartOver ==
    ASSUME NEW d \in Sound, Tidy(d), NEW t \in Items(d) \ Folders, NEW c \in ToSet(Chain(d, t)),
           NEW part \in Seq(Slots), Len(part) <= K, NEW e, e = write_to_fs(d, c, part)
    PROVE  /\ Touched(d, e, t) /\ Chain(e, t) = Chain(d, t) /\ Lost(e) \subseteq Lost(d)
           /\ \A x \in Clusters : x # c => e.data[x] = d.data[x]
           /\ \A a \in 1 .. K : e.data[c][a] = IF a <= Len(part) THEN part[a] ELSE d.data[c][a]
<1>1. d \in Disks /\ t \in Named /\ t \in Items(d)
  BY DEF Sound, Items
<1>2. c \in Clusters
  BY <1>1, ChainTaken DEF Chain
<1>3. /\ e \in Refilled(d) /\ e.root = d.root
      /\ \A x \in Clusters : x # c => e.data[x] = d.data[x]
      /\ \A a \in 1 .. K : e.data[c][a] = IF a <= Len(part) THEN part[a] ELSE d.data[c][a]
  BY <1>1, <1>2, ClusterWritten
<1>4. e \in Sound /\ e \in Disks /\ e.fat = d.fat
  BY <1>1, <1>3, RefilledKeeps
<1>5. PICK old : old = ToSet(Chain(d, t)) /\ old = ToSet(retrieve_sectors_fs(e.fat, ItemAt(d, t).first))
  BY <1>4 DEF Chain
<1>6. retrieve_sectors_fs(e.fat, ItemAt(d, t).first) # <<>>
  BY <1>4 DEF Tidy, Chain
<1>7. \A x \in Clusters : x \notin old => e.fat[x] = d.fat[x] /\ e.data[x] = d.data[x]
  BY <1>3, <1>4, <1>5
<1>8. \A x \in old : e.fat[x] # 0
  BY <1>1, <1>4, <1>5, ChainTaken DEF Chain
<1>9. Moves(d, e, t, List(d, Front(t)), ItemAt(d, t))
  BY <1>1, <1>3, <1>4, <1>5, <1>6, <1>7, <1>8, FileMoved
<1>10. Touched(d, e, t)
  BY <1>1, <1>4, <1>9, FileTouched
<1>11. Chain(e, t) = Chain(d, t)
  BY <1>4, <1>10 DEF Chain, Touched
<1>12. Lost(e) \subseteq Lost(d)
  <2>1. Taken(e) = Taken(d)
    BY <1>4 DEF Taken
  <2>2. ToSet(Clustered(e, ItemAt(d, t))) = ToSet(Chain(d, t))
    BY <1>4 DEF Clustered, Chain
  <2> QED
    BY <1>1, <1>4, <1>9, <2>1, <2>2, MoveLost
<1> QED
  BY <1>3, <1>10, <1>11, <1>12

(* A new cluster behind nums, the clusters that the file had or has all    *)
(* but the last of.                                                        *)
Hung(d, e, nums, new) ==
    /\ e.root = d.root
    /\ \A x \in Clusters : e.fat[x] = IF x = new THEN EndMark ELSE IF x = nums[Len(nums)] THEN new ELSE d.fat[x]
    /\ \A x \in Clusters : x # new => e.data[x] = d.data[x]
Behind(s, nums) == s = nums \/ \E x \in Clusters : s = Append(nums, x)

LEMMA BehindIs ==
    ASSUME NEW nums \in Seq(Clusters), nums # <<>>, NEW s, Behind(s, nums)
    PROVE  /\ s \in Seq(Clusters) /\ Len(nums) \in Nat /\ Len(nums) >= 1 /\ Len(s) \in Nat
           /\ Len(s) >= Len(nums) /\ s # <<>>
           /\ \A i \in 1 .. Len(nums) : s[i] = nums[i] /\ nums[i] \in Clusters
           /\ ToSet(nums) \subseteq ToSet(s) /\ Last(nums) = nums[Len(nums)]
<1>1. Len(nums) \in Nat /\ Len(nums) >= 1 /\ \A i \in 1 .. Len(nums) : nums[i] \in Clusters
  BY LenProperties, ElementOfSeq, EmptySeq
<1>2. Last(nums) = nums[Len(nums)]
  BY DEF Last
<1>3. CASE s = nums
  BY <1>1, <1>2, <1>3
<1>4. CASE s # nums
  <2>1. PICK x \in Clusters : s = Append(nums, x)
    BY <1>4 DEF Behind
  <2>2. s \in Seq(Clusters) /\ ToSet(s) = ToSet(nums) \cup {x}
    BY <2>1, AppendedSet
  <2>3. Len(s) = Len(nums) + 1 /\ \A i \in 1 .. Len(nums) : s[i] = nums[i]
    BY <2>1, AppendProperties
  <2>4. s # <<>>
    BY <1>1, <2>2, <2>3
  <2> QED
    BY <1>1, <1>2, <2>2, <2>3, <2>4
<1> QED
  BY <1>3, <1>4

LEMMA ClusterHung ==
    ASSUME NEW d \in Sound, Tidy(d), NEW t \in Items(d) \ Folders, NEW nums \in Seq(Clusters),
           nums # <<>>, Behind(Chain(d, t), nums), NEW new \in Clusters, d.fat[new] = 0,
           NEW e \in Sound, Hung(d, e, nums, new)
    PROVE  /\ Touched(d, e, t) /\ Chain(e, t) = Append(nums, new)
           /\ Chain(d, t) = nums => Lost(e) \subseteq Lost(d)
<1>1. d \in Disks /\ e \in Disks /\ t \in Named /\ t \in Items(d) /\ e.fat \in FatTables /\ d.fat \in FatTables
  <2>1. d \in Disks /\ e \in Disks
    BY DEF Sound
  <2> QED
    BY <2>1, TablesOf DEF Items
<1>2. PICK s, c, m : s = Chain(d, t) /\ c = ItemAt(d, t).first /\ m = Len(nums)
  OBVIOUS
<1>3. /\ s \in Seq(Clusters) /\ m \in Nat /\ m >= 1 /\ Len(s) \in Nat /\ Len(s) >= m /\ s # <<>>
      /\ \A i \in 1 .. m : s[i] = nums[i] /\ nums[i] \in Clusters
      /\ ToSet(nums) \subseteq ToSet(s)
  BY <1>2, BehindIs
<1>4. s = retrieve_sectors_fs(d.fat, c)
  BY <1>2 DEF Chain
<1>5. IsChain(d.fat, c, s)
  BY <1>1, <1>3, <1>4, ChainIs
<1>6. PICK q : q = Append(nums, new)
  OBVIOUS
<1>7. q \in Seq(Clusters) /\ ToSet(q) = ToSet(nums) \cup {new}
  BY <1>6, AppendedSet
<1>8. Len(q) = m + 1 /\ q[m + 1] = new /\ \A i \in 1 .. m : q[i] = nums[i]
  BY <1>2, <1>6, AppendProperties
<1>9. \A i \in 1 .. m : nums[i] # new
  <2>1. \A i \in 1 .. m : nums[i] \in ToSet(nums)
    BY <1>2, SetOf
  <2>2. \A x \in ToSet(s) : d.fat[x] # 0
    BY <1>1, <1>4, ChainTaken
  <2> QED
    BY <1>3, <2>1, <2>2
<1>10. \A i, j \in 1 .. m : nums[i] = nums[j] => i = j
  <2>1. \A i, j \in 1 .. Len(s) : s[i] = s[j] => i = j
    BY <1>1, <1>5, ChainOnce
  <2>2. \A i \in 1 .. m : i \in 1 .. Len(s)
    BY <1>3
  <2> QED
    BY <1>3, <2>1, <2>2
<1>11. ASSUME NEW i \in 1 .. m PROVE e.fat[q[i]] = q[i + 1]
  <2>1. CASE i = m
    BY <1>2, <1>3, <1>8, <1>9, <2>1 DEF Hung
  <2>2. CASE i # m
    <3>1. i + 1 \in 1 .. m /\ i \in 1 .. Len(s) - 1 /\ m \in 1 .. m
      BY <1>3, <2>2
    <3>2. d.fat[s[i]] = s[i + 1]
      BY <1>5, <3>1 DEF IsChain
    <3>3. nums[i] # nums[m] /\ nums[i] # new
      BY <1>9, <1>10, <2>2, <3>1
    <3>4. e.fat[nums[i]] = d.fat[nums[i]]
      BY <1>2, <1>3, <3>3 DEF Hung
    <3>5. s[i] = nums[i] /\ s[i + 1] = nums[i + 1]
      BY <1>3, <3>1
    <3>6. q[i] = nums[i] /\ q[i + 1] = nums[i + 1]
      BY <1>8, <3>1
    <3> QED
      BY <3>2, <3>4, <3>5, <3>6
  <2> QED
    BY <2>1, <2>2
<1>12. IsChain(e.fat, c, q)
  <2>1. q[1] = c
    <3>1. 1 \in 1 .. m
      BY <1>3
    <3>2. s[1] = c
      BY <1>5 DEF IsChain
    <3> QED
      BY <1>3, <1>8, <3>1, <3>2
  <2>2. e.fat[new] = EndMark /\ EndMark \in 4088 .. 4095
    BY ClustersAre DEF Hung
  <2>3. \A i \in 1 .. Len(q) - 1 : e.fat[q[i]] = q[i + 1]
    <3>1. Len(q) - 1 = m
      BY <1>3, <1>8
    <3> QED
      BY <1>11, <3>1
  <2>4. q # <<>>
    BY <1>3, <1>8
  <2> QED
    BY <1>7, <1>8, <2>1, <2>2, <2>3, <2>4 DEF IsChain
<1>13. retrieve_sectors_fs(e.fat, c) = q
  BY <1>1, <1>12, ChainFound
<1>14. PICK old, now : old = ToSet(s) /\ now = ToSet(q)
  OBVIOUS
<1>15. q # <<>>
  BY <1>3, <1>8
<1>16. nums[m] \in old /\ nums[m] \in Clusters
  <2>1. m \in 1 .. m
    BY <1>3
  <2>2. nums[m] \in ToSet(nums)
    BY <1>2, <2>1, SetOf
  <2> QED
    BY <1>3, <1>14, <2>1, <2>2
<1>17. \A x \in Clusters : x \notin old /\ x \notin now => e.fat[x] = d.fat[x] /\ e.data[x] = d.data[x]
  BY <1>2, <1>7, <1>14, <1>16 DEF Hung
<1>18. \A x \in now : x \in old \/ d.fat[x] = 0
  BY <1>3, <1>7, <1>14
<1>19. \A x \in old : e.fat[x] # 0
  <2>1. \A x \in old : d.fat[x] # 0 /\ x \in Clusters
    BY <1>1, <1>4, <1>14, ChainTaken
  <2>2. new # 0 /\ EndMark # 0
    BY ClustersAre DEF EndMark
  <2> QED
    BY <2>1, <2>2 DEF Hung
<1>20. e.root = d.root
  BY DEF Hung
<1>21. Moves(d, e, t, List(d, Front(t)), ItemAt(d, t))
  BY <1>1, <1>2, <1>13, <1>14, <1>15, <1>17, <1>18, <1>19, <1>20, FileMoved
<1>22. Touched(d, e, t)
  BY <1>1, <1>21, FileTouched
<1>23. Chain(e, t) = q
  BY <1>2, <1>13, <1>22 DEF Chain, Touched
<1>24. ASSUME Chain(d, t) = nums PROVE Lost(e) \subseteq Lost(d)
  <2>1. ToSet(Clustered(e, ItemAt(d, t))) = now
    BY <1>2, <1>13, <1>14 DEF Clustered
  <2>2. old \subseteq now
    BY <1>2, <1>7, <1>14, <1>24
  <2>3. \A x \in Taken(e) : x \in Taken(d) \/ x \in now
    <3>1. \A x \in Taken(e) : x \in Clusters /\ e.fat[x] # 0
      BY DEF Taken
    <3>2. \A x \in Clusters : x \notin now => e.fat[x] = d.fat[x]
      BY <1>17, <2>2
    <3> QED
      BY <3>1, <3>2 DEF Taken
  <2> QED
    BY <1>1, <1>2, <1>14, <1>21, <2>1, <2>2, <2>3, MoveLost
<1> QED
  BY <1>6, <1>22, <1>23, <1>24

DoneBy(whole, k) == IF k * K < Len(whole) THEN k * K ELSE Len(whole)

(* The parts of a write *)
LEMMA PartLen ==
    ASSUME NEW whole \in Seq(Slots), NEW i \in 1 .. ClusterCount(Len(whole))
    PROVE  /\ i \in Nat /\ (i - 1) * K < Len(whole)
           /\ Len(PartOf(whole, i)) = IF i * K < Len(whole) THEN K ELSE Len(whole) - ((i - 1) * K)
           /\ \A a \in 1 .. Len(PartOf(whole, i)) : PartOf(whole, i)[a] = whole[((i - 1) * K) + a]
           /\ DoneBy(whole, i) = DoneBy(whole, i - 1) + Len(PartOf(whole, i))
           /\ PartOf(whole, i) \in Seq(Slots) /\ Len(PartOf(whole, i)) \in 0 .. K
<1>1. PICK w \in Nat : w = Len(whole)
  BY LenProperties
<1>2. K \in Nat /\ K > 1
  BY Sizes0
<1>3. i \in Nat /\ i >= 1 /\ i <= (w + K - 1) \div K
  <2>1. ClusterCount(w) = (w + K - 1) \div K
    BY DEF ClusterCount
  <2>2. (w + K - 1) \div K \in Int
    BY <1>1, <1>2
  <2> QED
    BY <1>1, <2>1, <2>2
<1>4. PICK b \in Nat : b = (i - 1) * K
  <2>1. i - 1 \in Nat
    BY <1>3
  <2> QED
    BY <1>2, <2>1
<1>5. i * K = b + K
  BY <1>2, <1>3, <1>4
<1>6. b < w
  <2>1. PICK c \in Nat, v \in Nat : c = (w + K - 1) \div K /\ v = w + K - 1 /\ c * K <= v
    <3>1. w + K - 1 \in Nat
      BY <1>1, <1>2
    <3>2. PICK v \in Nat : v = w + K - 1
      BY <3>1
    <3>3. v \div K \in Nat /\ (v \div K) * K <= v
      BY <1>2, <3>2
    <3> QED
      BY <3>2, <3>3
  <2>2. i <= c
    BY <1>3, <2>1
  <2>3. i * K <= c * K
    BY <1>2, <1>3, <2>1, <2>2
  <2> QED
    BY <1>1, <1>2, <1>5, <2>1, <2>3
<1>7. PICK z \in Nat : z = IF b + K < w THEN b + K ELSE w
  BY <1>1, <1>2, <1>4
<1>8. b + 1 <= z + 1 /\ z <= w /\ (z + 1) - (b + 1) = IF b + K < w THEN K ELSE w - b
  <2>1. PICK k \in Nat : k = K /\ k > 1
    BY <1>2
  <2>2. CASE b + k < w
    BY <1>1, <1>4, <1>6, <1>7, <2>1, <2>2
  <2>3. CASE ~ (b + k < w)
    BY <1>1, <1>4, <1>6, <1>7, <2>1, <2>3
  <2> QED
    BY <2>1, <2>2, <2>3
<1>9. PICK p : p = PartOf(whole, i)
  OBVIOUS
<1>10. p = SubSeq(whole, b + 1, z)
  BY <1>1, <1>4, <1>5, <1>7, <1>9 DEF PartOf
<1>11. /\ p \in Seq(Slots) /\ Len(p) = (z + 1) - (b + 1)
       /\ \A a \in 1 .. (z + 1) - (b + 1) : p[a] = whole[((b + 1) + a) - 1]
  <2>1. b + 1 \in Nat /\ 1 <= b + 1 /\ z <= Len(whole)
    <3>1. b + 1 \in Nat /\ 1 <= b + 1
      BY <1>4
    <3> QED
      BY <1>1, <1>8, <3>1
  <2>2. z \in Nat /\ b + 1 <= z + 1
    BY <1>7, <1>8
  <2> QED
    BY <1>10, <2>1, <2>2, Cut
<1>12. \A a \in 1 .. Len(p) : p[a] = whole[b + a]
  <2>1. \A a \in 1 .. Len(p) : ((b + 1) + a) - 1 = b + a
    BY <1>4, <1>11
  <2> QED
    BY <1>11, <2>1
<1>13. Len(p) = (IF b + K < w THEN K ELSE w - b) /\ Len(p) \in 0 .. K
  <2>1. PICK k \in Nat : k = K /\ k > 1
    BY <1>2
  <2>2. Len(p) = IF b + k < w THEN k ELSE w - b
    BY <1>8, <1>11, <2>1
  <2>3. Len(p) \in 0 .. k
    BY <1>1, <1>4, <1>6, <2>1, <2>2
  <2> QED
    BY <2>1, <2>2, <2>3
<1>14. DoneBy(whole, i) = IF b + K < w THEN b + K ELSE w
  BY <1>1, <1>5 DEF DoneBy
<1>15. DoneBy(whole, i - 1) = b
  BY <1>1, <1>4, <1>6 DEF DoneBy
<1>16. DoneBy(whole, i) = DoneBy(whole, i - 1) + Len(p)
  BY <1>1, <1>2, <1>4, <1>13, <1>14, <1>15
<1> QED
  BY <1>1, <1>3, <1>4, <1>5, <1>6, <1>9, <1>11, <1>12, <1>13, <1>16

(* What the clusters of the file hold after k parts *)
Held(d, b, t, nums, sector, whole, k) ==
    \A j \in 1 .. Len(Chain(b, t)), a \in 1 .. K :
       b.data[Chain(b, t)[j]][a] =
          IF j - sector \in 1 .. k /\ a <= Len(PartOf(whole, j - sector)) THEN PartOf(whole, j - sector)[a]
          ELSE IF j <= Len(nums) THEN d.data[nums[j]][a] ELSE Zero

Loop(d, r, t, nums, sector, whole, i) ==
    /\ Touched(d, r.disk, t) /\ Behind(Chain(r.disk, t), nums)
    /\ sector + i <= Len(nums) => Chain(r.disk, t) = nums /\ ~r.full
    /\ sector + i <= Len(nums) + 1 =>
          /\ Lost(r.disk) \subseteq Lost(d)
          /\ \E k \in 0 .. i :
                /\ k = i \/ (sector + i = Len(nums) + 1 /\ k = i - 1)
                /\ sector + k <= Len(Chain(r.disk, t))
                /\ r.done = DoneBy(whole, k)
                /\ Held(d, r.disk, t, nums, sector, whole, k)

Setting(d, t, nums, sector, whole) ==
    /\ d \in Sound /\ Tidy(d) /\ t \in Items(d) \ Folders /\ nums \in Seq(Clusters) /\ nums # <<>>
    /\ Chain(d, t) = nums /\ sector \in Nat /\ sector < Len(nums) /\ whole \in Seq(Slots)

LEMMA LoopStart ==
    ASSUME NEW d, NEW t, NEW nums, NEW sector, NEW whole, Setting(d, t, nums, sector, whole)
    PROVE  Loop(d, StartRun(d), t, nums, sector, whole, 0)
<1>1. PICK r : r = StartRun(d)
  OBVIOUS
<1>2. r.disk = d /\ r.done = 0 /\ ~r.full
  BY <1>1 DEF StartRun
<1>3. Touched(d, d, t)
  BY DEF Setting, Touched, Others
<1>4. Chain(d, t) = nums /\ whole \in Seq(Slots) /\ sector + 0 <= Len(Chain(d, t))
  <2>1. nums \in Seq(Clusters) /\ Chain(d, t) = nums /\ sector \in Nat /\ sector < Len(nums) /\ whole \in Seq(Slots)
    BY DEF Setting
  <2> QED
    BY <2>1, LenProperties
<1>5. DoneBy(whole, 0) = 0
  <2>1. Len(whole) \in Nat /\ 0 * K = 0
    BY <1>4, LenProperties, Sizes0
  <2> QED
    BY <2>1 DEF DoneBy
<1>6. Held(d, d, t, nums, sector, whole, 0)
  BY <1>4 DEF Held
<1>7. Loop(d, r, t, nums, sector, whole, 0)
  BY <1>2, <1>3, <1>4, <1>5, <1>6 DEF Loop, Behind
<1> QED
  BY <1>1, <1>7

(* A part over one of nums *)
LEMMA LoopOver ==
    ASSUME NEW d, NEW t, NEW nums, NEW sector, NEW whole, Setting(d, t, nums, sector, whole),
           NEW r \in Runs, NEW i \in Nat, i + 1 \in 1 .. ClusterCount(Len(whole)),
           Loop(d, r, t, nums, sector, whole, i), sector + (i + 1) <= Len(nums),
           NEW e, e = WritePart(r, nums, sector + (i + 1), PartOf(whole, i + 1))
    PROVE  Loop(d, e, t, nums, sector, whole, i + 1)
<1>1. /\ d \in Sound /\ nums \in Seq(Clusters) /\ Chain(d, t) = nums /\ sector \in Nat /\ whole \in Seq(Slots)
      /\ t \in Items(d) \ Folders /\ Len(nums) \in Nat
  BY LenProperties DEF Setting
<1>2. sector + i <= Len(nums) /\ sector + i <= Len(nums) + 1 /\ sector + i # Len(nums) + 1
  BY <1>1
<1>3. PICK b : b = r.disk
  OBVIOUS
<1>4. /\ Touched(d, b, t) /\ Chain(b, t) = nums /\ ~r.full /\ Lost(b) \subseteq Lost(d)
      /\ r.done = DoneBy(whole, i) /\ Held(d, b, t, nums, sector, whole, i)
  BY <1>2, <1>3 DEF Loop
<1>5. b \in Sound /\ Tidy(b) /\ t \in Items(b) \ Folders
  BY <1>1, <1>4 DEF Touched, Others
<1>6. PICK n \in 1 .. Len(nums) : n = sector + (i + 1)
  BY <1>1
<1>7. PICK c : c = nums[n]
  OBVIOUS
<1>8. c \in ToSet(Chain(b, t)) /\ c \in Clusters
  BY <1>1, <1>4, <1>7, SetOf, ElementOfSeq
<1>9. PICK part : part = PartOf(whole, i + 1)
  OBVIOUS
<1>10. /\ part \in Seq(Slots) /\ Len(part) <= K /\ Len(part) \in Nat
       /\ DoneBy(whole, i + 1) = DoneBy(whole, i) + Len(part)
  <2>1. (i + 1) - 1 = i
    OBVIOUS
  <2>2. PICK x \in 1 .. ClusterCount(Len(whole)) : x = i + 1 /\ x - 1 = i
    BY <2>1
  <2>3. /\ DoneBy(whole, x) = DoneBy(whole, x - 1) + Len(PartOf(whole, x))
        /\ PartOf(whole, x) \in Seq(Slots) /\ Len(PartOf(whole, x)) \in 0 .. K
    BY <1>1, PartLen
  <2> QED
    BY <1>9, <2>2, <2>3, Sizes0
<1>11. PICK f : f = write_to_fs(b, c, part)
  OBVIOUS
<1>12. e = [r EXCEPT !.disk = f, !.done = @ + Len(part)]
  BY <1>1, <1>3, <1>4, <1>6, <1>7, <1>9, <1>11 DEF WritePart, PutPart
<1>13. e.disk = f /\ e.done = r.done + Len(part) /\ e.full = r.full
  BY <1>12 DEF Runs
<1>14. /\ Touched(b, f, t) /\ Chain(f, t) = Chain(b, t) /\ Lost(f) \subseteq Lost(b)
       /\ \A x \in Clusters : x # c => f.data[x] = b.data[x]
       /\ \A a \in 1 .. K : f.data[c][a] = IF a <= Len(part) THEN part[a] ELSE b.data[c][a]
  BY <1>5, <1>8, <1>10, <1>11, PartOver
<1>15. Touched(d, f, t) /\ Chain(f, t) = nums /\ Lost(f) \subseteq Lost(d)
  BY <1>4, <1>14, TouchedOn
<1>16. \A x, y \in 1 .. Len(nums) : nums[x] = nums[y] => x = y
  <2>1. d.fat \in FatTables /\ nums # <<>> /\ nums = retrieve_sectors_fs(d.fat, ItemAt(d, t).first)
    BY <1>1, TablesOf DEF Sound, Setting, Chain
  <2>2. IsChain(d.fat, ItemAt(d, t).first, nums)
    BY <2>1, ChainIs
  <2> QED
    BY <2>1, <2>2, ChainOnce
<1>17. Held(d, f, t, nums, sector, whole, i + 1)
  <2>1. SUFFICES ASSUME NEW j \in 1 .. Len(nums), NEW a \in 1 .. K
        PROVE  f.data[nums[j]][a] =
                  IF j - sector \in 1 .. i + 1 /\ a <= Len(PartOf(whole, j - sector))
                  THEN PartOf(whole, j - sector)[a]
                  ELSE IF j <= Len(nums) THEN d.data[nums[j]][a] ELSE Zero
    BY <1>15 DEF Held
  <2>2. b.data[nums[j]][a] =
           IF j - sector \in 1 .. i /\ a <= Len(PartOf(whole, j - sector))
           THEN PartOf(whole, j - sector)[a]
           ELSE IF j <= Len(nums) THEN d.data[nums[j]][a] ELSE Zero
    BY <1>4 DEF Held
  <2>3. CASE j = n
    <3>1. j - sector = i + 1 /\ j - sector \notin 1 .. i /\ i + 1 \in 1 .. i + 1
      BY <1>1, <1>6, <2>3
    <3>2. f.data[nums[j]][a] = IF a <= Len(part) THEN part[a] ELSE b.data[nums[j]][a]
      BY <1>7, <1>14, <2>3
    <3> QED
      BY <1>9, <2>2, <3>1, <3>2
  <2>4. CASE j # n
    <3>1. j - sector # i + 1 /\ (j - sector \in 1 .. i + 1 <=> j - sector \in 1 .. i)
      BY <1>1, <1>6, <2>4
    <3>2. nums[j] # c /\ nums[j] \in Clusters
      BY <1>1, <1>6, <1>7, <1>16, <2>4, ElementOfSeq
    <3>3. f.data[nums[j]] = b.data[nums[j]]
      BY <1>14, <3>2
    <3> QED
      BY <2>2, <3>1, <3>3
  <2> QED
    BY <2>3, <2>4
<1>18. e.done = DoneBy(whole, i + 1)
  BY <1>4, <1>10, <1>13
<1>19. i + 1 \in 0 .. i + 1 /\ sector + (i + 1) <= Len(Chain(f, t))
  BY <1>15
<1> QED
  BY <1>4, <1>13, <1>15, <1>17, <1>18, <1>19 DEF Loop, Behind

(* The disk after a part went to a new cluster *)
LEMMA NewWritten ==
    ASSUME NEW d \in Sound, Tidy(d), NEW nums, NEW back \in Clusters, back = nums[Len(nums)],
           NEW new \in Clusters, d.fat[new] = 0, NEW part \in Seq(Slots), Len(part) <= K,
           NEW e, e = write_to_fs(SetEntry(SetEntry(d, back, new), new, EndMark), new, part)
    PROVE  /\ e \in Sound /\ Hung(d, e, nums, new)
           /\ \A a \in 1 .. K : e.data[new][a] = IF a <= Len(part) THEN part[a] ELSE Zero
<1>1. EndMark \in Entry /\ new \in Entry /\ d \in Disks
  BY Sizes0 DEF Sound
<1>2. PICK f : f = SetEntry(d, back, new)
  OBVIOUS
<1>3. f \in Sound /\ f.fat = [d.fat EXCEPT ![back] = new] /\ f.data = d.data /\ f.root = d.root
  BY <1>1, <1>2, SetEntryKeeps
<1>4. PICK g : g = SetEntry(f, new, EndMark)
  OBVIOUS
<1>5. g \in Sound /\ g.fat = [f.fat EXCEPT ![new] = EndMark] /\ g.data = f.data /\ g.root = f.root
  BY <1>1, <1>3, <1>4, SetEntryKeeps
<1>6. e = write_to_fs(g, new, part) /\ g \in Disks
  BY <1>2, <1>4, <1>5 DEF Sound
<1>7. /\ e \in Refilled(g) /\ e.root = g.root
      /\ \A x \in Clusters : x # new => e.data[x] = g.data[x]
      /\ \A a \in 1 .. K : e.data[new][a] = IF a <= Len(part) THEN part[a] ELSE g.data[new][a]
  BY <1>6, ClusterWritten
<1>8. e \in Sound /\ e.fat = g.fat
  BY <1>5, <1>7, RefilledKeeps
<1>9. d.fat \in [Ids -> Entry] /\ \A x \in Clusters : x \in Ids
  BY <1>1, TablesOf, ClustersAre DEF FatTables
<1>10. \A x \in Clusters : e.fat[x] = IF x = new THEN EndMark ELSE IF x = nums[Len(nums)] THEN new ELSE d.fat[x]
  BY <1>3, <1>5, <1>8, <1>9
<1>11. Hung(d, e, nums, new)
  BY <1>3, <1>5, <1>7, <1>10 DEF Hung
<1>12. g.data[new] = Blank
  <2>1. new \in Clusters \ Taken(d)
    BY DEF Taken
  <2> QED
    BY <1>3, <1>5, <2>1 DEF Tidy
<1>13. \A a \in 1 .. K : Blank[a] = Zero
  BY BlankSlots
<1> QED
  BY <1>7, <1>8, <1>11, <1>12, <1>13

(* A part to a new cluster *)
LEMMA LoopHung ==
    ASSUME NEW d, NEW t, NEW nums, NEW sector, NEW whole, Setting(d, t, nums, sector, whole),
           NEW r \in Runs, NEW i \in Nat, i + 1 \in 1 .. ClusterCount(Len(whole)),
           Loop(d, r, t, nums, sector, whole, i), ~ (sector + (i + 1) <= Len(nums)), ~r.full,
           NEW new, new = retrieve_free_index(r.disk), new # -1,
           NEW e, e = WritePart(r, nums, sector + (i + 1), PartOf(whole, i + 1))
    PROVE  Loop(d, e, t, nums, sector, whole, i + 1)
<1>1. /\ d \in Sound /\ nums \in Seq(Clusters) /\ Chain(d, t) = nums /\ sector \in Nat /\ whole \in Seq(Slots)
      /\ t \in Items(d) \ Folders /\ Len(nums) \in Nat /\ nums # <<>>
  BY LenProperties DEF Setting
<1>2. PICK b : b = r.disk
  OBVIOUS
<1>3. b \in Sound
  BY <1>2 DEF Runs
<1>4. Touched(d, b, t) /\ Behind(Chain(b, t), nums)
  BY <1>2 DEF Loop
<1>5. Tidy(b) /\ t \in Items(b) \ Folders
  BY <1>1, <1>4 DEF Touched, Others
<1>6. new \in Clusters /\ b.fat[new] = 0
  BY <1>2, <1>3, FreeIndex
<1>7. PICK part : part = PartOf(whole, i + 1)
  OBVIOUS
<1>8. /\ part \in Seq(Slots) /\ Len(part) <= K /\ Len(part) \in Nat
      /\ DoneBy(whole, i + 1) = DoneBy(whole, i) + Len(part)
  <2>1. (i + 1) - 1 = i
    OBVIOUS
  <2>2. PICK x \in 1 .. ClusterCount(Len(whole)) : x = i + 1 /\ x - 1 = i
    BY <2>1
  <2>3. /\ DoneBy(whole, x) = DoneBy(whole, x - 1) + Len(PartOf(whole, x))
        /\ PartOf(whole, x) \in Seq(Slots) /\ Len(PartOf(whole, x)) \in 0 .. K
    BY <1>1, PartLen
  <2> QED
    BY <1>7, <2>2, <2>3, Sizes0
<1>9. PICK back : back = Last(nums)
  OBVIOUS
<1>10. back = nums[Len(nums)] /\ back \in Clusters
  <2>1. Len(nums) >= 1 /\ Len(nums) \in 1 .. Len(nums)
    BY <1>1, EmptySeq, LenProperties
  <2> QED
    BY <1>1, <1>9, <2>1, ElementOfSeq DEF Last
<1>11. PICK f : f = write_to_fs(SetEntry(SetEntry(b, back, new), new, EndMark), new, part)
  OBVIOUS
<1>12. /\ f \in Sound /\ Hung(b, f, nums, new)
       /\ \A a \in 1 .. K : f.data[new][a] = IF a <= Len(part) THEN part[a] ELSE Zero
  BY <1>3, <1>5, <1>6, <1>8, <1>10, <1>11, NewWritten
<1>13. e = [r EXCEPT !.disk = f, !.done = @ + Len(part)]
  BY <1>2, <1>7, <1>9, <1>11 DEF WritePart, PutNew, PutPart
<1>14. e.disk = f /\ e.done = r.done + Len(part) /\ e.full = r.full
  BY <1>13 DEF Runs
<1>15. /\ Touched(b, f, t) /\ Chain(f, t) = Append(nums, new)
       /\ Chain(b, t) = nums => Lost(f) \subseteq Lost(b)
  BY <1>1, <1>3, <1>4, <1>5, <1>6, <1>12, ClusterHung
<1>16. Touched(d, f, t) /\ Behind(Chain(f, t), nums)
  BY <1>4, <1>6, <1>15, TouchedOn DEF Behind
<1>17. ASSUME sector + (i + 1) <= Len(nums) + 1
       PROVE  /\ Lost(f) \subseteq Lost(d)
              /\ e.done = DoneBy(whole, i + 1)
              /\ Held(d, f, t, nums, sector, whole, i + 1) /\ sector + (i + 1) <= Len(Chain(f, t))
  <2>1. sector + i <= Len(nums) /\ sector + i <= Len(nums) + 1 /\ sector + i # Len(nums) + 1
        /\ sector + i = Len(nums)
    BY <1>1, <1>17
  <2>2. /\ Chain(b, t) = nums /\ Lost(b) \subseteq Lost(d)
        /\ r.done = DoneBy(whole, i) /\ Held(d, b, t, nums, sector, whole, i)
    BY <1>2, <2>1 DEF Loop
  <2>3. PICK m \in Nat : m = Len(nums)
    BY <1>1
  <2>4. PICK q : q = Append(nums, new)
    OBVIOUS
  <2>5. Len(q) = m + 1 /\ q[m + 1] = new /\ \A j \in 1 .. m : q[j] = nums[j] /\ nums[j] \in Clusters
    BY <1>1, <1>6, <2>3, <2>4, AppendProperties, ElementOfSeq
  <2>6. \A j \in 1 .. m : nums[j] # new
    <3>1. \A j \in 1 .. m : nums[j] \in ToSet(Chain(b, t))
      BY <1>1, <2>2, <2>3, SetOf
    <3>2. \A x \in ToSet(Chain(b, t)) : b.fat[x] # 0
      BY <1>3, ChainTaken DEF Chain, Sound
    <3> QED
      BY <1>6, <3>1, <3>2
  <2>0. sector + (i + 1) <= Len(Chain(f, t))
    BY <1>1, <1>15, <2>1, <2>3, <2>4, <2>5
  <2>7. SUFFICES ASSUME NEW j \in 1 .. Len(q), NEW a \in 1 .. K
        PROVE  f.data[q[j]][a] =
                  IF j - sector \in 1 .. i + 1 /\ a <= Len(PartOf(whole, j - sector))
                  THEN PartOf(whole, j - sector)[a]
                  ELSE IF j <= Len(nums) THEN d.data[nums[j]][a] ELSE Zero
    BY <1>8, <1>14, <1>15, <2>0, <2>2, <2>4 DEF Held
  <2>8. CASE j = m + 1
    <3>1. j - sector = i + 1 /\ i + 1 \in 1 .. i + 1 /\ ~ (j <= Len(nums))
      BY <1>1, <2>1, <2>3, <2>8
    <3> QED
      BY <1>7, <1>12, <2>5, <2>8, <3>1
  <2>9. CASE j # m + 1
    <3>1. j \in 1 .. m /\ j \in 1 .. Len(Chain(b, t))
      BY <2>2, <2>3, <2>5, <2>9
    <3>2. j - sector # i + 1 /\ (j - sector \in 1 .. i + 1 <=> j - sector \in 1 .. i)
      BY <1>1, <2>1, <2>3, <2>5, <2>9
    <3>3. f.data[q[j]] = b.data[nums[j]]
      BY <1>12, <2>5, <2>6, <3>1 DEF Hung
    <3>4. b.data[nums[j]][a] =
             IF j - sector \in 1 .. i /\ a <= Len(PartOf(whole, j - sector))
             THEN PartOf(whole, j - sector)[a]
             ELSE IF j <= Len(nums) THEN d.data[nums[j]][a] ELSE Zero
      BY <2>2, <3>1 DEF Held
    <3> QED
      BY <3>2, <3>3, <3>4
  <2> QED
    BY <2>8, <2>9
<1>18. i + 1 \in 0 .. i + 1
  OBVIOUS
<1> QED
  BY <1>14, <1>16, <1>17, <1>18 DEF Loop

(* No part when the disk is full *)
LEMMA LoopFull ==
    ASSUME NEW d, NEW t, NEW nums, NEW sector, NEW whole, Setting(d, t, nums, sector, whole),
           NEW r \in Runs, NEW i \in Nat,
           Loop(d, r, t, nums, sector, whole, i), ~ (sector + (i + 1) <= Len(nums)),
           NEW e, e.disk = r.disk, e.done = r.done
    PROVE  Loop(d, e, t, nums, sector, whole, i + 1) \/ (r.full /\ sector + i <= Len(nums))
<1>1. SUFFICES ASSUME ~ (r.full /\ sector + i <= Len(nums))
               PROVE  Loop(d, e, t, nums, sector, whole, i + 1)
  OBVIOUS
<1>2. sector \in Nat /\ Len(nums) \in Nat
  BY LenProperties DEF Setting
<1>3. Touched(d, e.disk, t) /\ Behind(Chain(e.disk, t), nums)
  BY DEF Loop
<1>4. ASSUME sector + (i + 1) <= Len(nums) + 1
      PROVE  /\ Lost(e.disk) \subseteq Lost(d)
             /\ sector + (i + 1) = Len(nums) + 1 /\ i = (i + 1) - 1 /\ i \in 0 .. i + 1
             /\ e.done = DoneBy(whole, i) /\ Held(d, e.disk, t, nums, sector, whole, i)
             /\ sector + i <= Len(Chain(e.disk, t))
  <2>1. sector + i <= Len(nums) + 1 /\ sector + i # Len(nums) + 1
    BY <1>2, <1>4
  <2>2. /\ Lost(e.disk) \subseteq Lost(d)
        /\ \E k \in 0 .. i :
                /\ k = i \/ (sector + i = Len(nums) + 1 /\ k = i - 1)
                /\ sector + k <= Len(Chain(e.disk, t))
                /\ r.done = DoneBy(whole, k)
                /\ Held(d, e.disk, t, nums, sector, whole, k)
    BY <2>1 DEF Loop
  <2>3. e.done = DoneBy(whole, i) /\ Held(d, e.disk, t, nums, sector, whole, i)
        /\ sector + i <= Len(Chain(e.disk, t))
    BY <2>1, <2>2
  <2>4. sector + (i + 1) = Len(nums) + 1 /\ i = (i + 1) - 1 /\ i \in 0 .. i + 1
    BY <1>2, <1>4
  <2> QED
    BY <2>2, <2>3, <2>4
<1> QED
  BY <1>3, <1>4 DEF Loop

LEMMA LoopNext ==
    ASSUME NEW d, NEW t, NEW nums, NEW sector, NEW whole, Setting(d, t, nums, sector, whole),
           NEW r \in Runs, NEW i \in Nat, i + 1 \in 1 .. ClusterCount(Len(whole)),
           Loop(d, r, t, nums, sector, whole, i),
           NEW e, e = WritePart(r, nums, sector + (i + 1), PartOf(whole, i + 1))
    PROVE  Loop(d, e, t, nums, sector, whole, i + 1)
<1>1. CASE sector + (i + 1) <= Len(nums)
  BY <1>1, LoopOver
<1>2. CASE ~ (sector + (i + 1) <= Len(nums)) /\ r.full
  <2>1. e = r
    BY <1>2 DEF WritePart
  <2>2. ~ (sector + i <= Len(nums))
    BY <1>2 DEF Loop
  <2> QED
    BY <1>2, <2>1, <2>2, LoopFull
<1>3. CASE ~ (sector + (i + 1) <= Len(nums)) /\ ~r.full
  <2>1. PICK new : new = retrieve_free_index(r.disk)
    OBVIOUS
  <2>2. CASE new = -1
    <3>1. e = [r EXCEPT !.full = TRUE]
      BY <1>3, <2>1, <2>2 DEF WritePart, PutNew
    <3>2. e.disk = r.disk /\ e.done = r.done
      BY <3>1 DEF Runs
    <3> QED
      BY <1>3, <3>2, LoopFull
  <2>3. CASE new # -1
    BY <1>3, <2>1, <2>3, LoopHung
  <2> QED
    BY <2>2, <2>3
<1> QED
  BY <1>1, <1>2, <1>3

(* The loop of FAT::write *)
LEMMA LoopDone ==
    ASSUME NEW d, NEW t, NEW nums, NEW sector, NEW whole, Setting(d, t, nums, sector, whole),
           NEW r, r = WriteParts(d, nums, sector, whole)
    PROVE  r \in Runs /\ Loop(d, r, t, nums, sector, whole, ClusterCount(Len(whole)))
<1>1. d \in Sound /\ nums \in Seq(Clusters) /\ nums # <<>> /\ sector \in Nat /\ whole \in Seq(Slots)
  BY DEF Setting
<1>2. PICK g, m : WrittenBy(d, nums, sector, whole, m, g)
  BY <1>1, RunsAre
<1>3. /\ m \in Nat /\ m = ClusterCount(Len(whole)) /\ r = g[m] /\ g[0] = StartRun(d)
      /\ \A i \in 0 .. m : g[i] \in Runs
      /\ \A i \in 1 .. m : g[i] = WritePart(g[i - 1], nums, sector + i, PartOf(whole, i))
  BY <1>2 DEF WrittenBy
<1> DEFINE P(n) == Loop(d, g[n], t, nums, sector, whole, n)
           S == {n \in Nat : n <= m => P(n)}
<1>4. 0 \in S
  BY <1>3, LoopStart
<1>5. ASSUME NEW n \in S PROVE n + 1 \in S
  <2>1. SUFFICES ASSUME n + 1 <= m PROVE P(n + 1)
    OBVIOUS
  <2>2. n \in Nat /\ n + 1 \in 1 .. m /\ (n + 1) - 1 = n /\ n \in 0 .. m /\ n <= m
    BY <1>3, <2>1
  <2>3. P(n)
    BY <2>2
  <2>4. PICK f : f = g[n + 1]
    OBVIOUS
  <2>5. PICK b \in Runs : b = g[n]
    BY <1>3, <2>2
  <2>6. f = WritePart(b, nums, sector + (n + 1), PartOf(whole, n + 1))
    BY <1>3, <2>2, <2>4, <2>5
  <2>7. Loop(d, b, t, nums, sector, whole, n)
    BY <2>3, <2>5
  <2>8. n + 1 \in 1 .. ClusterCount(Len(whole))
    BY <1>3, <2>2
  <2>9. Loop(d, f, t, nums, sector, whole, n + 1)
    BY <2>2, <2>6, <2>7, <2>8, LoopNext
  <2> QED
    BY <2>4, <2>9
<1>6. S \in SUBSET Nat
  OBVIOUS
<1> HIDE DEF S
<1>7. S = Nat
  BY <1>4, <1>5, <1>6, NatSet
<1>8. P(m)
  <2>1. m \in S /\ m <= m
    BY <1>3, <1>7
  <2> QED
    BY <2>1 DEF S
<1>9. r \in Runs
  <2>1. m \in 0 .. m
    BY <1>3
  <2> QED
    BY <1>3, <2>1
<1> QED
  BY <1>3, <1>8, <1>9

-----------------------------------------------------------------------------
(* FAT::write, slot by slot                                                *)

LEMMA DivIs ==
    ASSUME NEW v \in Nat, NEW c \in Nat, c * K <= v, v < (c * K) + K
    PROVE  v \div K = c
<1>1. PICK k \in Nat : k = K /\ k > 1
  BY Sizes0
<1>2. v \div k \in Nat /\ (v \div k) * k <= v /\ v < ((v \div k) * k) + k
  BY <1>1
<1>3. PICK p \in Nat : p = v \div k /\ p * k <= v /\ v < (p * k) + k
  BY <1>2
<1>4. c * k <= v /\ v < (c * k) + k
  BY <1>1
<1>5. CASE p < c
  <2>1. (p + 1) * k <= c * k
    BY <1>1, <1>5
  <2>2. (p + 1) * k = (p * k) + k
    BY <1>1
  <2>3. p * k \in Nat /\ c * k \in Nat
    BY <1>1
  <2> QED
    BY <1>1, <1>3, <1>4, <2>1, <2>2, <2>3
<1>6. CASE c < p
  <2>1. (c + 1) * k <= p * k
    BY <1>1, <1>6
  <2>2. (c + 1) * k = (c * k) + k
    BY <1>1
  <2>3. p * k \in Nat /\ c * k \in Nat
    BY <1>1
  <2> QED
    BY <1>1, <1>3, <1>4, <2>1, <2>2, <2>3
<1> QED
  BY <1>1, <1>3, <1>5, <1>6

LEMMA OffsetParts ==
    ASSUME NEW offset \in Nat, NEW n \in Nat
    PROVE  /\ SectorOf(offset) \in Nat /\ offset % K \in 0 .. K - 1
           /\ offset = (SectorOf(offset) * K) + (offset % K)
           /\ ClusterCount(offset + n) = SectorOf(offset) + ClusterCount((offset % K) + n)
           /\ ClusterCount((offset % K) + n) \in Nat
<1>1. PICK k \in Nat : k = K /\ k > 1
  BY Sizes0
<1>2. offset \div k \in Nat /\ offset % k \in 0 .. k - 1 /\ offset = ((offset \div k) * k) + (offset % k)
  BY <1>1
<1>3. PICK s \in Nat, o \in 0 .. k - 1 : s = offset \div k /\ o = offset % k /\ offset = (s * k) + o
  BY <1>2
<1>4. PICK b \in Nat : b = s * k
  BY <1>1
<1>5. PICK v \in Nat : v = (o + n) + k - 1
  BY <1>1
<1>6. v \div k \in Nat /\ (v \div k) * k <= v /\ v < ((v \div k) * k) + k
  BY <1>1
<1>7. PICK c \in Nat : c = v \div k /\ c * k <= v /\ v < (c * k) + k
  BY <1>6
<1>8. PICK z \in Nat : z = c * k /\ z <= v /\ v < z + k
  BY <1>1, <1>7
<1>9. (s + c) * k = b + z
  BY <1>1, <1>4, <1>8
<1>10. (offset + n) + k - 1 = b + v
  BY <1>1, <1>3, <1>4, <1>5
<1>11. (b + v) \div k = s + c
  <2>1. b + v \in Nat /\ s + c \in Nat /\ b + z <= b + v /\ b + v < (b + z) + k
    BY <1>1, <1>4, <1>8
  <2>2. (s + c) * K <= b + v /\ b + v < ((s + c) * K) + K
    BY <1>1, <1>9, <2>1
  <2>3. PICK x \in Nat, w \in Nat : x = s + c /\ w = b + v
    BY <2>1
  <2>4. w \div K = x
    BY <2>2, <2>3, DivIs
  <2> QED
    BY <1>1, <2>3, <2>4
<1>12. ClusterCount(offset + n) = s + c
  BY <1>1, <1>10, <1>11 DEF ClusterCount
<1>13. ClusterCount(o + n) = c
  BY <1>1, <1>5, <1>7 DEF ClusterCount
<1> QED
  BY <1>1, <1>3, <1>12, <1>13 DEF SectorOf

(* Which slots the first k parts of whole fill *)
LEMMA InParts ==
    ASSUME NEW whole \in Seq(Slots), NEW k \in Nat, k <= ClusterCount(Len(whole)),
           ClusterCount(Len(whole)) \in Nat, NEW i \in Int,
           NEW a \in 1 .. K, NEW y \in Int, y = ((i - 1) * K) + a
    PROVE  y \in 1 .. DoneBy(whole, k) <=> i \in 1 .. k /\ a <= Len(PartOf(whole, i))
<1>1. PICK z \in Nat : z = K /\ z > 1
  BY Sizes0
<1>2. PICK w \in Nat : w = Len(whole)
  BY LenProperties
<1>3. PICK b \in Int : b = (i - 1) * z
  BY <1>1
<1>4. y = b + a /\ a \in 1 .. z
  BY <1>1, <1>3
<1>5. PICK e \in Nat : e = k * z
  BY <1>1
<1>6. DoneBy(whole, k) = IF e < w THEN e ELSE w
  BY <1>1, <1>2, <1>5 DEF DoneBy
<1>7. ASSUME y \in 1 .. DoneBy(whole, k) PROVE i \in 1 .. k /\ a <= Len(PartOf(whole, i))
  <2>1. y >= 1 /\ y <= e /\ y <= w
    BY <1>2, <1>5, <1>6, <1>7
  <2>2. i >= 1
    <3>1. SUFFICES ASSUME i <= 0 PROVE FALSE
      OBVIOUS
    <3>2. (i - 1) * z <= (-1) * z
      BY <1>1, <3>1
    <3>3. (-1) * z = -z
      BY <1>1
    <3> QED
      BY <1>1, <1>3, <1>4, <2>1, <3>2, <3>3
  <2>3. i <= k
    <3>1. SUFFICES ASSUME k <= i - 1 PROVE FALSE
      OBVIOUS
    <3>2. k * z <= (i - 1) * z
      BY <1>1, <3>1
    <3> QED
      BY <1>1, <1>3, <1>4, <1>5, <2>1, <3>2
  <2>4. PICK x \in 1 .. ClusterCount(Len(whole)) : x = i
    BY <2>2, <2>3
  <2>5. Len(PartOf(whole, x)) = IF x * K < Len(whole) THEN K ELSE Len(whole) - ((x - 1) * K)
    BY PartLen
  <2>6. Len(PartOf(whole, i)) = IF i * z < w THEN z ELSE w - b
    BY <1>1, <1>2, <1>3, <2>4, <2>5
  <2>7. a <= Len(PartOf(whole, i))
    <3>1. a <= z /\ a <= w - b
      BY <1>1, <1>2, <1>3, <1>4, <2>1
    <3> QED
      BY <2>6, <3>1
  <2> QED
    BY <2>2, <2>3, <2>7
<1>8. ASSUME i \in 1 .. k, a <= Len(PartOf(whole, i)) PROVE y \in 1 .. DoneBy(whole, k)
  <2>1. PICK x \in 1 .. ClusterCount(Len(whole)) : x = i
    BY <1>8
  <2>2. Len(PartOf(whole, x)) = IF x * K < Len(whole) THEN K ELSE Len(whole) - ((x - 1) * K)
    BY PartLen
  <2>3. Len(PartOf(whole, i)) = IF i * z < w THEN z ELSE w - b
    BY <1>1, <1>2, <1>3, <2>1, <2>2
  <2>4. i * z = b + z
    BY <1>1, <1>3
  <2>5. i * z <= k * z
    BY <1>1, <1>8
  <2>6. b >= 0
    BY <1>1, <1>3, <1>8
  <2>7. y <= b + z /\ y >= 1
    BY <1>1, <1>4, <2>6
  <2>8. y <= w
    <3>1. CASE b + z < w
      BY <1>1, <1>2, <1>3, <2>7, <3>1
    <3>2. CASE ~ (b + z < w)
      <4>1. a <= w - b
        BY <1>8, <2>3, <2>4, <3>2
      <4> QED
        BY <1>2, <1>3, <1>4, <4>1
    <3> QED
      BY <3>1, <3>2
  <2>9. y <= e
    BY <1>1, <1>3, <1>5, <2>4, <2>5, <2>7
  <2> QED
    BY <1>2, <1>5, <1>6, <2>7, <2>8, <2>9
<1> QED
  BY <1>7, <1>8

(* The slots that FAT::write writes: the beginning of the first cluster,   *)
(* then the buffer                                                         *)
LEMMA WholeIs ==
    ASSUME NEW d \in Disks, NEW c \in Clusters, NEW o \in 0 .. K - 1, NEW buf \in Seq(Slots),
           NEW whole, whole = SubSeq(d.data[c], 1, o) \o buf
    PROVE  /\ whole \in Seq(Slots) /\ Len(whole) = o + Len(buf)
           /\ \A y \in 1 .. o : whole[y] = d.data[c][y]
           /\ \A y \in o + 1 .. o + Len(buf) : whole[y] = buf[y - o]
<1>1. PICK old \in Seq(Slots) : old = d.data[c] /\ Len(old) = K
  <2>1. d.data[c] \in [1 .. K -> Slots] /\ K \in Nat
    BY TablesOf, Sizes0
  <2> QED
    BY <2>1, Filled
<1>2. PICK n \in Nat : n = Len(buf)
  BY LenProperties
<1>3. o \in 0 .. Len(old) /\ o \in Nat
  BY <1>1, Sizes0
<1>4. PICK u \in Seq(Slots) : u = SubSeq(old, 1, o) /\ Len(u) = o /\ \A i \in 1 .. o : u[i] = old[i]
  BY <1>3, Start
<1>5. whole = u \o buf
  BY <1>1, <1>4
<1>6. whole \in Seq(Slots) /\ Len(whole) = o + n
      /\ \A i \in 1 .. o + n : whole[i] = IF i <= o THEN u[i] ELSE buf[i - o]
  <2>1. u \in Seq(Slots) /\ Len(u) = o
    BY <1>4
  <2>2. /\ u \o buf \in Seq(Slots) /\ Len(u \o buf) = Len(u) + Len(buf)
        /\ \A i \in 1 .. Len(u) + Len(buf) :
              (u \o buf)[i] = IF i <= Len(u) THEN u[i] ELSE buf[i - Len(u)]
    BY <2>1, ConcatProperties
  <2> QED
    BY <1>2, <1>5, <2>1, <2>2
<1>7. ASSUME NEW y \in 1 .. o PROVE whole[y] = d.data[c][y]
  <2>1. y \in 1 .. o + n /\ y <= o
    BY <1>2, <1>3
  <2> QED
    BY <1>1, <1>4, <1>6, <2>1
<1>8. ASSUME NEW y \in o + 1 .. o + n PROVE whole[y] = buf[y - o]
  <2>1. y \in 1 .. o + n /\ ~ (y <= o)
    BY <1>2, <1>3
  <2> QED
    BY <1>6, <2>1
<1> QED
  BY <1>2, <1>6, <1>7, <1>8

(* What a write leaves in the clusters of the file, slot by slot *)
Flat(d, e, t, s, offset, buf, end) ==
    /\ Chain(e, t) \in Seq(Clusters) /\ Len(Chain(e, t)) >= Len(s)
    /\ end \in offset .. offset + Len(buf) /\ end <= Len(Chain(e, t)) * K
    /\ \A x \in 1 .. Len(Chain(e, t)) * K :
          Content(e, Chain(e, t))[x] =
             IF x \in offset + 1 .. end THEN buf[x - offset]
             ELSE IF x <= Len(s) * K THEN Content(d, s)[x] ELSE Zero

Fill(d, e, t, s, offset, buf, whole, k, end) ==
    /\ s \in Seq(Clusters) /\ s # <<>> /\ Behind(Chain(e, t), s)
    /\ SectorOf(offset) < Len(s)
    /\ whole = SubSeq(d.data[s[SectorOf(offset) + 1]], 1, offset % K) \o buf
    /\ k \in Nat /\ k <= ClusterCount(Len(whole)) /\ (k >= 1 \/ Len(whole) = 0)
    /\ SectorOf(offset) + k <= Len(Chain(e, t))
    /\ Held(d, e, t, s, SectorOf(offset), whole, k)
    /\ end = offset + (DoneBy(whole, k) - (offset % K))

LEMMA FlatFrom ==
    ASSUME NEW d \in Disks, NEW e \in Disks, NEW t, NEW s, NEW offset \in Nat, NEW buf \in Seq(Slots),
           NEW whole, NEW k, NEW end, Fill(d, e, t, s, offset, buf, whole, k, end)
    PROVE  Flat(d, e, t, s, offset, buf, end)
<1>1. PICK q, sector, o, n : q = Chain(e, t) /\ sector = SectorOf(offset) /\ o = offset % K /\ n = Len(buf)
  OBVIOUS
<1>2. n \in Nat /\ sector \in Nat /\ o \in 0 .. K - 1 /\ o \in Nat /\ offset = (sector * K) + o
      /\ K \in Nat /\ K > 1
  BY <1>1, LenProperties, OffsetParts, Sizes0
<1>3. /\ s \in Seq(Clusters) /\ s # <<>> /\ Behind(q, s) /\ sector < Len(s)
      /\ whole = SubSeq(d.data[s[sector + 1]], 1, o) \o buf
      /\ k \in Nat /\ k <= ClusterCount(Len(whole)) /\ (k >= 1 \/ Len(whole) = 0)
      /\ sector + k <= Len(q)
      /\ end = offset + (DoneBy(whole, k) - o)
  BY <1>1 DEF Fill
<1>4. /\ q \in Seq(Clusters) /\ Len(s) \in Nat /\ Len(q) \in Nat /\ Len(q) >= Len(s)
      /\ \A j \in 1 .. Len(s) : q[j] = s[j] /\ s[j] \in Clusters
  BY <1>3, BehindIs
<1>5. PICK c \in Clusters : c = s[sector + 1]
  <2>1. sector + 1 \in 1 .. Len(s)
    BY <1>2, <1>3, <1>4
  <2> QED
    BY <1>4, <2>1
<1>6. /\ whole \in Seq(Slots) /\ Len(whole) = o + n
      /\ \A y \in 1 .. o : whole[y] = d.data[c][y]
      /\ \A y \in o + 1 .. o + n : whole[y] = buf[y - o]
  <2>1. whole = SubSeq(d.data[c], 1, o) \o buf
    BY <1>3, <1>5
  <2>2. o \in 0 .. K - 1
    BY <1>2
  <2>3. /\ whole \in Seq(Slots) /\ Len(whole) = o + Len(buf)
        /\ \A y \in 1 .. o : whole[y] = d.data[c][y]
        /\ \A y \in o + 1 .. o + Len(buf) : whole[y] = buf[y - o]
    BY <2>1, <2>2, WholeIs
  <2> QED
    BY <1>1, <2>3
<1>7. ClusterCount(Len(whole)) \in Nat
  BY <1>1, <1>2, <1>6, OffsetParts
<1>17. /\ k \in Nat /\ sector + k <= Len(q) /\ Len(q) \in Nat /\ Len(s) \in Nat /\ sector < Len(s)
       /\ k <= ClusterCount(Len(whole)) /\ sector \in Nat
  BY <1>2, <1>3, <1>4
<1>8. PICK z \in Nat : z = K /\ z > 1
  BY <1>2
<1>9. PICK b \in Nat : b = sector * z
  BY <1>2, <1>8
<1>10. PICK kz \in Nat : kz = k * z /\ (k >= 1 => kz >= z)
  <2>1. k * z \in Nat /\ (k >= 1 => k * z >= z)
    BY <1>3, <1>8
  <2> QED
    BY <2>1
<1>11. DoneBy(whole, k) = IF kz < o + n THEN kz ELSE o + n
  BY <1>6, <1>8, <1>10 DEF DoneBy
<1>12. PICK done \in Nat : done = DoneBy(whole, k) /\ done >= o /\ done <= o + n /\ done <= kz
  <2>1. CASE k >= 1
    BY <1>2, <1>8, <1>10, <1>11, <2>1
  <2>2. CASE ~ (k >= 1)
    <3>1. o + n = 0
      BY <1>3, <1>6, <2>2
    <3> QED
      BY <1>2, <1>10, <1>11, <3>1
  <2> QED
    BY <2>1, <2>2
<1>13. offset = b + o /\ end = b + done
  BY <1>2, <1>3, <1>8, <1>9, <1>12
<1>14. end \in offset .. offset + n
  BY <1>2, <1>9, <1>12, <1>13
<1>15. end <= Len(q) * K
  <2>1. (sector + k) * z <= Len(q) * z
    <3>1. PICK v \in Nat, l \in Nat : v = sector + k /\ l = Len(q) /\ v <= l
      <4>1. sector + k \in Nat /\ Len(q) \in Nat /\ sector + k <= Len(q)
        BY <1>17
      <4> QED
        BY <4>1
    <3>2. v * z <= l * z
      BY <1>8, <3>1
    <3> QED
      BY <3>1, <3>2
  <2>2. (sector + k) * z = b + kz
    BY <1>2, <1>3, <1>8, <1>9, <1>10
  <2>3. Len(q) * z \in Nat
    BY <1>4, <1>8
  <2> QED
    BY <1>8, <1>9, <1>10, <1>12, <1>13, <2>1, <2>2, <2>3
<1>16. ASSUME NEW x \in 1 .. Len(q) * K
       PROVE  Content(e, q)[x] = IF x \in offset + 1 .. end THEN buf[x - offset]
                                 ELSE IF x <= Len(s) * K THEN Content(d, s)[x] ELSE Zero
  <2>1. PICK j \in 1 .. Len(q), a \in 1 .. K : x = ((j - 1) * K) + a
    BY <1>4, SlotParts
  <2>2. Content(e, q)[x] = e.data[q[j]][a]
    BY <1>4, <2>1, ContentAt
  <2>3. PICK i \in Int : i = j - sector
    BY <1>2, <1>4
  <2>4. PICK y \in Int : y = ((i - 1) * K) + a
    BY <1>2, <2>3
  <2>5. x = b + y
    <3>1. (j - 1) * z = b + ((i - 1) * z)
      BY <1>2, <1>4, <1>8, <1>9, <2>3
    <3> QED
      BY <1>2, <1>8, <1>9, <2>1, <2>4, <3>1
  <2>6. y \in 1 .. done <=> i \in 1 .. k /\ a <= Len(PartOf(whole, i))
    <3>1. k \in Nat /\ k <= ClusterCount(Len(whole)) /\ whole \in Seq(Slots)
      BY <1>3, <1>6
    <3>2. y \in 1 .. DoneBy(whole, k) <=> i \in 1 .. k /\ a <= Len(PartOf(whole, i))
      BY <1>7, <2>4, <3>1, InParts
    <3> QED
      BY <1>12, <3>2
  <2>7. e.data[q[j]][a] =
           IF i \in 1 .. k /\ a <= Len(PartOf(whole, i)) THEN PartOf(whole, i)[a]
           ELSE IF j <= Len(s) THEN d.data[s[j]][a] ELSE Zero
    BY <1>1, <2>3 DEF Fill, Held
  <2>8. x <= Len(s) * K <=> j <= Len(s)
    <3>1. ASSUME j <= Len(s) PROVE x <= Len(s) * K
      <4>1. j * z <= Len(s) * z
        BY <1>4, <1>8, <3>1
      <4>2. (j - 1) * z = (j * z) - z
        BY <1>4, <1>8
      <4>3. j * z \in Nat /\ Len(s) * z \in Nat
        BY <1>4, <1>8
      <4> QED
        BY <1>8, <2>1, <4>1, <4>2, <4>3
    <3>2. ASSUME ~ (j <= Len(s)) PROVE ~ (x <= Len(s) * K)
      <4>1. Len(s) * z <= (j - 1) * z
        <5>1. PICK p \in Nat, l \in Nat : p = j - 1 /\ l = Len(s) /\ l <= p
          <6>1. j - 1 \in Nat /\ Len(s) \in Nat /\ Len(s) <= j - 1
            BY <1>17, <3>2
          <6> QED
            BY <6>1
        <5>2. l * z <= p * z
          BY <1>8, <5>1
        <5> QED
          BY <5>1, <5>2
      <4>2. (j - 1) * z \in Int /\ Len(s) * z \in Nat
        BY <1>4, <1>8
      <4> QED
        BY <1>8, <2>1, <4>1, <4>2
    <3> QED
      BY <3>1, <3>2
  <2>9. j <= Len(s) => Content(d, s)[x] = d.data[s[j]][a]
    <3>1. SUFFICES ASSUME j \in 1 .. Len(s) PROVE Content(d, s)[x] = d.data[s[j]][a]
      BY <1>4
    <3> QED
      BY <1>3, <2>1, <3>1, ContentAt
  <2>10. CASE y \in 1 .. done
    <3>1. i \in 1 .. k /\ a <= Len(PartOf(whole, i))
      BY <2>6, <2>10
    <3>2. e.data[q[j]][a] = whole[y]
      <4>1. PICK v \in 1 .. ClusterCount(Len(whole)) : v = i
        <5>1. PICK m \in Nat : m = ClusterCount(Len(whole)) /\ k <= m
          BY <1>7, <1>17
        <5>2. i \in 1 .. m
          BY <1>17, <3>1, <5>1
        <5> QED
          BY <5>1, <5>2
      <4>2. /\ \A w \in 1 .. Len(PartOf(whole, v)) : PartOf(whole, v)[w] = whole[((v - 1) * K) + w]
            /\ Len(PartOf(whole, v)) \in 0 .. K
        BY <1>6, PartLen
      <4>3. a \in 1 .. Len(PartOf(whole, v))
        BY <1>2, <3>1, <4>1, <4>2
      <4>4. PartOf(whole, v)[a] = whole[((v - 1) * K) + a]
        BY <4>2, <4>3
      <4>5. PartOf(whole, i)[a] = whole[y]
        BY <2>4, <4>1, <4>4
      <4> QED
        BY <2>7, <3>1, <4>5
    <3>3. CASE y <= o
      <4>1. x \notin offset + 1 .. end
        BY <1>2, <1>9, <1>13, <2>4, <2>5, <3>3
      <4>2. i = 1
        <5>1. SUFFICES ASSUME i >= 2 PROVE FALSE
          BY <3>1
        <5>2. (i - 1) * z >= z
          BY <1>8, <2>3, <5>1
        <5>3. (i - 1) * z \in Int
          BY <1>8, <2>3
        <5> QED
          BY <1>2, <1>8, <2>4, <3>3, <5>2, <5>3
      <4>3. j = sector + 1 /\ y = a
        <5>1. (i - 1) * K = 0
          BY <1>2, <4>2
        <5> QED
          BY <1>2, <1>4, <2>3, <2>4, <4>2, <5>1
      <4>4. whole[y] = d.data[s[j]][a]
        BY <1>5, <1>6, <2>10, <3>3, <4>3
      <4>5. j <= Len(s)
        BY <1>2, <1>3, <1>4, <4>3
      <4> QED
        BY <2>2, <2>8, <2>9, <3>2, <4>1, <4>4, <4>5
    <3>4. CASE ~ (y <= o)
      <4>1. x \in offset + 1 .. end /\ x - offset = y - o
        <5>1. y \in Int /\ y <= done /\ y > o /\ o \in Nat /\ b \in Nat /\ done \in Nat
          BY <1>2, <1>9, <1>12, <2>4, <2>10, <3>4
        <5>2. x = b + y /\ offset = b + o /\ end = b + done
          BY <1>13, <2>5
        <5> QED
          BY <5>1, <5>2
      <4>2. whole[y] = buf[y - o]
        <5>1. y \in o + 1 .. o + n
          BY <1>2, <1>12, <2>4, <2>10, <3>4
        <5> QED
          BY <1>6, <5>1
      <4> QED
        BY <2>2, <3>2, <4>1, <4>2
    <3> QED
      BY <3>3, <3>4
  <2>11. CASE y \notin 1 .. done
    <3>1. x \notin offset + 1 .. end
      BY <1>2, <1>9, <1>12, <1>13, <2>4, <2>5, <2>11
    <3>2. e.data[q[j]][a] = IF j <= Len(s) THEN d.data[s[j]][a] ELSE Zero
      BY <2>6, <2>7, <2>11
    <3> QED
      BY <2>2, <2>8, <2>9, <3>1, <3>2
  <2> QED
    BY <2>10, <2>11
<1> QED
  BY <1>1, <1>4, <1>14, <1>15, <1>16 DEF Flat

LEMMA FlatKept ==
    ASSUME NEW d \in Disks, NEW e \in Disks, NEW f \in Disks, NEW t, NEW s, NEW offset, NEW buf, NEW end,
           Flat(d, e, t, s, offset, buf, end), Chain(f, t) = Chain(e, t),
           \A x \in ToSet(Chain(e, t)) : f.data[x] = e.data[x]
    PROVE  Flat(d, f, t, s, offset, buf, end)
<1>1. Chain(e, t) \in Seq(Clusters)
  BY DEF Flat
<1>2. \A i \in 1 .. Len(Chain(e, t)) : f.data[Chain(e, t)[i]] = e.data[Chain(e, t)[i]]
  BY <1>1, SetOf
<1>3. Content(f, Chain(f, t)) = Content(e, Chain(e, t))
  BY <1>1, <1>2, ContentSame
<1> QED
  BY <1>3 DEF Flat

LEMMA SaveTouched ==
    ASSUME NEW d \in Sound, Tidy(d), NEW t \in Items(d) \ Folders, NEW e, e = save_fat(d)
    PROVE  /\ Touched(d, e, t) /\ Chain(e, t) = Chain(d, t) /\ Lost(e) \subseteq Lost(d)
           /\ e.data = d.data
<1>1. d \in Disks /\ t \in Named /\ t \in Items(d)
  BY DEF Sound, Items
<1>2. e \in Sound /\ e.fat = d.fat /\ e.data = d.data /\ e.root = d.root
  BY SaveKeeps
<1>3. e \in Disks
  BY <1>2 DEF Sound
<1>4. PICK old : old = ToSet(Chain(d, t)) /\ old = ToSet(retrieve_sectors_fs(e.fat, ItemAt(d, t).first))
  BY <1>2 DEF Chain
<1>5. retrieve_sectors_fs(e.fat, ItemAt(d, t).first) # <<>>
  BY <1>2 DEF Tidy, Chain
<1>6. \A x \in old : e.fat[x] # 0
  BY <1>1, <1>2, <1>4, ChainTaken DEF Chain
<1>7. Moves(d, e, t, List(d, Front(t)), ItemAt(d, t))
  BY <1>1, <1>2, <1>3, <1>4, <1>5, <1>6, FileMoved
<1>8. Touched(d, e, t)
  BY <1>1, <1>2, <1>7, FileTouched
<1>9. Chain(e, t) = Chain(d, t)
  BY <1>2, <1>8 DEF Chain, Touched
<1>10. Lost(e) \subseteq Lost(d)
  <2>1. Taken(e) = Taken(d)
    BY <1>2 DEF Taken
  <2>2. ToSet(Clustered(e, ItemAt(d, t))) = ToSet(Chain(d, t))
    BY <1>2 DEF Clustered, Chain
  <2> QED
    BY <1>1, <1>3, <1>7, <2>1, <2>2, MoveLost
<1> QED
  BY <1>2, <1>8, <1>9, <1>10

(* A write to the file t whose clusters were s *)
Wrote(d, w, t, s, offset, buf) ==
    /\ Others(d, w.disk, t) /\ t \in Items(w.disk)
    /\ ItemAt(w.disk, t).first = ItemAt(d, t).first
    /\ ItemAt(w.disk, t).size \in {ItemAt(d, t).size, w.size}
    /\ ClusterCount(offset + Len(buf)) <= Len(s) + 1 =>
          Lost(w.disk) \subseteq Lost(d) /\ Flat(d, w.disk, t, s, offset, buf, w.size)

(* The end of FAT::write: the table is saved and the entry gets its size. *)
LEMMA EndWrote ==
    ASSUME NEW d \in Sound, NEW t \in Items(d) \ Folders, NEW s, NEW offset \in Nat,
           NEW buf \in Seq(Slots), NEW r \in Runs, Touched(d, r.disk, t),
           NEW f, f.path = t, NEW w, w = WriteEnd(f, offset, r), w.size \in 0 .. W - 1,
           ClusterCount(offset + Len(buf)) <= Len(s) + 1 =>
              Lost(r.disk) \subseteq Lost(d) /\ Flat(d, r.disk, t, s, offset, buf, w.size)
    PROVE  Wrote(d, w, t, s, offset, buf)
<1>1. PICK b : b = r.disk
  OBVIOUS
<1>2. b \in Sound /\ b \in Disks /\ Tidy(b) /\ t \in Items(b) \ Folders /\ d \in Disks
  BY <1>1 DEF Touched, Others, Sound
<1>3. PICK g : g = save_fat(b)
  OBVIOUS
<1>4. /\ Touched(b, g, t) /\ Chain(g, t) = Chain(b, t) /\ Lost(g) \subseteq Lost(b)
      /\ g.data = b.data
  BY <1>2, <1>3, SaveTouched
<1>5. g \in Disks /\ Tidy(g) /\ t \in Items(g) \ Folders /\ Touched(d, g, t)
  BY <1>1, <1>2, <1>4, TouchedOn DEF Touched, Others, Sound
<1>6. ItemAt(g, t) = ItemAt(d, t) /\ Others(d, g, t)
  BY <1>5 DEF Touched
<1>7. PICK e, size : e = w.disk /\ size = w.size
  OBVIOUS
<1>8. e = IF size = f.size THEN g ELSE update_file_size(g, t, size)
  BY <1>1, <1>3, <1>7 DEF WriteEnd
<1>9. CASE e = g
  <2>1. Flat(d, b, t, s, offset, buf, size) => Flat(d, g, t, s, offset, buf, size)
    BY <1>2, <1>4, <1>5, FlatKept
  <2> QED
    BY <1>1, <1>4, <1>5, <1>6, <1>7, <1>9, <2>1 DEF Wrote
<1>10. CASE e # g
  <2>1. e = update_file_size(g, t, size) /\ size \in 0 .. W - 1
    BY <1>7, <1>8, <1>10
  <2>2. PICK slot : slot = [ItemAt(g, t) EXCEPT !.size = size]
    OBVIOUS
  <2>3. Entered(g, e, t, slot)
    BY <1>5, <2>1, <2>2, SizeDone
  <2>4. /\ e \in Refilled(g) /\ Others(g, e, t) /\ Lost(e) \subseteq Lost(g)
        /\ t \in Items(e) /\ ItemAt(e, t) = slot /\ Chain(e, t) = Chain(g, t)
        /\ \A x \in ToSet(Chain(g, t)) : e.data[x] = g.data[x]
    BY <2>3 DEF Entered
  <2>5. slot.first = ItemAt(d, t).first /\ slot.size = size
    <3>1. ItemAt(g, t) \in Slots
      BY <1>5, EntrySlot
    <3> QED
      BY <1>6, <2>2, <3>1 DEF Slots
  <2>6. e \in Disks
    BY <2>4, RefilledKeeps
  <2>7. Flat(d, b, t, s, offset, buf, size) => Flat(d, e, t, s, offset, buf, size)
    <3>1. \A x \in ToSet(Chain(b, t)) : e.data[x] = b.data[x]
      BY <1>4, <2>4
    <3>2. Chain(e, t) = Chain(b, t)
      BY <1>4, <2>4
    <3> QED
      BY <1>2, <2>6, <3>1, <3>2, FlatKept
  <2>8. Others(d, e, t)
    BY <1>6, <2>4, OthersOn
  <2> QED
    BY <1>1, <1>4, <1>7, <2>4, <2>5, <2>7, <2>8 DEF Wrote
<1> QED
  BY <1>9, <1>10

HasLen(u, n) == u \in Seq(Slots) /\ Len(u) = n
LEMMA WholeLen ==
    ASSUME NEW d \in Disks, NEW c \in Clusters, NEW o \in 0 .. K - 1, NEW buf \in Seq(Slots),
           NEW whole, whole = SubSeq(d.data[c], 1, o) \o buf
    PROVE  HasLen(whole, o + Len(buf))
BY WholeIs DEF HasLen

LEMMA WroteInto ==
    ASSUME NEW d \in Sound, Tidy(d), NEW t \in Items(d) \ Folders, NEW s, s = Chain(d, t),
           NEW offset \in Nat, NEW buf \in Seq(Slots), offset + Len(buf) < W,
           NEW sector, sector = SectorOf(offset), sector < Len(s),
           NEW f, f.path = t, NEW w, w = WriteInto(d, f, offset, buf, s, sector)
    PROVE  Wrote(d, w, t, s, offset, buf)
<1>1. d \in Disks /\ s \in Seq(Clusters) /\ s # <<>> /\ Len(s) \in Nat
  BY ChainOf, LenProperties DEF Sound, Tidy, Chain
<1>2. PICK o, n : o = offset % K /\ n = Len(buf)
  OBVIOUS
<1>3. /\ n \in Nat /\ sector \in Nat /\ o \in 0 .. K - 1 /\ o \in Nat /\ K \in Nat
      /\ ClusterCount(offset + n) = sector + ClusterCount(o + n) /\ ClusterCount(o + n) \in Nat
  BY <1>2, LenProperties, OffsetParts, Sizes0
<1>4. sector + 1 \in 1 .. Len(s)
  BY <1>1, <1>3
<1>5. PICK c \in Clusters : c = s[sector + 1]
  BY <1>1, <1>4, ElementOfSeq
<1>6. PICK whole : whole = SubSeq(d.data[c], 1, o) \o buf
  OBVIOUS
<1>7. whole \in Seq(Slots) /\ Len(whole) = o + n
  <2>1. o \in 0 .. K - 1
    BY <1>3
  <2>2. d \in Disks
    BY <1>1
  <2>4. whole = SubSeq(d.data[c], 1, o) \o buf
    BY <1>6
  <2>5. c \in Clusters
    BY <1>5
  <2>3. HasLen(whole, o + Len(buf))
    BY <2>1, <2>2, <2>4, <2>5, WholeLen
  <2> QED
    BY <1>2, <2>3 DEF HasLen
<1>8. PICK r, m : r = WriteParts(d, s, sector, whole) /\ m = ClusterCount(Len(whole))
  OBVIOUS
<1>9. Setting(d, t, s, sector, whole)
  BY <1>1, <1>3, <1>7 DEF Setting
<1>10. r \in Runs /\ Loop(d, r, t, s, sector, whole, m)
  BY <1>8, <1>9, LoopDone
<1>11. w = WriteEnd(f, offset, r)
  BY <1>2, <1>5, <1>6, <1>8 DEF WriteInto
<1>12. w.size \in 0 .. W - 1
  <2>1. Written(WriteInto(d, f, offset, buf, s, sector))
    BY <1>1, <1>3, <1>4, WriteIntoKeeps
  <2> QED
    BY <2>1 DEF Written
<1>13. Touched(d, r.disk, t)
  BY <1>10 DEF Loop
<1>14. ASSUME ClusterCount(offset + Len(buf)) <= Len(s) + 1
       PROVE  Lost(r.disk) \subseteq Lost(d) /\ Flat(d, r.disk, t, s, offset, buf, w.size)
  <2>1. m \in Nat /\ sector + m <= Len(s) + 1 /\ m = ClusterCount(o + n)
    BY <1>2, <1>3, <1>7, <1>8, <1>14
  <2>2. PICK k \in 0 .. m :
                /\ k = m \/ (sector + m = Len(s) + 1 /\ k = m - 1)
                /\ sector + k <= Len(Chain(r.disk, t))
                /\ r.done = DoneBy(whole, k)
                /\ Held(d, r.disk, t, s, sector, whole, k)
    BY <1>10, <2>1 DEF Loop
  <2>3. k \in Nat /\ k <= m
    BY <2>1, <2>2
  <2>4. k >= 1 \/ Len(whole) = 0
    <3>1. CASE m = 0
      <4>1. o + n = 0
        <5>1. SUFFICES ASSUME o + n >= 1 PROVE FALSE
          BY <1>3
        <5>2. PICK v \in Nat : v = (o + n) + K - 1 /\ K <= v
          BY <1>3, <5>1
        <5>3. v \div K = 0
          BY <2>1, <3>1, <5>2 DEF ClusterCount
        <5>4. PICK z \in Nat : z = K /\ z > 1
          BY Sizes0
        <5>5. v < ((v \div z) * z) + z
          BY <5>4
        <5> QED
          BY <5>2, <5>3, <5>4, <5>5
      <4> QED
        BY <1>7, <4>1
    <3>2. CASE m # 0
      <4>1. k = m \/ (sector + m = Len(s) + 1 /\ k = m - 1)
        BY <2>2
      <4>2. PICK l \in Nat : l = Len(s)
        BY <1>1
      <4>3. sector < l /\ sector \in Nat /\ m \in Nat /\ m # 0
        BY <1>3, <2>1, <3>2, <4>2
      <4>4. k = m \/ (sector + m = l + 1 /\ k = m - 1)
        BY <4>1, <4>2
      <4>5. k >= 1
        BY <4>3, <4>4
      <4> QED
        BY <4>5
    <3> QED
      BY <3>1, <3>2
  <2>5. w.size = offset + (DoneBy(whole, k) - (offset % K))
    BY <1>11, <2>2 DEF WriteEnd
  <2>6. whole = SubSeq(d.data[s[SectorOf(offset) + 1]], 1, offset % K) \o buf
    BY <1>2, <1>5, <1>6
  <2>7. Behind(Chain(r.disk, t), s)
    BY <1>10 DEF Loop
  <2>8. Fill(d, r.disk, t, s, offset, buf, whole, k, w.size)
    BY <1>1, <1>8, <2>2, <2>3, <2>4, <2>5, <2>6, <2>7 DEF Fill
  <2>9. r.disk \in Disks
    BY <1>10 DEF Runs, Sound
  <2>10. Flat(d, r.disk, t, s, offset, buf, w.size)
    BY <1>1, <2>8, <2>9, FlatFrom
  <2>11. Lost(r.disk) \subseteq Lost(d)
    BY <1>10, <2>1 DEF Loop
  <2> QED
    BY <2>10, <2>11
<1> QED
  BY <1>10, <1>11, <1>12, <1>13, <1>14, EndWrote

(* aloc_cluster for a file *)
Joins(d, e, t, s, g) ==
    /\ Touched(d, e, t) /\ Chain(e, t) = Append(s, g) /\ Lost(e) \subseteq Lost(d)
    /\ g \in Clusters /\ e.data = d.data /\ d.data[g] = Blank

LEMMA ClusterJoined ==
    ASSUME NEW d \in Sound, Tidy(d), NEW t \in Items(d) \ Folders, NEW s, s = Chain(d, t),
           NEW c, c = ItemAt(d, t).first,
           NEW e, e = aloc_cluster(d, c).disk, NEW g, g = aloc_cluster(d, c).new, g # -1
    PROVE  Joins(d, e, t, s, g)
<1>1. d \in Disks /\ s # <<>> /\ s = retrieve_sectors_fs(d.fat, c) /\ d.fat \in FatTables
  <2>1. d \in Disks /\ s # <<>> /\ s = retrieve_sectors_fs(d.fat, c)
    BY DEF Sound, Tidy, Chain
  <2> QED
    BY <2>1, TablesOf
<1>2. s \in Seq(Clusters) /\ Len(s) \in Nat /\ Len(s) >= 1 /\ Last(s) = s[Len(s)] /\ s[Len(s)] \in Clusters
  <2>1. s \in Seq(Clusters) /\ Len(s) \in 1 .. N - 2 /\ Last(s) \in Clusters
    BY <1>1, ChainType
  <2>2. Last(s) = s[Len(s)]
    BY DEF Last
  <2> QED
    BY <2>1, <2>2
<1>3. g = retrieve_free_index(d)
  BY DEF aloc_cluster, AlocBehind
<1>4. g \in Clusters /\ d.fat[g] = 0
  BY <1>3, FreeIndex
<1>5. e = save_fat(SetEntry(SetEntry(d, g, EndMark), s[Len(s)], g))
  BY <1>1, <1>2, <1>3 DEF aloc_cluster, AlocBehind
<1>6. /\ e \in Sound /\ e.fat = [d.fat EXCEPT ![g] = EndMark, ![s[Len(s)]] = g]
      /\ e.data = d.data /\ e.root = d.root
  <2>1. EndMark \in Entry /\ g \in Entry
    BY <1>4, Sizes0
  <2>2. PICK f : f = SetEntry(d, g, EndMark)
    OBVIOUS
  <2>3. f \in Sound /\ f.fat = [d.fat EXCEPT ![g] = EndMark] /\ f.data = d.data /\ f.root = d.root
    BY <1>4, <2>1, <2>2, SetEntryKeeps
  <2>4. PICK h : h = SetEntry(f, s[Len(s)], g)
    OBVIOUS
  <2>5. h \in Sound /\ h.fat = [f.fat EXCEPT ![s[Len(s)]] = g] /\ h.data = f.data /\ h.root = f.root
    BY <1>2, <2>1, <2>3, <2>4, SetEntryKeeps
  <2>6. e = save_fat(h)
    BY <1>5, <2>2, <2>4
  <2>7. e \in Sound /\ e.fat = h.fat /\ e.data = h.data /\ e.root = h.root
    BY <2>5, <2>6, SaveKeeps
  <2> QED
    BY <2>3, <2>5, <2>7
<1>7. s[Len(s)] # g
  <2>1. s[Len(s)] \in ToSet(s)
    BY <1>2, SetOf
  <2>2. d.fat[s[Len(s)]] # 0
    BY <1>1, <2>1, ChainTaken
  <2> QED
    BY <1>4, <2>2
<1>8. d.fat \in [Ids -> Entry] /\ \A x \in Clusters : x \in Ids
  BY <1>1, ClustersAre DEF FatTables
<1>9. Hung(d, e, s, g)
  <2>1. \A x \in Clusters : e.fat[x] = IF x = g THEN EndMark ELSE IF x = s[Len(s)] THEN g ELSE d.fat[x]
    BY <1>2, <1>4, <1>6, <1>7, <1>8
  <2> QED
    BY <1>6, <2>1 DEF Hung
<1>10. Behind(Chain(d, t), s)
  BY DEF Behind
<1>11. Touched(d, e, t) /\ Chain(e, t) = Append(s, g) /\ Lost(e) \subseteq Lost(d)
  <2>1. s \in Seq(Clusters) /\ s # <<>> /\ g \in Clusters /\ d.fat[g] = 0 /\ e \in Sound
    BY <1>1, <1>2, <1>4, <1>6
  <2>2. /\ Touched(d, e, t) /\ Chain(e, t) = Append(s, g)
        /\ Chain(d, t) = s => Lost(e) \subseteq Lost(d)
    BY <1>9, <1>10, <2>1, ClusterHung
  <2> QED
    BY <2>2
<1>12. d.data[g] = Blank
  BY <1>4 DEF Tidy, Taken
<1> QED
  BY <1>4, <1>6, <1>11, <1>12 DEF Joins

LEMMA FlatOver ==
    ASSUME NEW d \in Disks, NEW e \in Disks, NEW f \in Disks, NEW t, NEW s \in Seq(Clusters),
           NEW g \in Clusters, e.data = d.data, d.data[g] = Blank,
           NEW q, q = Append(s, g), NEW offset, NEW buf, NEW end, Flat(e, f, t, q, offset, buf, end)
    PROVE  Flat(d, f, t, s, offset, buf, end)
<1>1. PICK m, l, z \in Nat : m = Len(s) /\ z = K /\ l = Len(q) /\ l = m + 1
  BY Sizes0, AppendProperties, LenProperties
<1>2. Longer(d, e, s, q, g, m)
  <2>1. \A i \in 1 .. Len(s) : e.data[s[i]] = d.data[s[i]]
    OBVIOUS
  <2> QED
    BY <1>1, <2>1, ContentGrown
<1>3. PICK mk \in Nat : mk = m * z
  BY <1>1
<1>4. l * z = mk + z
  BY <1>1, <1>3
<1>5. PICK u, v : u = Content(d, s) /\ v = Content(e, q)
  OBVIOUS
<1>6. \A i \in 1 .. mk : v[i] = u[i]
  BY <1>1, <1>2, <1>3, <1>5 DEF Longer
<1>7. \A i \in 1 .. z : v[mk + i] = Zero
  <2>1. \A i \in 1 .. z : v[mk + i] = e.data[g][i]
    BY <1>1, <1>2, <1>3, <1>5 DEF Longer
  <2> QED
    BY <1>1, <2>1, BlankSlots
<1>8. PICK r, b, top : r = Chain(f, t) /\ b = Content(f, r) /\ top = Len(r) * K
  OBVIOUS
<1>9. /\ r \in Seq(Clusters) /\ Len(r) >= l /\ end \in offset .. offset + Len(buf) /\ end <= top
      /\ \A x \in 1 .. top : b[x] = IF x \in offset + 1 .. end THEN buf[x - offset]
                                     ELSE IF x <= mk + z THEN v[x] ELSE Zero
  <2>1. /\ Chain(f, t) \in Seq(Clusters) /\ Len(Chain(f, t)) >= Len(q)
        /\ end \in offset .. offset + Len(buf) /\ end <= Len(Chain(f, t)) * K
        /\ \A x \in 1 .. Len(Chain(f, t)) * K :
              Content(f, Chain(f, t))[x] =
                 IF x \in offset + 1 .. end THEN buf[x - offset]
                 ELSE IF x <= Len(q) * K THEN Content(e, q)[x] ELSE Zero
    BY DEF Flat
  <2>2. Len(q) * K = mk + z
    BY <1>1, <1>4
  <2> QED
    BY <1>1, <1>5, <1>8, <2>1, <2>2
<1>10. ASSUME NEW x \in 1 .. top
       PROVE  b[x] = IF x \in offset + 1 .. end THEN buf[x - offset] ELSE IF x <= mk THEN u[x] ELSE Zero
  <2>1. b[x] = IF x \in offset + 1 .. end THEN buf[x - offset] ELSE IF x <= mk + z THEN v[x] ELSE Zero
    BY <1>9
  <2>2. x <= mk => v[x] = u[x]
    BY <1>6
  <2>3. ASSUME ~ (x <= mk), x <= mk + z PROVE v[x] = Zero
    <3>1. PICK i \in 1 .. z : x = mk + i
      <4>1. x - mk \in 1 .. z /\ x = mk + (x - mk)
        BY <2>3
      <4> QED
        BY <4>1
    <3> QED
      BY <1>7, <3>1
  <2>4. x <= mk => x <= mk + z
    BY <1>1
  <2> QED
    BY <2>1, <2>2, <2>3, <2>4
<1>11. Len(r) >= Len(s) /\ Len(s) * K = mk
  <2>1. Len(r) \in Nat
    BY <1>9, LenProperties
  <2> QED
    BY <1>1, <1>3, <1>9, <2>1
<1> QED
  BY <1>5, <1>8, <1>9, <1>10, <1>11 DEF Flat

ShortOf(n, offset) == n \in Nat /\ n + (N * K) <= W /\ offset \in 0 .. W - 1

(* Room for a buffer behind an offset in one of the clusters of a file *)
LEMMA OffsetShort ==
    ASSUME NEW n, NEW offset, ShortOf(n, offset), SectorOf(offset) <= N - 2
    PROVE  offset \in Nat /\ SectorOf(offset) \in Nat /\ offset + n < W
<1>1. /\ K \in Nat /\ K > 1 /\ N \in Nat /\ N > 2 /\ W \in Nat /\ n \in Nat /\ offset \in Nat
  BY Sizes0 DEF ShortOf
<1>2. PICK sector \in Nat : sector = SectorOf(offset) /\ offset < (sector * K) + K
  <2>1. offset \div K \in Nat /\ offset < ((offset \div K) * K) + K
    BY <1>1
  <2> QED
    BY <2>1 DEF SectorOf
<1>3. PICK a, b \in Nat : a = sector * K /\ b = N * K
  BY <1>1
<1>4. a + K <= b
  <2>1. sector + 1 <= N
    BY <1>1, <1>2
  <2>2. (sector + 1) * K <= N * K
    BY <1>1, <2>1
  <2> QED
    BY <1>1, <1>3, <2>2
<1>5. n + b <= W /\ offset < a + K
  BY <1>2, <1>3 DEF ShortOf
<1>6. offset + n < W
  <2>1. offset < b
    BY <1>1, <1>4, <1>5
  <2> QED
    BY <1>1, <1>5, <2>1
<1> QED
  BY <1>1, <1>2, <1>6

(* A write whose first part goes into the cluster that aloc_cluster has hung *)
(* behind the file *)
LEMMA WroteGrown ==
    ASSUME NEW d \in Sound, Tidy(d), NEW t \in Items(d) \ Folders, NEW s, s = Chain(d, t),
           NEW offset \in Nat, NEW buf \in Seq(Slots), offset + Len(buf) < W,
           NEW sector, sector = SectorOf(offset), sector \in Nat, sector <= Len(s),
           NEW e, NEW g, Joins(d, e, t, s, g), NEW q, q = Append(s, g),
           NEW f, f.path = t, NEW w, w = WriteInto(e, f, offset, buf, q, sector)
    PROVE  Wrote(d, w, t, s, offset, buf)
<1>1. /\ Touched(d, e, t) /\ Chain(e, t) = q /\ Lost(e) \subseteq Lost(d)
      /\ g \in Clusters /\ e.data = d.data /\ d.data[g] = Blank
  BY DEF Joins
<1>2. /\ e \in Sound /\ Tidy(e) /\ t \in Items(e) \ Folders /\ Others(d, e, t)
      /\ ItemAt(e, t) = ItemAt(d, t)
  BY <1>1 DEF Touched, Others
<1>3. d \in Disks /\ e \in Disks /\ s \in Seq(Clusters)
  BY <1>2, ChainOf DEF Sound, Chain
<1>4. PICK m, l \in Nat : m = Len(s) /\ l = Len(q) /\ l = m + 1
  BY <1>1, <1>3, AppendProperties, LenProperties
<1>5. sector < Len(q)
  BY <1>4
<1>6. Wrote(e, w, t, q, offset, buf)
  BY <1>1, <1>2, <1>5, WroteInto
<1>7. /\ Others(e, w.disk, t) /\ t \in Items(w.disk)
      /\ ItemAt(w.disk, t).first = ItemAt(d, t).first
      /\ ItemAt(w.disk, t).size \in {ItemAt(d, t).size, w.size}
  BY <1>2, <1>6 DEF Wrote
<1>8. Others(d, w.disk, t)
  BY <1>2, <1>7, OthersOn
<1>9. ASSUME ClusterCount(offset + Len(buf)) <= Len(s) + 1
      PROVE  Lost(w.disk) \subseteq Lost(d) /\ Flat(d, w.disk, t, s, offset, buf, w.size)
  <2>1. PICK k : k = ClusterCount(offset + Len(buf))
    OBVIOUS
  <2>2. k \in Nat
    <3>1. Len(buf) \in Nat
      BY LenProperties
    <3>2. ClusterCount(offset + Len(buf)) = SectorOf(offset) + ClusterCount((offset % K) + Len(buf))
          /\ ClusterCount((offset % K) + Len(buf)) \in Nat
      BY <3>1, OffsetParts
    <3> QED
      BY <2>1, <3>2
  <2>3. k <= Len(q) + 1
    BY <1>4, <1>9, <2>1, <2>2
  <2>4. Lost(w.disk) \subseteq Lost(e) /\ Flat(e, w.disk, t, q, offset, buf, w.size)
    BY <1>6, <2>1, <2>3 DEF Wrote
  <2>5. w.disk \in Disks
    <3>1. e \in Disks
      BY <1>3
    <3>2. sector + 1 \in 1 .. Len(q) /\ q \in Seq(Clusters) /\ q # <<>>
      BY <1>1, <1>3, <1>4, AppendProperties
    <3>3. Written(WriteInto(e, f, offset, buf, q, sector))
      BY <1>2, <3>2, WriteIntoKeeps
    <3> QED
      BY <3>3 DEF Written, Saved, Sound
  <2>6. Flat(d, w.disk, t, s, offset, buf, w.size)
    BY <1>1, <1>3, <2>4, <2>5, FlatOver
  <2> QED
    BY <1>1, <2>4, <2>6
<1> QED
  BY <1>7, <1>8, <1>9 DEF Wrote

(* FAT::write of a file of the disk, from where the handle is *)
LEMMA WroteFile ==
    ASSUME NEW d \in Saved, Tidy(d), NEW t \in Items(d) \ Folders, NEW s, s = Chain(d, t),
           NEW f, f.path = t, f.first = ItemAt(d, t).first,
           NEW offset, NEW buf \in Seq(Slots), ShortOf(Len(buf), offset),
           NEW w, w = FatWrite(d, f, offset, buf)
    PROVE  /\ w.disk = d \/ Wrote(d, w, t, s, offset, buf)
           /\ w.error = "wild" => ~ (offset > f.size) /\ SectorOf(offset) > Len(s)
<1>1. d \in Sound /\ d \in Disks /\ s # <<>> /\ s = retrieve_sectors_fs(d.fat, f.first)
  BY DEF Saved, Sound, Tidy, Chain
<1>2. s \in Seq(Clusters) /\ Len(s) \in 0 .. N - 2 /\ Len(s) \in Nat
  <2>1. PICK c : c = f.first
    OBVIOUS
  <2>2. /\ retrieve_sectors_fs(d.fat, c) \in Seq(Clusters)
        /\ Len(retrieve_sectors_fs(d.fat, c)) \in 0 .. N - 2
    BY <1>1, ChainOf
  <2>3. s \in Seq(Clusters) /\ Len(s) \in 0 .. N - 2
    BY <1>1, <2>1, <2>2
  <2> QED
    BY <2>3, LenProperties
<1>3. PICK sector : sector = SectorOf(offset)
  OBVIOUS
<1>4. sector \in Nat
  <2>1. offset \in Nat
    BY Sizes0 DEF ShortOf
  <2> QED
    BY <1>3, <2>1, Sizes0 DEF SectorOf
<1>5. ASSUME sector <= Len(s)
      PROVE  offset \in Nat /\ offset + Len(buf) < W
  <2>1. SectorOf(offset) <= N - 2
    BY <1>2, <1>3, <1>4, <1>5, Sizes0
  <2> QED
    BY <2>1, OffsetShort
<1>6. \A d1, f1, o1, b1, n1, s1 : WriteInto(d1, f1, o1, b1, n1, s1).error # "wild"
  BY DEF WriteInto, WriteEnd
<1>7. CASE offset > f.size
  BY <1>7 DEF FatWrite, NotWritten
<1>8. CASE ~ (offset > f.size) /\ sector < Len(s)
  <2>1. w = WriteInto(d, f, offset, buf, s, sector)
    BY <1>1, <1>3, <1>8 DEF FatWrite, WriteBehind
  <2>2. offset \in Nat /\ offset + Len(buf) < W
    BY <1>2, <1>4, <1>5, <1>8
  <2>3. Wrote(d, w, t, s, offset, buf)
    BY <1>1, <1>3, <1>8, <2>1, <2>2, WroteInto
  <2> QED
    BY <1>6, <2>1, <2>3
<1>9. CASE ~ (offset > f.size) /\ ~ (sector < Len(s))
  <2>1. PICK e, g : e = aloc_cluster(d, f.first).disk /\ g = aloc_cluster(d, f.first).new
    OBVIOUS
  <2>2. w = WriteGrown(aloc_cluster(d, f.first), d, f, offset, buf, s, sector)
    BY <1>1, <1>3, <1>9 DEF FatWrite, WriteBehind
  <2>3. CASE g = -1
    BY <2>1, <2>2, <2>3 DEF WriteGrown, NotWritten
  <2>4. CASE g # -1 /\ sector > Len(s)
    BY <1>3, <1>9, <2>1, <2>2, <2>4 DEF WriteGrown, NotWritten
  <2>5. CASE g # -1 /\ ~ (sector > Len(s))
    <3>1. sector <= Len(s)
      BY <1>2, <1>4, <2>5
    <3>2. PICK q : q = Append(s, g)
      OBVIOUS
    <3>3. w = WriteInto(e, f, offset, buf, q, sector)
      BY <2>1, <2>2, <2>5, <3>2 DEF WriteGrown
    <3>4. e = aloc_cluster(d, ItemAt(d, t).first).disk /\ g = aloc_cluster(d, ItemAt(d, t).first).new
      BY <2>1
    <3>5. Joins(d, e, t, s, g)
      BY <1>1, <2>5, <3>4, ClusterJoined
    <3>6. offset \in Nat /\ offset + Len(buf) < W
      BY <1>5, <3>1
    <3>7. Wrote(d, w, t, s, offset, buf)
      BY <1>1, <1>3, <1>4, <3>1, <3>2, <3>3, <3>5, <3>6, WroteGrown
    <3> QED
      BY <1>6, <3>3, <3>7
  <2> QED
    BY <2>3, <2>4, <2>5
<1> QED
  BY <1>7, <1>8, <1>9

-----------------------------------------------------------------------------
(* What was written to the files, and the handles of open files            *)

(* What a handle that was not deleted stands for *)
FileFor(d, taints, f) ==
    /\ f.attr \cap {"Volume_ID", "Directory"} # {} => IsFolder(f.attr)
    /\ ~f.stale /\ f.attr \cap {"Volume_ID", "Directory"} = {} =>
          /\ f.path \in Items(d) \ Folders /\ f.first = ItemAt(d, f.path).first
          /\ ~f.touched /\ f.path \notin taints => f.size <= Len(Chain(d, f.path)) * K

(* What was written to the file p is in its clusters, and zeros behind it *)
Stored(d, p, written) ==
    /\ written \in Seq(Slots)
    /\ Len(written) <= Len(Chain(d, p)) * K
    /\ ItemAt(d, p).size <= Len(written)
    /\ \A i \in 1 .. Len(Chain(d, p)) * K :
          Content(d, Chain(d, p))[i] = IF i <= Len(written) THEN written[i] ELSE Zero

ImagesOf(d, taints, images) ==
    /\ images = [p \in Named |-> images[p]]
    /\ \A p \in Named : p \notin Items(d) => images[p] = <<>> /\ p \notin taints
    /\ \A p \in Items(d) \ Folders : p \notin taints => Stored(d, p, images[p])

FilesFor(d, taints, files) ==
    \A h \in Handles : files[h] # Closed => FileFor(d, taints, files[h])

(* What holds between two calls until an item is misplaced. *)
TreeInv ==
    /\ FilesInv
    /\ Tidy(disk)
    /\ Shy(disk)
    /\ ImagesOf(disk, tainted, image)
    /\ FilesFor(disk, tainted, file)
    /\ WildHasCause

(* What an operation on t does to the other paths' files and handles *)
SameBut(taints, others, t) == \A p : p # t => (p \in others <=> p \in taints)

LEMMA StoredKept ==
    ASSUME NEW d \in Disks, NEW e \in Disks, NEW p \in Items(d) \ Folders,
           ItemAt(e, p).size = ItemAt(d, p).size, Chain(e, p) = Chain(d, p),
           \A i \in 1 .. Len(Chain(d, p)) : e.data[Chain(d, p)[i]] = d.data[Chain(d, p)[i]],
           NEW written, Stored(d, p, written)
    PROVE  Stored(e, p, written)
<1>1. PICK s : s = Chain(d, p)
  OBVIOUS
<1>2. s \in Seq(Clusters)
  BY <1>1, ChainOf DEF Chain
<1>3. Content(e, s) = Content(d, s)
  BY <1>1, <1>2, ContentSame
<1> QED
  BY <1>1, <1>3 DEF Stored

LEMMA FileKept ==
    ASSUME NEW d \in Disks, NEW e \in Disks, NEW t, Others(d, e, t), NEW taints, NEW others,
           SameBut(taints, others, t), NEW f, FileFor(d, taints, f), f.path # t \/ f.stale
    PROVE  FileFor(e, others, f)
<1>1. f.attr \cap {"Volume_ID", "Directory"} # {} => IsFolder(f.attr)
  BY DEF FileFor
<1>2. ASSUME ~f.stale, f.attr \cap {"Volume_ID", "Directory"} = {}
      PROVE  /\ f.path \in Items(e) \ Folders /\ f.first = ItemAt(e, f.path).first
             /\ ~f.touched /\ f.path \notin others => f.size <= Len(Chain(e, f.path)) * K
  <2>1. PICK p : p = f.path
    OBVIOUS
  <2>2. /\ p \in Items(d) \ Folders /\ f.first = ItemAt(d, p).first
        /\ ~f.touched /\ p \notin taints => f.size <= Len(Chain(d, p)) * K
    BY <1>2, <2>1 DEF FileFor
  <2>3. p \in Named \ {t} /\ p # t
    BY <1>2, <2>1, <2>2 DEF Items
  <2>4. View(e, p) = View(d, p)
    BY <2>3 DEF Others
  <2>5. ItemAt(e, p) = ItemAt(d, p) /\ p \in Items(e) /\ Chain(e, p) = Chain(d, p)
    BY <2>2, <2>3, <2>4, ViewItem
  <2>6. p \in others <=> p \in taints
    BY <2>3 DEF SameBut
  <2> QED
    BY <2>1, <2>2, <2>5, <2>6
<1> QED
  BY <1>1, <1>2 DEF FileFor

LEMMA ImagesKept ==
    ASSUME NEW d \in Disks, NEW e \in Disks, NEW t, Others(d, e, t), NEW taints, NEW others,
           SameBut(taints, others, t), NEW images, ImagesOf(d, taints, images),
           NEW new, new = [p \in Named |-> new[p]], \A p \in Named : p # t => new[p] = images[p],
           t \in Named /\ t \notin Items(e) => new[t] = <<>> /\ t \notin others,
           t \in Items(e) \ Folders /\ t \notin others => Stored(e, t, new[t])
    PROVE  ImagesOf(e, others, new)
<1>1. ASSUME NEW p \in Named, p # t
      PROVE  /\ p \in Items(e) <=> p \in Items(d)
             /\ p \in others <=> p \in taints
             /\ new[p] = images[p]
             /\ p \in Items(d) \ Folders => \A written : Stored(d, p, written) => Stored(e, p, written)
  <2>1. View(e, p) = View(d, p)
    BY <1>1 DEF Others
  <2>2. p \in Items(e) <=> p \in Items(d)
    BY <2>1, ViewItem
  <2>3. ASSUME p \in Items(d) \ Folders, NEW written, Stored(d, p, written)
        PROVE  Stored(e, p, written)
    <3>1. /\ ItemAt(e, p) = ItemAt(d, p) /\ Chain(e, p) = Chain(d, p)
          /\ \A i \in 1 .. Len(Chain(d, p)) : e.data[Chain(d, p)[i]] = d.data[Chain(d, p)[i]]
      BY <2>1, <2>3, ViewItem
    <3> QED
      BY <2>3, <3>1, StoredKept
  <2> QED
    BY <1>1, <2>2, <2>3 DEF SameBut
<1>2. ASSUME NEW p \in Named, p \notin Items(e) PROVE new[p] = <<>> /\ p \notin others
  BY <1>1, <1>2 DEF ImagesOf
<1>3. ASSUME NEW p \in Items(e) \ Folders, p \notin others PROVE Stored(e, p, new[p])
  <2>1. p \in Named
    BY DEF Items
  <2> QED
    BY <1>1, <1>3, <2>1 DEF ImagesOf
<1> QED
  BY <1>2, <1>3 DEF ImagesOf

Overlaid(old, pos, end, buf, v) ==
    /\ v \in Seq(Slots) /\ Len(v) = IF end > Len(old) THEN end ELSE Len(old)
    /\ \A i \in 1 .. Len(v) : v[i] = IF i \in pos + 1 .. end THEN buf[i - pos]
                                     ELSE IF i <= Len(old) THEN old[i] ELSE Zero
LEMMA OverlayIs ==
    ASSUME NEW old \in Seq(Slots), NEW pos \in Nat, NEW end \in Nat, pos <= end,
           NEW buf \in Seq(Slots), end - pos <= Len(buf), NEW new, new = SubSeq(buf, 1, end - pos),
           NEW v, v = Overlay(old, pos, new)
    PROVE  Overlaid(old, pos, end, buf, v)
<1>1. PICK l, n \in Nat : l = Len(old) /\ n = end - pos
  BY LenProperties
<1>2. new \in Seq(Slots) /\ Len(new) = n /\ \A i \in 1 .. n : new[i] = buf[i]
  <2>1. n \in 0 .. Len(buf)
    BY <1>1, LenProperties
  <2> QED
    BY <1>1, <2>1, Start
<1>3. PICK m \in Nat : m = IF pos + Len(new) > Len(old) THEN pos + Len(new) ELSE Len(old)
  BY <1>1, <1>2
<1>4. pos + n = end /\ m = IF end > l THEN end ELSE l
  BY <1>1, <1>2, <1>3
<1>5. v = [i \in 1 .. m |-> IF i \in pos + 1 .. pos + Len(new) THEN new[i - pos]
                            ELSE IF i <= Len(old) THEN old[i] ELSE Zero]
  BY <1>3 DEF Overlay
<1>6. ASSUME NEW i \in 1 .. m
      PROVE  /\ v[i] = IF i \in pos + 1 .. end THEN buf[i - pos] ELSE IF i <= l THEN old[i] ELSE Zero
             /\ v[i] \in Slots
  <2>1. v[i] = IF i \in pos + 1 .. end THEN new[i - pos] ELSE IF i <= l THEN old[i] ELSE Zero
    BY <1>1, <1>2, <1>4, <1>5
  <2>2. ASSUME i \in pos + 1 .. end PROVE new[i - pos] = buf[i - pos] /\ new[i - pos] \in Slots
    <3>1. i - pos \in 1 .. n
      BY <1>4, <2>2
    <3> QED
      BY <1>2, <3>1, ElementOfSeq
  <2>3. i <= l => old[i] \in Slots
    BY <1>1, ElementOfSeq
  <2>4. Zero \in Slots
    BY SlotTypes
  <2> QED
    BY <2>1, <2>2, <2>3, <2>4
<1>7. v \in [1 .. m -> Slots]
  BY <1>5, <1>6
<1>8. v \in Seq(Slots) /\ Len(v) = m
  BY <1>7, Filled
<1> QED
  BY <1>1, <1>4, <1>6, <1>8 DEF Overlaid

LEMMA WroteStored ==
    ASSUME NEW d \in Disks, NEW t \in Items(d) \ Folders, NEW s, s = Chain(d, t), NEW offset \in Nat,
           NEW buf \in Seq(Slots), NEW w, Wrote(d, w, t, s, offset, buf),
           ClusterCount(offset + Len(buf)) <= Len(s) + 1, NEW old, Stored(d, t, old),
           NEW new, new = SubSeq(buf, 1, w.size - offset)
    PROVE  Stored(w.disk, t, Overlay(old, offset, new))
<1>1. PICK e, end, q : e = w.disk /\ end = w.size /\ q = Chain(e, t)
  OBVIOUS
<1>2. Flat(d, e, t, s, offset, buf, end)
  BY <1>1 DEF Wrote
<1>3. PICK top, mid, n \in Nat : top = Len(q) * K /\ mid = Len(s) * K /\ n = Len(buf) /\ mid <= top
  <2>1. q \in Seq(Clusters) /\ Len(q) >= Len(s) /\ s \in Seq(Clusters)
    BY <1>1, <1>2, ChainOf DEF Flat, Chain
  <2>2. PICK a, b, c \in Nat : a = Len(q) /\ b = Len(s) /\ c = K /\ b <= a
    BY <2>1, LenProperties, Sizes0
  <2>3. b * c <= a * c /\ b * c \in Nat /\ a * c \in Nat
    BY <2>2
  <2> QED
    BY <2>2, <2>3, LenProperties
<1>4. /\ end \in offset .. offset + n /\ end <= top
      /\ \A x \in 1 .. top : Content(e, q)[x] = IF x \in offset + 1 .. end THEN buf[x - offset]
                                                ELSE IF x <= mid THEN Content(d, s)[x] ELSE Zero
  BY <1>1, <1>2, <1>3 DEF Flat
<1>5. PICK l \in Nat : l = Len(old) /\ l <= mid /\ ItemAt(d, t).size <= l
  BY <1>3, LenProperties DEF Stored
<1>6. old \in Seq(Slots) /\ \A x \in 1 .. mid : Content(d, s)[x] = IF x <= l THEN old[x] ELSE Zero
  BY <1>3, <1>5 DEF Stored
<1>7. PICK v : v = Overlay(old, offset, new)
  OBVIOUS
<1>8. end \in Nat /\ offset <= end /\ end - offset <= Len(buf) /\ new = SubSeq(buf, 1, end - offset)
  BY <1>1, <1>3, <1>4
<1>9. /\ v \in Seq(Slots) /\ Len(v) = IF end > Len(old) THEN end ELSE Len(old)
      /\ \A i \in 1 .. Len(v) : v[i] = IF i \in offset + 1 .. end THEN buf[i - offset]
                                       ELSE IF i <= Len(old) THEN old[i] ELSE Zero
  <2>1. Overlaid(old, offset, end, buf, v)
    BY <1>6, <1>7, <1>8, OverlayIs
  <2> QED
    BY <2>1 DEF Overlaid
<1>10. PICK m \in Nat : m = Len(v) /\ m = (IF end > l THEN end ELSE l) /\ m <= top
  BY <1>3, <1>4, <1>5, <1>8, <1>9
<1>11. ItemAt(e, t).size \in {ItemAt(d, t).size, end}
  BY <1>1 DEF Wrote
<1>12. ItemAt(e, t).size <= m
  <2>1. ItemAt(e, t).size = end => ItemAt(e, t).size <= m
    BY <1>8, <1>10
  <2>2. ASSUME ItemAt(e, t).size = ItemAt(d, t).size PROVE ItemAt(e, t).size <= m
    <3>1. PICK x : x = ItemAt(d, t).size
      OBVIOUS
    <3>2. x \in Int
      <4>1. ItemAt(d, t) \in Slots
        <5>1. t \in Named /\ ItemAt(d, t) # NoItem
          BY DEF Items, file_exist, ItemAt
        <5> QED
          BY <5>1, ItemNext DEF ItemAt
      <4> QED
        BY <3>1, <4>1, Sizes0 DEF Slots
    <3> QED
      BY <1>5, <1>8, <1>10, <2>2, <3>1, <3>2
  <2> QED
    BY <1>11, <2>1, <2>2
<1>13. ASSUME NEW x \in 1 .. top PROVE Content(e, q)[x] = IF x <= m THEN v[x] ELSE Zero
  <2>1. Content(e, q)[x] = IF x \in offset + 1 .. end THEN buf[x - offset]
                           ELSE IF x <= mid THEN Content(d, s)[x] ELSE Zero
    BY <1>4
  <2>2. x <= mid => Content(d, s)[x] = IF x <= l THEN old[x] ELSE Zero
    BY <1>6
  <2>3. x <= m => v[x] = IF x \in offset + 1 .. end THEN buf[x - offset]
                         ELSE IF x <= l THEN old[x] ELSE Zero
    BY <1>5, <1>9, <1>10
  <2>4. ~ (x <= m) => x \notin offset + 1 .. end /\ ~ (x <= l)
    BY <1>8, <1>10
  <2>5. x <= l => x <= mid
    BY <1>3, <1>5
  <2> QED
    BY <2>1, <2>2, <2>3, <2>4, <2>5
<1> QED
  BY <1>1, <1>3, <1>7, <1>9, <1>10, <1>12, <1>13 DEF Stored

(* The name and the extension that create_file stores are found again under *)
(* the name of the file. *)
LEMMA NameRejoined ==
    ASSUME NEW name \in Seq(Characters), file_name_val(name)
    PROVE  JoinedName(StoredName(name), StoredExt(name)) = name
<1>1. PICK m \in Nat : m = Len(name)
  BY LenProperties
<1>2. CASE Dots(name) = {}
  BY <1>2 DEF StoredName, StoredExt, JoinedName
<1>3. CASE Dots(name) # {}
  <2>1. Dots(name) \in SUBSET (1 .. m) /\ Dots(name) \in SUBSET (0 .. m)
    BY <1>1 DEF Dots
  <2>2. \E i \in Dots(name) : \A j \in Dots(name) : j <= i
    BY <1>3, <2>1, Greatest
  <2>3. LastDot(name) \in Dots(name)
    BY <2>2 DEF LastDot
  <2>4. PICK k \in 1 .. m : k = LastDot(name) /\ name[k] = Dot
    BY <2>1, <2>3 DEF Dots
  <2>5. PICK a, c, x \in Seq(Characters) : a = SubSeq(name, 1, k - 1) /\ c = SubSeq(name, k + 1, m) /\ x = <<Dot>>
    <3>1. SubSeq(name, 1, k - 1) = StoredName(name) /\ SubSeq(name, k + 1, m) = StoredExt(name)
      BY <1>1, <1>3, <2>4 DEF StoredName, StoredExt
    <3>2. <<Dot>> \in Seq(Characters)
      BY DiskAssumption
    <3> QED
      BY <3>1, <3>2, NamesKept
  <2>6. PICK p, q \in Nat : p = k - 1 /\ q = m - k
    <3>1. k - 1 \in Nat /\ m - k \in Nat
      OBVIOUS
    <3> QED
      BY <3>1
  <2>7. p \in 0 .. Len(name) /\ p \in Nat /\ k + q <= m
    BY <1>1, <2>6
  <2>8. Len(a) = p /\ \A i \in 1 .. p : a[i] = name[i]
    <3>1. a = SubSeq(name, 1, p)
      BY <2>5, <2>6
    <3> QED
      BY <2>7, <3>1, Start
  <2>9. Len(c) = q /\ \A i \in 1 .. q : c[i] = name[k + i]
    <3>1. PICK l \in Nat : l = k + 1 /\ 1 <= l /\ l <= m + 1 /\ m <= Len(name) /\ (m + 1) - l = q
      BY <1>1, <2>6
    <3>2. /\ SubSeq(name, l, m) \in Seq(Characters) /\ Len(SubSeq(name, l, m)) = (m + 1) - l
          /\ \A i \in 1 .. (m + 1) - l : SubSeq(name, l, m)[i] = name[(l + i) - 1]
      BY <3>1, Cut
    <3>3. \A i \in 1 .. q : (l + i) - 1 = k + i
      BY <3>1
    <3> QED
      BY <2>5, <3>1, <3>2, <3>3
  <2>17. PICK u : u = a \o x
    OBVIOUS
  <2>10. u \in Seq(Characters) /\ Len(u) = k /\ u[k] = Dot /\ \A i \in 1 .. p : u[i] = a[i]
    <3>1. Len(x) = 1 /\ x[1] = Dot
      BY <2>5
    <3>2. a \o x \in Seq(Characters) /\ Len(a \o x) = p + 1 /\ (a \o x)[p + 1] = Dot
          /\ \A i \in 1 .. p : (a \o x)[i] = a[i]
      BY <2>5, <2>8, <3>1, ConcatProperties
    <3>3. p + 1 = k
      BY <2>6
    <3> QED
      BY <2>17, <3>2, <3>3
  <2>11. u[k] = Dot
    BY <2>10
  <2>18. PICK v : v = u \o c
    OBVIOUS
  <2>12. v \in Seq(Characters) /\ Len(v) = m /\ v = u \o c
    <3>1. u \o c \in Seq(Characters) /\ Len(u \o c) = k + q
      BY <2>9, <2>10, ConcatProperties
    <3>2. k + q = m
      BY <2>6
    <3> QED
      BY <2>18, <3>1, <3>2
  <2>13. ASSUME NEW i \in 1 .. m PROVE v[i] = name[i]
    <3>1. CASE i <= k
      <4>1. v[i] = u[i]
        BY <2>10, <2>12, <3>1, ConcatProperties
      <4>2. i = k \/ i \in 1 .. p
        BY <2>6, <3>1
      <4> QED
        BY <2>4, <2>8, <2>10, <2>11, <4>1, <4>2
    <3>2. CASE ~ (i <= k)
      <4>1. PICK j \in 1 .. q : i = k + j
        <5>1. i - k \in 1 .. q /\ i = k + (i - k)
          BY <2>6, <3>2
        <5> QED
          BY <5>1
      <4>2. v[i] = c[j]
        <5>1. \A y \in 1 .. Len(u) + Len(c) : (u \o c)[y] = IF y <= Len(u) THEN u[y] ELSE c[y - Len(u)]
          BY <2>10, ConcatProperties
        <5>2. i \in 1 .. k + q /\ i - k = j /\ Len(u) + Len(c) = k + q
          BY <2>6, <2>9, <2>10, <4>1
        <5> QED
          BY <2>10, <2>12, <3>2, <5>1, <5>2
      <4> QED
        BY <2>9, <4>1, <4>2
    <3> QED
      BY <3>1, <3>2
  <2>14. v = name
    BY <1>1, <2>12, <2>13, SeqEqual
  <2>15. c # <<>> /\ StoredName(name) = a /\ StoredExt(name) = c
    BY <1>1, <1>3, <2>4, <2>5 DEF file_name_val, StoredName, StoredExt
  <2>16. JoinedName(a, c) = a \o <<Dot>> \o c
    BY <2>15 DEF JoinedName
  <2> QED
    BY <2>5, <2>12, <2>14, <2>15, <2>16, <2>17
<1> QED
  BY <1>2, <1>3

EmptyFile(e, t) == t \notin Folders => Chain(e, t) = <<ItemAt(e, t).first>>
                                       /\ e.data[ItemAt(e, t).first] = Blank

(* What create_file and create_folder leave behind *)
FreshItem(e, t) == /\ t \in Items(e) /\ ItemAt(e, t).size = 0 /\ ItemAt(e, t).first \in Clusters
               /\ EmptyFile(e, t)

LEMMA NewDone ==
    ASSUME NEW d \in Saved, Tidy(d), NEW t \in Named, NEW attr,
           attr \in IF t \in Folders THEN {{"Directory"}} ELSE Attrs,
           retrieve_item(d, DropDot(t)) = NoItem, ValidName(t, attr), Upper(d, t).chain # <<>>,
           NEW r, r = IF IsFolder(attr) THEN create_folder(d, t, attr) ELSE create_file(d, t, attr)
    PROVE  /\ DropDot(t) = t /\ t \notin Items(d)
           /\ Others(d, r.disk, t) /\ Lost(r.disk) \subseteq Lost(d)
           /\ IF r.ok THEN FreshItem(r.disk, t) /\ ItemAt(r.disk, t).first = retrieve_free_index(d)
              ELSE t \notin Items(r.disk)
<1>1. d \in Sound /\ d \in Disks
  BY DEF Saved, Sound
<1>2. Front(t) \in Directories(d)
  BY <1>1, UpperAre
<1>3. Last(t) # <<Dot>>
  <2>1. ItemAt(d, Front(t)) # NoItem
    BY <1>1, <1>2, DirectoryIs
  <2>2. t # <<>>
    BY DEF Named
  <2> QED
    BY <2>1, <2>2 DEF DropDot, ItemAt
<1>4. DropDot(t) = t
  BY <1>3 DEF DropDot
<1>5. t \notin Items(d)
  BY <1>4 DEF Items, file_exist
<1>6. PICK name \in Seq(Characters) : name = Last(t)
  BY PathParts
<1>7. 0 \in 0 .. N - 1 /\ 0 \in 0 .. W - 1 /\ <<>> \in Seq(Characters) /\ attr \in SUBSET Flags
  <2>1. attr \in SUBSET Flags
    BY DEF Attrs, Flags
  <2> QED
    BY <2>1, Sizes0, EmptySeq
<1>8. IsFolder(attr) <=> t \in Folders
  BY DEF IsFolder, Attrs
<1>9. PICK folder \in BOOLEAN : folder <=> t \in Folders
  OBVIOUS
<1>10. PICK slot : slot = IF t \in Folders THEN Slot(name, <<>>, attr, 0, 0)
                          ELSE Slot(StoredName(name), StoredExt(name), attr, 0, 0)
  OBVIOUS
<1>11. slot \in Slots /\ slot.attr = attr /\ slot.size = 0
  BY <1>6, <1>7, <1>10, NamesKept DEF Slot, Slots
<1>12. NameOf(slot) = Last(t)
  <2>1. CASE t \in Folders
    <3>1. slot.name = name /\ slot.ext = <<>>
      BY <1>10, <2>1 DEF Slot
    <3> QED
      BY <1>6, <3>1 DEF NameOf, JoinedName
  <2>2. CASE t \notin Folders
    <3>1. slot.name = StoredName(name) /\ slot.ext = StoredExt(name)
      BY <1>10, <2>2 DEF Slot
    <3>2. file_name_val(name)
      BY <1>6, <1>8, <2>2 DEF ValidName
    <3>3. JoinedName(StoredName(name), StoredExt(name)) = name
      BY <3>2, NameRejoined
    <3> QED
      BY <1>6, <3>1, <3>3 DEF NameOf
  <2> QED
    BY <2>1, <2>2
<1>13. Kind(t, slot)
  <2>1. t \in Folders => attr = {"Directory"}
    OBVIOUS
  <2>2. t \notin Folders => attr \cap {"Volume_ID", "Directory"} = {}
    BY DEF Attrs
  <2> QED
    BY <1>3, <1>11, <2>1, <2>2 DEF Kind
<1>14. r = CreateIn(d, Upper(d, t), retrieve_free_index(d), slot, folder)
  BY <1>6, <1>8, <1>9, <1>10 DEF create_folder, create_file, CreateItem
<1>15. /\ Others(d, r.disk, t) /\ Lost(r.disk) \subseteq Lost(d)
       /\ IF r.ok THEN \E new \in Clusters :
                          /\ new = retrieve_free_index(d)
                          /\ Made(d, r.disk, t, new, [slot EXCEPT !.first = new])
                          /\ ~folder => r.disk.data[new] = Blank
          ELSE t \notin Items(r.disk)
  BY <1>1, <1>2, <1>5, <1>9, <1>11, <1>12, <1>13, <1>14, Created
<1>16. ASSUME r.ok PROVE FreshItem(r.disk, t) /\ ItemAt(r.disk, t).first = retrieve_free_index(d)
  <2>1. PICK e : e = r.disk
    OBVIOUS
  <2>2. PICK new \in Clusters : /\ new = retrieve_free_index(d) /\ (~folder => e.data[new] = Blank)
                                /\ Made(d, e, t, new, [slot EXCEPT !.first = new])
    BY <1>15, <1>16, <2>1
  <2>3. /\ t \in Items(e) /\ ItemAt(e, t) = [slot EXCEPT !.first = new] /\ Chain(e, t) = <<new>>
    BY <2>2 DEF Made
  <2>4. ItemAt(e, t).first = new /\ ItemAt(e, t).size = 0
    BY <1>11, <2>3 DEF Slots
  <2>5. EmptyFile(e, t)
    BY <1>9, <2>2, <2>3, <2>4 DEF EmptyFile
  <2> QED
    BY <2>1, <2>2, <2>3, <2>4, <2>5 DEF FreshItem
<1> QED
  BY <1>4, <1>5, <1>15, <1>16

(* create_file and create_folder that fail leave the table and the         *)
(* contents as they were, wherever the path leads.                         *)
LEMMA NotMade ==
    ASSUME NEW d \in Sound, NEW up, NEW slot \in Slots, NEW folder,
           NEW r, r = CreateIn(d, up, retrieve_free_index(d), slot, folder), ~r.ok
    PROVE  r.disk.fat = d.fat /\ r.disk.data = d.data /\ r.disk.root = d.root
<1>1. d \in Disks
  BY DEF Sound
<1>2. PICK new : new = retrieve_free_index(d)
  OBVIOUS
<1>3. CASE new = -1
  BY <1>2, <1>3 DEF CreateIn
<1>4. CASE new # -1
  <2>1. new \in Clusters /\ d.fat[new] = 0
    BY <1>1, <1>2, <1>4, FreeIndex
  <2>2. d.fat \in [Ids -> Entry] /\ 0 \in Entry /\ EndMark \in Entry /\ new \in Ids
    <3>1. 0 \in Entry
      BY DEF Entry
    <3> QED
      BY <1>1, <2>1, <3>1, TablesOf, Sizes0, ClustersAre DEF FatTables
  <2>3. PICK f : f = SetEntry(d, new, EndMark)
    OBVIOUS
  <2>4. f \in Sound /\ f.fat = [d.fat EXCEPT ![new] = EndMark] /\ f.data = d.data /\ f.root = d.root
    BY <2>1, <2>2, <2>3, SetEntryKeeps
  <2>5. PICK e : e = save_fat(f)
    OBVIOUS
  <2>6. e \in Sound /\ e.fat = f.fat /\ e.data = f.data /\ e.root = f.root
    BY <2>4, <2>5, SaveKeeps
  <2>7. PICK s : s = [slot EXCEPT !.first = new]
    OBVIOUS
  <2>8. PICK n : n = Len(retrieve_folders_from_folder(d, up.first)) + up.skip
    OBVIOUS
  <2>9. r = CreateAt(e, up, n, s, folder) /\ s.first = new
    <3>1. s.first = new
      BY <2>7 DEF Slots
    <3> QED
      BY <1>2, <1>4, <2>3, <2>5, <2>7, <2>8, <3>1 DEF CreateIn
  <2>10. r.disk = Undo(e, new)
    <3>1. CASE n + 1 <= up.room
      BY <2>9, <3>1 DEF CreateAt
    <3>2. CASE ~(n + 1 <= up.room) /\ up.first = Root
      BY <2>9, <3>2 DEF CreateAt
    <3>3. CASE ~(n + 1 <= up.room) /\ up.first # Root
      BY <2>9, <3>3 DEF CreateAt, CreateGrown
    <3> QED
      BY <3>1, <3>2, <3>3
  <2>11. PICK g : g = SetEntry(e, new, 0)
    OBVIOUS
  <2>12. g \in Sound /\ g.fat = [e.fat EXCEPT ![new] = 0] /\ g.data = e.data /\ g.root = e.root
    BY <2>1, <2>2, <2>6, <2>11, SetEntryKeeps
  <2>13. r.disk = save_fat(g)
    BY <2>10, <2>11 DEF Undo
  <2>14. r.disk.fat = g.fat /\ r.disk.data = g.data /\ r.disk.root = g.root
    BY <2>12, <2>13, SaveKeeps
  <2>15. g.fat = d.fat
    BY <2>1, <2>2, <2>4, <2>6, <2>12
  <2> QED
    BY <2>4, <2>6, <2>12, <2>14, <2>15
<1> QED
  BY <1>3, <1>4

LEMMA ItemNotMade ==
    ASSUME NEW d \in Sound, NEW t \in Paths \ {<<>>}, NEW attr \in SUBSET Flags,
           NEW r, r = IF IsFolder(attr) THEN create_folder(d, t, attr) ELSE create_file(d, t, attr),
           ~r.ok
    PROVE  r.disk.fat = d.fat /\ r.disk.data = d.data /\ r.disk.root = d.root
<1>1. PICK name \in Seq(Characters) : name = Last(t)
  <2>1. t \in Seq(Seq(Characters)) /\ t # <<>>
    BY FilesAssumption
  <2>2. Len(t) \in 1 .. Len(t)
    BY <2>1, EmptySeq
  <2>3. Last(t) \in Seq(Characters)
    BY <2>1, <2>2, ElementOfSeq DEF Last
  <2> QED
    BY <2>3
<1>2. 0 \in 0 .. N - 1 /\ 0 \in 0 .. W - 1 /\ <<>> \in Seq(Characters)
  BY Sizes0, EmptySeq
<1>3. /\ Slot(name, <<>>, attr, 0, 0) \in Slots
      /\ Slot(StoredName(name), StoredExt(name), attr, 0, 0) \in Slots
  BY <1>2, NamesKept DEF Slot, Slots
<1>4. \E slot \in Slots : \E folder : r = CreateIn(d, Upper(d, t), retrieve_free_index(d), slot, folder)
  BY <1>1, <1>3 DEF create_file, create_folder, CreateItem
<1> QED
  BY <1>4, NotMade

LEMMA FreshStored ==
    ASSUME NEW e \in Disks, NEW t \in Items(e) \ Folders, FreshItem(e, t)
    PROVE  Stored(e, t, <<>>)
<1>1. PICK c \in Clusters : c = ItemAt(e, t).first /\ Chain(e, t) = <<c>> /\ e.data[c] = Blank
  BY DEF FreshItem, EmptyFile
<1>2. PICK s \in Seq(Clusters) : s = <<c>> /\ Len(s) = 1 /\ s[1] = c
  <2>1. <<c>> \in Seq(Clusters) /\ Len(<<c>>) = 1 /\ <<c>>[1] = c
    OBVIOUS
  <2> QED
    BY <2>1
<1>3. PICK k \in Nat : k = K /\ Len(s) * K = k
  BY <1>2, Sizes0
<1>4. Blank \in Seq(Slots) /\ Len(Blank) = Len(s) * K
  BY <1>2, <1>3, ZerosAre DEF Blank
<1>5. ASSUME NEW i \in 1 .. Len(s), NEW a \in 1 .. K PROVE e.data[s[i]][a] = Blank[((i - 1) * K) + a]
  <2>1. i = 1 /\ ((i - 1) * K) + a = a
    BY <1>2, <1>3
  <2> QED
    BY <1>1, <1>2, <2>1
<1>6. Content(e, s) = Blank
  BY <1>4, <1>5, ContentGiven
<1>7. \A i \in 1 .. k : Content(e, s)[i] = Zero
  BY <1>3, <1>6, BlankSlots
<1>8. <<>> \in Seq(Slots) /\ Len(<<>>) = 0 /\ \A i \in 1 .. k : ~ (i <= 0)
  BY EmptySeq
<1>9. ItemAt(e, t).size = 0
  BY DEF FreshItem
<1> QED
  BY <1>1, <1>2, <1>3, <1>7, <1>8, <1>9 DEF Stored

-----------------------------------------------------------------------------
(* One lemma for each system call                                          *)

(* What a call does to the disk *)
TreeStep == /\ Others(disk, disk', target')
            /\ Lost(disk') \subseteq Lost(disk) \/ target' \in tainted'
TreeKept == /\ TreeStep
            /\ Shy(disk')
            /\ ImagesOf(disk', tainted', image')
            /\ FilesFor(disk', tainted', file')
            /\ WildHasCause'

(* The call that misplaces an item is the last.  If the item begins at     *)
(* RootSector it is in order for all others, still.                        *)
Strayed == Astray' /\ (target' \notin Named \/ TreeStep)

LEMMA OthersNone ==
    ASSUME NEW d, Tidy(d), NEW t
    PROVE  Others(d, d, t)
BY DEF Others

LEMMA Calm ==
    ASSUME fault' = <<>> PROVE WildHasCause'
<1>1. \A h : <<>> # <<"wild", h>>
  OBVIOUS
<1> QED
  BY <1>1 DEF WildHasCause

LEMMA Still ==
    ASSUME TreeInv, UNCHANGED <<disk, image, tainted>>, FilesFor(disk, tainted, file'), WildHasCause'
    PROVE  TreeKept
<1>1. Tidy(disk) /\ Shy(disk) /\ ImagesOf(disk, tainted, image)
  BY DEF TreeInv
<1>2. Others(disk, disk, target')
  BY <1>1, OthersNone
<1>3. Others(disk, disk', target') /\ Lost(disk') \subseteq Lost(disk)
  BY <1>2
<1>4. Shy(disk') /\ ImagesOf(disk', tainted', image') /\ FilesFor(disk', tainted', file')
  BY <1>1
<1> QED
  BY <1>3, <1>4 DEF TreeKept, TreeStep

LEMMA AllStill ==
    ASSUME TreeInv, UNCHANGED <<disk, image, tainted, file>>, WildHasCause'
    PROVE  TreeKept
<1>1. FilesFor(disk, tainted, file')
  BY DEF TreeInv
<1> QED
  BY <1>1, Still

LEMMA FileSetFor ==
    ASSUME NEW d, NEW taints, NEW files, FilesFor(d, taints, files),
           NEW h \in Handles, NEW f, f # Closed => FileFor(d, taints, f), NEW X, files \in [Handles -> X]
    PROVE  FilesFor(d, taints, [files EXCEPT ![h] = f])
BY DEF FilesFor

LEMMA HandlesAre ==
    ASSUME TreeInv
    PROVE  /\ FilesInv /\ file \in [Handles -> Opened \cup {Closed}] /\ FilesFor(disk, tainted, file)
           /\ disk \in Saved /\ disk \in Sound /\ disk \in Disks /\ Tidy(disk) /\ Shy(disk)
           /\ ImagesOf(disk, tainted, image) /\ tainted \subseteq Named
BY DiskIs DEF TreeInv, FilesInv

LEMMA OpenedFor ==
    ASSUME NEW d \in Disks, Tidy(d), NEW taints, NEW images, ImagesOf(d, taints, images),
           NEW path \in Named \cup {<<>>}, NEW item, item = retrieve_item(d, DropDot(path)),
           item # NoItem
    PROVE  FileFor(d, taints, NewFile(path, item, d))
<1>1. PICK f : f = NewFile(path, item, d)
  OBVIOUS
<1>2. /\ f.path = path /\ f.first = item.first /\ f.attr = item.attr
      /\ ~ IsFolder(item.attr) => f.size = item.size
  BY <1>1 DEF NewFile
<1>3. ASSUME IsFolder(item.attr) PROVE FileFor(d, taints, f)
  <2>1. f.attr \cap {"Volume_ID", "Directory"} # {}
    BY <1>2, <1>3 DEF IsFolder
  <2> QED
    BY <1>2, <1>3, <2>1 DEF FileFor
<1>4. ASSUME NEW u \in Directories(d), item = ItemAt(d, u) PROVE IsFolder(item.attr)
  <2>1. CASE u = <<>>
    <3>1. ItemAt(d, <<>>) = RootItem
      BY ItemIs, FilesAssumption DEF ItemAt
    <3> QED
      BY <1>4, <2>1, <3>1 DEF RootItem, Slot, IsFolder
  <2>2. CASE u # <<>>
    <3>1. u \in Folders /\ u \in Items(d)
      BY <2>2, DirectoryIs
    <3>2. item.attr = {"Directory"}
      BY <1>4, <3>1 DEF Tidy, Kind
    <3> QED
      BY <3>2 DEF IsFolder
  <2> QED
    BY <2>1, <2>2
<1>5. CASE DropDot(path) # path
  <2>1. path # <<>> /\ DropDot(path) = Front(path)
    BY <1>5 DEF DropDot
  <2>2. path \in Named
    BY <2>1
  <2>3. Front(path) \in Folders \cup {<<>>} /\ Front(path) \in Named \cup {<<>>}
    BY <2>2, PathParts
  <2>4. Front(path) \in Directories(d)
    BY <2>1, <2>3, DirectoryIs DEF ItemAt
  <2> QED
    BY <1>1, <1>3, <1>4, <2>1, <2>4 DEF ItemAt
<1>6. CASE DropDot(path) = path /\ path \in Folders \cup {<<>>}
  <2>1. path \in Directories(d)
    BY <1>6, DirectoryIs DEF ItemAt
  <2> QED
    BY <1>1, <1>3, <1>4, <1>6, <2>1 DEF ItemAt
<1>7. CASE DropDot(path) = path /\ path \notin Folders \cup {<<>>}
  <2>1. path \in Items(d) \ Folders /\ item = ItemAt(d, path)
    BY <1>7 DEF Items, file_exist, ItemAt
  <2>2. item.attr \cap {"Volume_ID", "Directory"} = {}
    BY <2>1 DEF Tidy, Kind
  <2>3. ~ IsFolder(item.attr)
    BY <2>2 DEF IsFolder
  <2>4. ASSUME path \notin taints PROVE item.size <= Len(Chain(d, path)) * K
    <3>1. Stored(d, path, images[path])
      BY <2>1, <2>4 DEF ImagesOf
    <3>2. PICK l \in Nat : l = Len(images[path])
      BY <3>1, LenProperties DEF Stored
    <3>3. PICK k \in Nat : k = Len(Chain(d, path)) * K
      <4>1. Len(Chain(d, path)) \in Nat
        BY ChainOf, LenProperties DEF Chain
      <4> QED
        BY <4>1, Sizes0
    <3>4. l <= k /\ item.size <= l
      BY <2>1, <3>1, <3>2, <3>3 DEF Stored
    <3>5. item.size \in Int
      <4>1. item \in Slots
        BY <2>1, ItemNext DEF Items, ItemAt
      <4> QED
        BY <4>1, Sizes0 DEF Slots
    <3> QED
      BY <3>3, <3>4, <3>5
  <2> QED
    BY <1>1, <1>2, <2>1, <2>2, <2>3, <2>4 DEF FileFor
<1> QED
  BY <1>5, <1>6, <1>7

LEMMA OpenExistingTree ==
    ASSUME TreeInv, NEW h \in Handles, NEW path \in Named \cup {<<>>}, NEW attr,
           OpenExisting(h, path, attr)
    PROVE  TreeKept
<1>1. PICK item : item = retrieve_item(disk, DropDot(path))
  OBVIOUS
<1>2. /\ item # NoItem /\ fault = <<>> /\ UNCHANGED <<disk, fault, image, tainted>>
      /\ file' = [file EXCEPT ![h] = NewFile(path, item, disk)]
  BY <1>1 DEF OpenExisting, Call
<1>3. FileFor(disk, tainted, NewFile(path, item, disk))
  BY <1>1, <1>2, HandlesAre, OpenedFor
<1>4. FilesFor(disk, tainted, file')
  BY <1>2, <1>3, HandlesAre, FileSetFor
<1>5. WildHasCause'
  BY <1>2, Calm
<1> QED
  BY <1>2, <1>4, <1>5, Still

LEMMA FilesKept ==
    ASSUME NEW d \in Disks, NEW e \in Disks, NEW t, Others(d, e, t), NEW taints, NEW others,
           SameBut(taints, others, t), NEW files, FilesFor(d, taints, files),
           \A h \in Handles : files[h] # Closed /\ files[h].path = t =>
              files[h].stale \/ t \notin Items(d) \/ FileFor(e, others, files[h])
    PROVE  FilesFor(e, others, files)
<1>1. SUFFICES ASSUME NEW h \in Handles, files[h] # Closed
               PROVE  FileFor(e, others, files[h])
  BY DEF FilesFor
<1>2. PICK f : f = files[h]
  OBVIOUS
<1>3. FileFor(d, taints, f)
  BY <1>1, <1>2 DEF FilesFor
<1>4. CASE f.path # t \/ f.stale
  BY <1>2, <1>3, <1>4, FileKept
<1>5. CASE f.path = t /\ t \notin Items(d)
  BY <1>2, <1>3, <1>5 DEF FileFor
<1> QED
  BY <1>1, <1>2, <1>4, <1>5

LEMMA OpenCreateTree ==
    ASSUME TreeInv, NEW h \in Handles, NEW t \in Paths, NEW attr,
           attr \in IF t \in Folders THEN {{"Directory"}} ELSE Attrs, OpenCreate(h, t, attr)
    PROVE  TreeKept \/ Strayed
<1>1. PICK r : r = IF IsFolder(attr) THEN create_folder(disk, t, attr) ELSE create_file(disk, t, attr)
  OBVIOUS
<1>2. t # <<>> /\ target' = t /\ fault = <<>>
  BY DEF OpenCreate, Call
<1>5. attr \in SUBSET Flags /\ Folders \subseteq Paths
  BY FilesAssumption DEF Attrs, Flags
<1>3. CASE Upper(disk, t).chain = <<>>
  <2>1. fault' = <<"parent">> /\ UNCHANGED <<disk, image, tainted, file>>
    BY <1>3 DEF OpenCreate, Fails
  <2>2. WildHasCause'
    BY <2>1 DEF WildHasCause
  <2> QED
    BY <2>1, <2>2, AllStill
<1>6. CASE Upper(disk, t).chain # <<>> /\ t \notin Named
  <2>1. PICK e : e = r.disk
    OBVIOUS
  <2>2. CASE r.ok
    <3>1. Astray'
      BY <1>1, <1>6, <2>2 DEF OpenCreate, Misplaced, Astray
    <3> QED
      BY <1>2, <1>6, <3>1 DEF Strayed
  <2>3. CASE ~r.ok
    <3>1. disk' = e /\ UNCHANGED <<file, fault, image, tainted>>
      BY <1>1, <1>6, <2>1, <2>3 DEF OpenCreate
    <3>2. e.fat = disk.fat /\ e.data = disk.data /\ e.root = disk.root
      BY <1>1, <1>2, <1>5, <2>1, <2>3, HandlesAre, ItemNotMade
    <3>3. e \in Disks
      <4>1. e \in Saved
        BY <1>1, <1>2, <1>5, <1>6, <2>1, HandlesAre, CreatedKeeps
      <4> QED
        BY <4>1 DEF Saved, Sound
    <3>4. Others(disk, e, t) /\ Lost(e) = Lost(disk) /\ Items(e) = Items(disk)
      BY <3>2, <3>3, HandlesAre, SameTree
    <3>5. t \notin Items(disk)
      BY <1>6 DEF Items
    <3>6. Shy(e)
      BY <3>3, <3>4, <3>5, HandlesAre, OthersShy
    <3>7. SameBut(tainted, tainted, t)
      BY DEF SameBut
    <3>8. FilesFor(e, tainted, file)
      BY <3>3, <3>4, <3>5, <3>7, HandlesAre, FilesKept
    <3>9. ImagesOf(e, tainted, image)
      <4>1. ImagesOf(disk, tainted, image)
        BY HandlesAre
      <4>2. image = [p \in Named |-> image[p]]
        BY <4>1 DEF ImagesOf
      <4> QED
        BY <1>6, <3>3, <3>4, <3>5, <3>7, <4>1, <4>2, HandlesAre, ImagesKept
    <3>10. WildHasCause'
      BY <1>2, <3>1, Calm
    <3>11. TreeStep
      BY <1>2, <3>1, <3>4 DEF TreeStep
    <3> QED
      BY <3>1, <3>6, <3>8, <3>9, <3>10, <3>11 DEF TreeKept
  <2> QED
    BY <2>2, <2>3
<1>7. ASSUME Upper(disk, t).chain # <<>>, t \in Named
      PROVE  /\ DropDot(t) = t /\ t \notin Items(disk)
             /\ Others(disk, r.disk, t) /\ Lost(r.disk) \subseteq Lost(disk)
             /\ IF r.ok THEN FreshItem(r.disk, t)
                             /\ ItemAt(r.disk, t).first = retrieve_free_index(disk)
                ELSE t \notin Items(r.disk)
  <2>1. retrieve_item(disk, DropDot(t)) = NoItem /\ ValidName(t, attr)
    BY DEF OpenCreate
  <2> QED
    BY <1>1, <1>7, <2>1, HandlesAre, NewDone
<1>8. CASE Upper(disk, t).chain # <<>> /\ t \in Named /\ r.ok /\ Misplaced(t)
  <2>1. Astray' /\ disk' = r.disk
    BY <1>1, <1>8 DEF OpenCreate, Astray
  <2>2. TreeStep
    BY <1>2, <1>7, <1>8, <2>1 DEF TreeStep
  <2> QED
    BY <2>1, <2>2 DEF Strayed
<1>4. CASE Upper(disk, t).chain # <<>> /\ t \in Named /\ ~(r.ok /\ Misplaced(t))
  <2>1. PICK e : e = r.disk
    OBVIOUS
  <2>2. PICK item : item = [retrieve_item(e, DropDot(t)) EXCEPT !.attr = attr, !.size = 0]
    OBVIOUS
  <2>3. /\ disk' = e /\ UNCHANGED <<fault, image, tainted>>
        /\ file' = IF r.ok THEN [file EXCEPT ![h] = NewFile(t, item, e)] ELSE file
    BY <1>1, <1>4, <2>1, <2>2 DEF OpenCreate
  <2>4. /\ DropDot(t) = t /\ t \notin Items(disk)
        /\ Others(disk, e, t) /\ Lost(e) \subseteq Lost(disk)
        /\ IF r.ok THEN FreshItem(e, t) ELSE t \notin Items(e)
    BY <1>4, <1>7, <2>1
  <2>6. e \in Disks
    <3>1. e \in Saved
      BY <1>1, <1>2, <1>4, <1>5, <2>1, HandlesAre, CreatedKeeps
    <3> QED
      BY <3>1 DEF Saved, Sound
  <2>13. Shy(e)
    <3>1. t \in Items(e) => ItemAt(e, t).first # RootSector
      BY <1>4, <1>7, <2>1 DEF Misplaced
    <3> QED
      BY <2>4, <2>6, <3>1, HandlesAre, OthersShy
  <2>7. SameBut(tainted, tainted, t)
    BY DEF SameBut
  <2>8. FilesFor(e, tainted, file)
    BY <2>4, <2>6, <2>7, HandlesAre, FilesKept
  <2>9. FilesFor(e, tainted, file')
    <3>1. CASE r.ok
      <4>1. FreshItem(e, t)
        BY <2>4, <3>1
      <4>2. PICK f : f = NewFile(t, item, e)
        OBVIOUS
      <4>3. PICK s \in Slots : s = retrieve_item(e, DropDot(t)) /\ s = ItemAt(e, t)
        <5>1. ItemAt(e, t) # NoItem /\ ItemAt(e, t) \in Slots \cup {NoItem}
          BY <1>4, <2>6, <4>1, ItemNext DEF FreshItem, Items, file_exist, ItemAt
        <5> QED
          BY <2>4, <5>1 DEF ItemAt
      <4>4. item.first = s.first /\ item.attr = attr /\ item.size = 0
        BY <2>2, <4>3 DEF Slots
      <4>5. f.path = t /\ f.first = s.first /\ f.attr = attr /\ (~ IsFolder(attr) => f.size = 0)
        BY <4>2, <4>4 DEF NewFile
      <4>6. FileFor(e, tainted, f)
        <5>1. CASE t \in Folders
          BY <4>5, <5>1 DEF FileFor, IsFolder
        <5>2. CASE t \notin Folders
          <6>1. attr \cap {"Volume_ID", "Directory"} = {} /\ ~ IsFolder(attr)
            BY <5>2 DEF Attrs, IsFolder
          <6>2. t \in Items(e) \ Folders
            BY <4>1, <5>2 DEF FreshItem
          <6>3. 0 <= Len(Chain(e, t)) * K
            <7>1. Len(Chain(e, t)) \in Nat
              BY <2>6, ChainOf, LenProperties DEF Chain
            <7> QED
              BY <7>1, Sizes0
          <6> QED
            BY <4>3, <4>5, <6>1, <6>2, <6>3 DEF FileFor
        <5> QED
          BY <5>1, <5>2
      <4> QED
        BY <2>3, <2>8, <3>1, <4>2, <4>6, HandlesAre, FileSetFor
    <3> QED
      BY <2>3, <2>8, <3>1
  <2>10. ImagesOf(e, tainted, image)
    <3>1. ImagesOf(disk, tainted, image)
      BY HandlesAre
    <3>2. image[t] = <<>> /\ t \notin tainted /\ image = [p \in Named |-> image[p]]
      BY <1>4, <2>4, <3>1 DEF ImagesOf
    <3>3. ASSUME t \in Items(e) \ Folders PROVE Stored(e, t, image[t])
      <4>1. FreshItem(e, t)
        BY <2>4, <3>3
      <4> QED
        BY <2>6, <3>2, <3>3, <4>1, FreshStored
    <3> QED
      BY <2>4, <2>6, <2>7, <3>1, <3>2, <3>3, HandlesAre, ImagesKept
  <2>11. WildHasCause'
    BY <1>2, <2>3, Calm
  <2>12. TreeStep
    BY <1>2, <2>3, <2>4 DEF TreeStep
  <2> QED
    BY <2>3, <2>9, <2>10, <2>11, <2>12, <2>13 DEF TreeKept
<1> QED
  BY <1>3, <1>4, <1>6, <1>8

LEMMA CloseTree ==
    ASSUME TreeInv, NEW h \in Handles, CloseFile(h)
    PROVE  TreeKept
<1>1. /\ fault = <<>> /\ UNCHANGED <<disk, fault, image, tainted>>
      /\ file' = [file EXCEPT ![h] = Closed]
  BY DEF CloseFile, Call
<1>2. FilesFor(disk, tainted, file')
  BY <1>1, HandlesAre, FileSetFor
<1>3. WildHasCause'
  BY <1>1, Calm
<1> QED
  BY <1>1, <1>2, <1>3, Still

LEMMA SeekTree ==
    ASSUME TreeInv, NEW h \in Handles, NEW op, NEW n \in Offsets, Seek(h, op, n)
    PROVE  TreeKept
<1>1. PICK f \in Opened : f = file[h] /\ file[h] # Closed
  BY HandlesAre, HandleIs DEF Seek
<1>2. fault = <<>> /\ UNCHANGED <<disk, fault, image, tainted>>
  BY DEF Seek, Call
<1>3. FileFor(disk, tainted, f)
  BY <1>1, HandlesAre DEF FilesFor
<1>4. /\ f = [path |-> f.path, first |-> f.first, attr |-> f.attr, pos |-> f.pos,
              size |-> f.size, stale |-> f.stale, touched |-> f.touched]
  BY DEF Opened
<1>5. ASSUME NEW pos PROVE FileFor(disk, tainted, [f EXCEPT !.pos = pos])
  <2>1. PICK g : g = [f EXCEPT !.pos = pos]
    OBVIOUS
  <2>2. /\ g.path = f.path /\ g.first = f.first /\ g.attr = f.attr /\ g.stale = f.stale
        /\ g.size = f.size /\ g.touched = f.touched
    BY <1>4, <2>1
  <2> QED
    BY <1>3, <2>1, <2>2 DEF FileFor
<1>6. FileFor(disk, tainted, [f EXCEPT !.size = n, !.pos = n, !.touched = TRUE])
  <2>1. PICK g : g = [f EXCEPT !.size = n, !.pos = n, !.touched = TRUE]
    OBVIOUS
  <2>2. /\ g.path = f.path /\ g.first = f.first /\ g.attr = f.attr /\ g.stale = f.stale
        /\ g.touched
    BY <1>4, <2>1
  <2> QED
    BY <1>3, <2>1, <2>2 DEF FileFor
<1>7. \E g : file' = [file EXCEPT ![h] = g] /\ FileFor(disk, tainted, g)
  <2>1. \/ \E pos : file' = [file EXCEPT ![h].pos = pos]
        \/ file' = [file EXCEPT ![h] = [file[h] EXCEPT !.size = n, !.pos = n, !.touched = TRUE]]
    BY DEF Seek
  <2>2. \A pos : [file EXCEPT ![h].pos = pos] = [file EXCEPT ![h] = [file[h] EXCEPT !.pos = pos]]
    OBVIOUS
  <2> QED
    BY <1>1, <1>5, <1>6, <2>1, <2>2
<1>8. FilesFor(disk, tainted, file')
  <2>1. PICK g : file' = [file EXCEPT ![h] = g] /\ FileFor(disk, tainted, g)
    BY <1>7
  <2>2. file \in [Handles -> Opened \cup {Closed}] /\ FilesFor(disk, tainted, file)
    BY HandlesAre
  <2>3. FilesFor(disk, tainted, [file EXCEPT ![h] = g])
    BY <2>1, <2>2, FileSetFor
  <2> QED
    BY <2>1, <2>3
<1>9. WildHasCause'
  BY <1>2, Calm
<1> QED
  BY <1>2, <1>8, <1>9, Still

LEMMA DeleteTree ==
    ASSUME TreeInv, NEW t \in Named, DeleteFsFile(t)
    PROVE  TreeKept
<1>1. PICK e : e = rmdir(disk, t).disk
  OBVIOUS
<1>2. /\ target' = t /\ fault = <<>> /\ UNCHANGED fault /\ disk' = e
      /\ rmdir(disk, t).error = "Success" /\ t \in Items(disk)
      /\ file' = [h \in Handles |-> IF file[h] # Closed /\ file[h].path = t
                                    THEN [file[h] EXCEPT !.stale = TRUE] ELSE file[h]]
      /\ image' = [image EXCEPT ![t] = <<>>] /\ tainted' = tainted \ {t}
  BY <1>1 DEF DeleteFsFile, Call, Items
<1>3. e \in Disks
  <2>1. e \in Saved
    BY <1>1, HandlesAre, RemoveKeeps
  <2> QED
    BY <2>1 DEF Saved, Sound
<1>4. PICK l, v : l = List(disk, Front(t)) /\ v = RemoveAt(l, IndexOf(l, Last(t)))
  OBVIOUS
<1>5. /\ Moves(disk, e, t, v, NoItem)
      /\ \A x \in Clusters : e.fat[x] = IF x \in ToSet(Chain(disk, t)) THEN 0 ELSE disk.fat[x]
  BY <1>1, <1>2, <1>4, HandlesAre, ItemErased
<1>6. Others(disk, e, t) /\ t \notin Items(e)
  <2>1. NoItem = NoItem
    OBVIOUS
  <2> QED
    BY <1>3, <1>5, <2>1, HandlesAre, MoveDone
<1>7. Lost(e) \subseteq Lost(disk)
  <2>1. \A x \in Taken(e) : x \in Taken(disk)
    BY <1>5 DEF Taken
  <2>2. \A x \in ToSet(Chain(disk, t)) : x \in Clusters
    BY HandlesAre, ChainTaken DEF Chain
  <2>3. \A x \in ToSet(Chain(disk, t)) : e.fat[x] = 0
    BY <1>5, <2>2
  <2> QED
    BY <1>3, <1>5, <2>1, <2>3, HandlesAre, MoveLost
<1>8. SameBut(tainted, tainted', t)
  BY <1>2 DEF SameBut
<1>9. FilesFor(e, tainted', file')
  <2>1. SUFFICES ASSUME NEW h \in Handles, file'[h] # Closed
                 PROVE  FileFor(e, tainted', file'[h])
    BY DEF FilesFor
  <2>2. file'[h] = IF file[h] # Closed /\ file[h].path = t
                   THEN [file[h] EXCEPT !.stale = TRUE] ELSE file[h]
    BY <1>2
  <2>3. file[h] # Closed
    BY <2>1, <2>2
  <2>4. PICK f \in Opened : f = file[h]
    BY <2>3, HandlesAre, HandleIs
  <2>5. FileFor(disk, tainted, f)
    BY <2>3, <2>4, HandlesAre DEF FilesFor
  <2>6. CASE f.path = t
    <3>1. PICK g : g = [f EXCEPT !.stale = TRUE]
      OBVIOUS
    <3>2. g.stale /\ g.attr = f.attr
      BY <3>1 DEF Opened
    <3>3. FileFor(e, tainted', g)
      BY <2>5, <3>2 DEF FileFor
    <3> QED
      BY <2>2, <2>3, <2>4, <2>6, <3>1, <3>3
  <2>7. CASE f.path # t
    <3>1. FileFor(e, tainted', f)
      BY <1>3, <1>6, <1>8, <2>5, <2>7, HandlesAre, FileKept
    <3> QED
      BY <2>2, <2>4, <2>7, <3>1
  <2> QED
    BY <2>6, <2>7
<1>10. ImagesOf(e, tainted', image')
  <2>1. ImagesOf(disk, tainted, image)
    BY HandlesAre
  <2>2. image = [p \in Named |-> image[p]]
    BY <2>1 DEF ImagesOf
  <2>3. /\ image' = [p \in Named |-> image'[p]] /\ image'[t] = <<>>
        /\ \A p \in Named : p # t => image'[p] = image[p]
    BY <1>2, <2>2
  <2>4. t \notin tainted'
    BY <1>2
  <2> QED
    BY <1>3, <1>6, <1>8, <2>1, <2>3, <2>4, HandlesAre, ImagesKept
<1>11. WildHasCause'
  BY <1>2, Calm
<1>12. Shy(e)
  BY <1>3, <1>6, HandlesAre, OthersShy
<1> QED
  BY <1>2, <1>6, <1>7, <1>9, <1>10, <1>11, <1>12 DEF TreeKept, TreeStep

LEMMA EnteredFor ==
    ASSUME NEW d \in Disks, NEW e, NEW t \in Items(d) \ Folders, NEW attr, Tidy(d),
           Entered(d, e, t, [ItemAt(d, t) EXCEPT !.attr = attr]),
           NEW taints, NEW images, ImagesOf(d, taints, images), NEW files, FilesFor(d, taints, files)
    PROVE  ImagesOf(e, taints, images) /\ FilesFor(e, taints, files)
<1>1. PICK slot : slot = [ItemAt(d, t) EXCEPT !.attr = attr]
  OBVIOUS
<1>2. /\ e \in Refilled(d) /\ Others(d, e, t) /\ t \in Items(e) /\ ItemAt(e, t) = slot
      /\ Chain(e, t) = Chain(d, t) /\ \A x \in ToSet(Chain(d, t)) : e.data[x] = d.data[x]
  BY <1>1 DEF Entered
<1>3. e \in Disks /\ t \in Named
  BY <1>2, RefilledKeeps DEF Items
<1>4. slot.first = ItemAt(d, t).first /\ slot.size = ItemAt(d, t).size
  <2>1. ItemAt(d, t) \in Slots
    BY EntrySlot
  <2> QED
    BY <1>1, <2>1 DEF Slots
<1>5. SameBut(taints, taints, t)
  BY DEF SameBut
<1>6. FilesFor(e, taints, files)
  <2>1. ASSUME NEW h \in Handles, files[h] # Closed, files[h].path = t
        PROVE  FileFor(e, taints, files[h])
    <3>1. FileFor(d, taints, files[h])
      BY <2>1 DEF FilesFor
    <3> QED
      BY <1>2, <1>4, <2>1, <3>1 DEF FileFor
  <2> QED
    BY <1>2, <1>3, <1>5, <2>1, FilesKept
<1>7. ASSUME t \notin taints PROVE Stored(e, t, images[t])
  <2>1. Stored(d, t, images[t])
    BY <1>7 DEF ImagesOf
  <2>2. \A i \in 1 .. Len(Chain(d, t)) : e.data[Chain(d, t)[i]] = d.data[Chain(d, t)[i]]
    <3>1. Chain(d, t) \in Seq(Clusters)
      BY ChainOf DEF Chain
    <3> QED
      BY <1>2, <3>1, SetOf
  <2> QED
    BY <1>2, <1>3, <1>4, <2>1, <2>2, StoredKept
<1>8. images = [p \in Named |-> images[p]]
  BY DEF ImagesOf
<1>9. ImagesOf(e, taints, images)
  BY <1>2, <1>3, <1>5, <1>7, <1>8, ImagesKept
<1> QED
  BY <1>6, <1>9

LEMMA AttributeTree ==
    ASSUME TreeInv, NEW t \in Named, NEW attr \in Attrs \cup {{"Directory"}}, SetFileAttribute(t, attr)
    PROVE  TreeKept
<1>1. target' = t /\ fault = <<>>
  BY DEF SetFileAttribute, Call
<1>2. CASE Upper(disk, t).chain = <<>>
  <2>1. fault' = <<"parent">> /\ UNCHANGED <<disk, image, tainted, file>>
    BY <1>2 DEF SetFileAttribute, Fails
  <2>2. WildHasCause'
    BY <2>1 DEF WildHasCause
  <2> QED
    BY <2>1, <2>2, AllStill
<1>3. CASE Upper(disk, t).chain # <<>>
  <2>1. PICK e : e = set_file_attribute(disk, t, attr).disk
    OBVIOUS
  <2>2. /\ disk' = e /\ UNCHANGED <<file, fault, image, tainted>>
        /\ file_exist(disk, t) => ("Directory" \in attr <=> "Directory" \in ItemAt(disk, t).attr)
    BY <1>3, <2>1 DEF SetFileAttribute, ItemAt
  <2>3. Front(t) \in Directories(disk)
    BY <1>3, HandlesAre, UpperAre
  <2>4. \/ e = disk
        \/ t \in Items(disk) \ Folders /\ Entered(disk, e, t, [ItemAt(disk, t) EXCEPT !.attr = attr])
    BY <2>1, <2>2, <2>3, HandlesAre, AttributeDone
  <2>5. WildHasCause'
    BY <1>1, <2>2, Calm
  <2>6. CASE e = disk
    BY <2>2, <2>5, <2>6, AllStill
  <2>7. CASE t \in Items(disk) \ Folders /\ Entered(disk, e, t, [ItemAt(disk, t) EXCEPT !.attr = attr])
    <3>1. ImagesOf(e, tainted, image) /\ FilesFor(e, tainted, file)
      BY <2>7, HandlesAre, EnteredFor
    <3>2. Others(disk, e, t) /\ Lost(e) \subseteq Lost(disk)
      BY <2>7 DEF Entered
    <3>3. Shy(e)
      <4>1. ItemAt(disk, t) \in Slots /\ ItemAt(disk, t).first # RootSector
        BY <2>7, HandlesAre, EntrySlot DEF Shy
      <4>2. ItemAt(e, t).first = ItemAt(disk, t).first
        BY <2>7, <4>1 DEF Entered, Slots
      <4>3. e \in Disks
        BY <2>7, HandlesAre, RefilledKeeps DEF Entered
      <4> QED
        BY <3>2, <4>1, <4>2, <4>3, HandlesAre, OthersShy
    <3> QED
      BY <1>1, <2>2, <2>5, <3>1, <3>2, <3>3 DEF TreeKept, TreeStep
  <2> QED
    BY <2>4, <2>6, <2>7
<1> QED
  BY <1>2, <1>3

LEMMA RebootTree ==
    ASSUME TreeInv, Reboot
    PROVE  TreeKept
<1>1. PICK d \in Saved : d = disk
  BY HandlesAre
<1>2. /\ d \in Disks /\ d.copies = <<d.bytes, d.bytes>> /\ d.fat = convert_fat_to_dec(d.bytes, N)
  BY DEF Saved, Sound
<1>3. d.copies[1] = d.bytes
  BY <1>2
<1>4. Mount(d) = d
  BY <1>2, <1>3 DEF Mount, Disks
<1>5. /\ fault = <<>> /\ UNCHANGED <<disk, fault, image, tainted>>
      /\ file' = [h \in Handles |-> Closed]
  BY <1>1, <1>4 DEF Reboot, Call
<1>6. FilesFor(disk, tainted, file')
  BY <1>5 DEF FilesFor
<1>7. WildHasCause'
  BY <1>5, Calm
<1> QED
  BY <1>5, <1>6, <1>7, Still

(* The causes of WildHasCause *)
Cause(d, taints, f) ==
    \/ f.touched
    \/ f.path \in taints
    \/ \E n \in Sizes : f.pos + n >= W
    \/ /\ IsFolder(f.attr)
       /\ \/ f.pos > f.size
          \/ f.size > Len(dirread(d, f.path))

LEMMA WildKept ==
    ASSUME NEW h, fault' = <<"wild", h>>, UNCHANGED <<disk, tainted, file>>,
           Cause(disk, tainted, file[h])
    PROVE  WildHasCause'
<1>1. \A g : <<"wild", h>> = <<"wild", g>> => g = h
  OBVIOUS
<1>2. \A g : fault' = <<"wild", g>> => g = h
  BY <1>1
<1>3. \A g \in Handles : fault' = <<"wild", g>> => Cause(disk, tainted, file[g])
  BY <1>2
<1> QED
  BY <1>3 DEF WildHasCause, Cause

LEMMA WrapIs ==
    ASSUME NEW n \in Int
    PROVE  /\ n \in 0 .. W - 1 => Wrap(n) = n
           /\ n \in -W .. -1 => Wrap(n) = W + n
<1>1. PICK w \in Nat : w = W /\ w > 0
  BY Sizes0
<1>2. n \in 0 .. w - 1 => n % w = n
  BY <1>1
<1>3. n \in -w .. -1 => n % w = w + n
  BY <1>1
<1> QED
  BY <1>1, <1>2, <1>3 DEF Wrap

(* A read of a part of at most n slots at pos, of an open file with size *)
RestOf(size, pos, n, some) ==
    some = IF n < Wrap(size - pos) THEN n ELSE Wrap(size - pos)

LEMMA PartInside ==
    ASSUME NEW size \in 0 .. W - 1, NEW pos \in 0 .. W - 1, NEW n \in Nat, n <= W,
           NEW some, RestOf(size, pos, n, some)
    PROVE  /\ some \in Nat
           /\ pos <= size => pos + some <= size
           /\ pos > size /\ pos + n < W => Wrap(pos + some) > size
<1>1. PICK w \in Nat : w = W /\ w > 0
  BY Sizes0
<1>2. PICK rest \in Nat : rest = Wrap(size - pos) /\ rest = IF pos <= size THEN size - pos ELSE w + (size - pos)
  <2>1. size - pos \in Int
    BY <1>1
  <2>2. CASE pos <= size
    <3>1. size - pos \in 0 .. W - 1
      BY <1>1, <2>2
    <3> QED
      BY <1>1, <2>1, <2>2, <3>1, WrapIs
  <2>3. CASE ~ (pos <= size)
    <3>1. size - pos \in -W .. -1
      BY <1>1, <2>3
    <3>2. Wrap(size - pos) = W + (size - pos)
      BY <2>1, <3>1, WrapIs
    <3> QED
      BY <1>1, <2>3, <3>2
  <2> QED
    BY <2>2, <2>3
<1>3. some \in Nat /\ some = IF n < rest THEN n ELSE rest
  BY <1>2 DEF RestOf
<1>4. pos <= size => pos + some <= size
  BY <1>1, <1>2, <1>3
<1>5. ASSUME pos > size, pos + n < W PROVE Wrap(pos + some) > size
  <2>1. some = n
    BY <1>1, <1>2, <1>3, <1>5
  <2>2. pos + some \in 0 .. W - 1 /\ pos + some \in Int
    BY <1>1, <1>3, <1>5, <2>1
  <2>3. Wrap(pos + some) = pos + some
    BY <2>2, WrapIs
  <2> QED
    BY <1>1, <1>3, <1>5, <2>3
<1> QED
  BY <1>3, <1>4, <1>5

LEMMA ReadWild ==
    ASSUME NEW d \in Disks, NEW taints, NEW f \in Opened, FileFor(d, taints, f), ~f.stale,
           NEW n \in Sizes, NEW some, RestOf(f.size, f.pos, n, some),
           NEW r, r = IF f.attr \cap {"Volume_ID", "Directory"} # {}
                      THEN FatReadDir(d, f, some, f.pos) ELSE FatRead(d, f, some, f.pos),
           r.error = "wild"
    PROVE  Cause(d, taints, f)
<1>1. PICK size, pos : size = f.size /\ pos = f.pos
  OBVIOUS
<1>2. /\ size \in 0 .. W - 1 /\ pos \in 0 .. W - 1 /\ n \in Nat /\ n <= W /\ size \in Nat /\ pos \in Nat
  <2>1. size \in 0 .. W - 1 /\ pos \in 0 .. W - 1
    BY <1>1 DEF Opened
  <2>2. n \in Nat /\ n + (N * K) <= W
    BY FilesAssumption
  <2>3. PICK b \in Nat : b = N * K
    BY Sizes0
  <2> QED
    BY <2>1, <2>2, <2>3, Sizes0
<1>3. RestOf(size, pos, n, some)
  BY <1>1
<1>4. /\ some \in Nat
      /\ pos <= size => pos + some <= size
      /\ pos > size /\ pos + n < W => Wrap(pos + some) > size
  BY <1>2, <1>3, PartInside
<1>5. CASE f.attr \cap {"Volume_ID", "Directory"} # {}
  <2>1. IsFolder(f.attr)
    BY <1>5 DEF FileFor
  <2>2. PICK all : all = dirread(d, f.path)
    OBVIOUS
  <2>3. PICK l \in Nat : l = Len(all)
    BY <2>2, ListIs DEF dirread
  <2>4. pos + some > l
    BY <1>1, <1>5, <2>2, <2>3 DEF FatReadDir, PartOfDir, Part
  <2>5. pos > size \/ size > l
    BY <1>2, <1>4, <2>3, <2>4
  <2> QED
    BY <1>1, <2>1, <2>2, <2>3, <2>5 DEF Cause
<1>6. CASE f.attr \cap {"Volume_ID", "Directory"} = {}
  <2>1. PICK s : s = retrieve_sectors_fs(d.fat, f.first)
    OBVIOUS
  <2>2. s \in Seq(Clusters) /\ s = Chain(d, f.path)
    BY <1>6, <2>1, ChainOf DEF FileFor, Chain
  <2>3. PICK k \in Nat : k = Len(s) * K
    BY <2>2, LenProperties, Sizes0
  <2>4. Len(Content(d, s)) = k
    BY <2>2, <2>3, ContentIs
  <2>5. ~ (Wrap(pos + some) > size) /\ pos + some > k
    <3>1. r = FatRead(d, f, some, pos)
      BY <1>1, <1>6
    <3> QED
      BY <1>1, <2>1, <2>4, <3>1 DEF FatRead, Part, Wrap
  <2>6. CASE pos <= size
    <3>1. size > k
      BY <1>2, <1>4, <2>3, <2>5, <2>6
    <3>2. f.touched \/ f.path \in taints
      BY <1>1, <1>2, <1>6, <2>2, <2>3, <3>1 DEF FileFor
    <3> QED
      BY <3>2 DEF Cause
  <2>7. CASE ~ (pos <= size)
    <3>1. pos + n >= W
      BY <1>2, <1>4, <2>5, <2>7, Sizes0
    <3> QED
      BY <1>1, <3>1 DEF Cause
  <2> QED
    BY <2>6, <2>7
<1> QED
  BY <1>5, <1>6

LEMMA ReadTree ==
    ASSUME TreeInv, NEW h \in Handles, NEW n \in Sizes, Read(h, n)
    PROVE  TreeKept
<1>1. PICK f \in Opened : f = file[h] /\ file[h] # Closed
  BY HandlesAre, HandleIs DEF Read
<1>2. PICK some : RestOf(f.size, f.pos, n, some)
  BY DEF RestOf
<1>3. PICK r : r = IF f.attr \cap {"Volume_ID", "Directory"} # {}
                   THEN FatReadDir(disk, f, some, f.pos) ELSE FatRead(disk, f, some, f.pos)
  OBVIOUS
<1>4. FileFor(disk, tainted, f)
  BY <1>1, HandlesAre DEF FilesFor
<1>5. /\ fault = <<>>
      /\ IF f.stale THEN Fails(<<"stale">>)
         ELSE IF r.error = "wild" THEN Fails(<<"wild", h>>)
         ELSE /\ file' = [file EXCEPT ![h].pos = Wrap(@ + Len(r.out))]
              /\ UNCHANGED <<disk, fault, image, tainted>>
  BY <1>1, <1>2, <1>3 DEF Read, RestOf, Call
<1>6. CASE f.stale
  <2>1. fault' = <<"stale">> /\ UNCHANGED <<disk, image, tainted, file>>
    BY <1>5, <1>6 DEF Fails
  <2>2. WildHasCause'
    BY <2>1 DEF WildHasCause
  <2> QED
    BY <2>1, <2>2, AllStill
<1>7. CASE ~f.stale /\ r.error = "wild"
  <2>1. fault' = <<"wild", h>> /\ UNCHANGED <<disk, image, tainted, file>>
    BY <1>5, <1>7 DEF Fails
  <2>2. Cause(disk, tainted, f)
    BY <1>2, <1>3, <1>4, <1>7, HandlesAre, ReadWild
  <2>3. WildHasCause'
    BY <1>1, <2>1, <2>2, WildKept
  <2> QED
    BY <2>1, <2>3, AllStill
<1>8. CASE ~f.stale /\ r.error # "wild"
  <2>1. PICK pos : pos = Wrap(f.pos + Len(r.out))
    OBVIOUS
  <2>2. file' = [file EXCEPT ![h] = [f EXCEPT !.pos = pos]] /\ UNCHANGED <<disk, fault, image, tainted>>
    BY <1>1, <1>5, <1>8, <2>1, HandlesAre DEF Opened
  <2>3. PICK g : g = [f EXCEPT !.pos = pos]
    OBVIOUS
  <2>4. /\ g.path = f.path /\ g.first = f.first /\ g.attr = f.attr /\ g.stale = f.stale
        /\ g.size = f.size /\ g.touched = f.touched
    BY <2>3 DEF Opened
  <2>5. FileFor(disk, tainted, g)
    BY <1>4, <2>4 DEF FileFor
  <2>6. FilesFor(disk, tainted, [file EXCEPT ![h] = g])
    BY <2>5, HandlesAre, FileSetFor
  <2>7. WildHasCause'
    BY <1>5, <2>2, Calm
  <2> QED
    BY <2>2, <2>3, <2>6, <2>7, Still
<1> QED
  BY <1>6, <1>7, <1>8

(* What a write that does not go astray does with the file t, in which     *)
(* images says what was written to it.                                     *)
WriteOk(d, e, t, others, written) ==
    /\ e \in Disks /\ Others(d, e, t) /\ t \in Items(e) /\ ItemAt(e, t).first = ItemAt(d, t).first
    /\ t \notin others =>
          /\ Lost(e) \subseteq Lost(d) /\ Len(Chain(e, t)) >= Len(Chain(d, t))
          /\ Stored(e, t, written)

Reimaged(images, new, t) ==
    /\ new = [p \in Named |-> new[p]]
    /\ \A p \in Named : p # t => new[p] = images[p]

(* What a write changes, but for the file it writes to *)
WriteSets(taints, others, images, new, t) ==
    others \in {taints, taints \cup {t}} /\ Reimaged(images, new, t)
Known(d, taints, images, files) == ImagesOf(d, taints, images) /\ FilesFor(d, taints, files)

LEMMA WriteFor ==
    ASSUME NEW d \in Disks, NEW e, NEW t \in Items(d) \ Folders, NEW taints, NEW others,
           NEW images, NEW files \in [Handles -> Opened \cup {Closed}],
           Known(d, taints, images, files), NEW new, WriteSets(taints, others, images, new, t),
           NEW v, v = new[t], WriteOk(d, e, t, others, v)
    PROVE  Known(e, others, new, files)
<1> others \in {taints, taints \cup {t}} /\ Reimaged(images, new, t)
  BY DEF WriteSets
<1> ImagesOf(d, taints, images) /\ FilesFor(d, taints, files)
  BY DEF Known
<1>1. /\ e \in Disks /\ Others(d, e, t) /\ t \in Items(e) /\ ItemAt(e, t).first = ItemAt(d, t).first
      /\ t \notin others => Len(Chain(e, t)) >= Len(Chain(d, t)) /\ Stored(e, t, new[t])
  BY DEF WriteOk
<1>2. SameBut(taints, others, t) /\ (t \notin others => t \notin taints)
  BY DEF SameBut
<1>3. ImagesOf(e, others, new)
  <2>1. new = [p \in Named |-> new[p]] /\ \A p \in Named : p # t => new[p] = images[p]
    BY DEF Reimaged
  <2> QED
    BY <1>1, <1>2, <2>1, ImagesKept
<1>4. PICK a, b, k \in Nat : a = Len(Chain(d, t)) /\ b = Len(Chain(e, t)) /\ k = K
  <2>1. Chain(d, t) \in Seq(Clusters) /\ Chain(e, t) \in Seq(Clusters)
    BY <1>1, ChainOf DEF Chain
  <2>2. Len(Chain(d, t)) \in Nat /\ Len(Chain(e, t)) \in Nat /\ K \in Nat
    BY <2>1, LenProperties, Sizes0
  <2> QED
    BY <2>2
<1>5. ASSUME t \notin others PROVE a * k <= b * k /\ a * k \in Nat /\ b * k \in Nat
  BY <1>1, <1>4, <1>5
<1>6. ASSUME NEW h \in Handles, files[h] # Closed, files[h].path = t
      PROVE  files[h].stale \/ t \notin Items(d) \/ FileFor(e, others, files[h])
  <2>1. PICK f : f = files[h]
    OBVIOUS
  <2>2. FileFor(d, taints, f) /\ f.path = t
    BY <1>6, <2>1 DEF FilesFor
  <2>3. ASSUME ~f.stale, f.attr \cap {"Volume_ID", "Directory"} = {}
        PROVE  /\ f.path \in Items(e) \ Folders /\ f.first = ItemAt(e, f.path).first
               /\ ~f.touched /\ f.path \notin others => f.size <= Len(Chain(e, f.path)) * K
    <3>1. /\ f.first = ItemAt(d, t).first
          /\ ~f.touched /\ t \notin taints => f.size <= a * k
      BY <1>4, <2>2, <2>3 DEF FileFor
    <3>2. ASSUME ~f.touched, t \notin others PROVE f.size <= b * k
      <4>1. f.size <= a * k
        BY <1>2, <3>1, <3>2
      <4>2. f.size \in Int
        <5>1. f \in Opened
          BY <1>6, <2>1
        <5> QED
          BY <5>1, Sizes0 DEF Opened
      <4>3. PICK x, y, z \in Int : x = f.size /\ y = a * k /\ z = b * k /\ y <= z
        BY <1>5, <3>2, <4>2
      <4> QED
        BY <4>1, <4>3
    <3> QED
      BY <1>1, <1>4, <2>2, <3>1, <3>2
  <2>4. FileFor(e, others, f)
    BY <2>2, <2>3 DEF FileFor
  <2> QED
    BY <2>1, <2>4
<1>7. FilesFor(e, others, files)
  BY <1>1, <1>2, <1>6, FilesKept
<1> QED
  BY <1>3, <1>7 DEF Known

LEMMA WriteTree ==
    ASSUME TreeInv, NEW h \in Handles, NEW n \in Sizes, NEW v \in Values, Write(h, n, v)
    PROVE  TreeKept
<1>1. PICK f \in Opened : f = file[h] /\ file[h] # Closed
  BY HandlesAre, HandleIs DEF Write
<1>2. PICK pos, t, buf, r : pos = f.pos /\ t = f.path /\ buf = [i \in 1 .. n |-> Datum(v)]
                            /\ r = FatWrite(disk, f, pos, buf)
  OBVIOUS
<1>3. PICK new : new = ClusterCount(pos + n) - Len(retrieve_sectors_fs(disk.fat, f.first))
  OBVIOUS
<1>4. /\ fault = <<>> /\ target' = t /\ f.attr \cap {"Read_Only", "Directory"} = {}
      /\ IF "Volume_ID" \in f.attr THEN Fails(<<"root">>)
         ELSE IF f.stale THEN Fails(<<"stale">>)
         ELSE IF r.error = "wild" THEN Fails(<<"wild", h>>)
         ELSE /\ disk' = r.disk
              /\ file' = [file EXCEPT ![h] =
                    [f EXCEPT !.pos = Wrap(@ + r.written),
                              !.size = Wrap(r.size + r.written), !.touched = TRUE]]
              /\ image' = IF r.disk = disk THEN image
                          ELSE [image EXCEPT ![t] = Overlay(@, pos, SubSeq(buf, 1, r.size - pos))]
              /\ tainted' = IF new >= 2 THEN tainted \union {t} ELSE tainted
              /\ UNCHANGED fault
  BY <1>1, <1>2, <1>3 DEF Write, Call
<1>5. FileFor(disk, tainted, f)
  BY <1>1, HandlesAre DEF FilesFor
<1>6. CASE "Volume_ID" \in f.attr \/ f.stale
  <2>1. fault' \in {<<"root">>, <<"stale">>} /\ UNCHANGED <<disk, image, tainted, file>>
    BY <1>4, <1>6 DEF Fails
  <2>2. WildHasCause'
    BY <2>1 DEF WildHasCause
  <2> QED
    BY <2>1, <2>2, AllStill
<1>7. CASE "Volume_ID" \notin f.attr /\ ~f.stale
  <2>1. f.attr \cap {"Volume_ID", "Directory"} = {}
    BY <1>4, <1>7
  <2>2. /\ t \in Items(disk) \ Folders /\ f.first = ItemAt(disk, t).first /\ t \in Named
        /\ ~f.touched /\ t \notin tainted => f.size <= Len(Chain(disk, t)) * K
    BY <1>2, <1>5, <1>7, <2>1 DEF FileFor, Items
  <2>3. PICK s : s = Chain(disk, t) /\ s = retrieve_sectors_fs(disk.fat, f.first)
    BY <2>2 DEF Chain
  <2>4. s \in Seq(Clusters) /\ Len(s) \in Nat
    BY <2>3, HandlesAre, ChainOf, LenProperties DEF Chain
  <2>5. n \in Nat /\ n + (N * K) <= W /\ pos \in 0 .. W - 1 /\ pos \in Nat /\ f.size \in Int
    BY <1>2, FilesAssumption, Sizes0 DEF Opened
  <2>6. buf \in Seq(Slots) /\ Len(buf) = n
    <3>1. buf \in [1 .. n -> Slots]
      BY <1>2, SlotTypes
    <3> QED
      BY <2>5, <3>1, Filled
  <2>7. ShortOf(Len(buf), pos)
    BY <2>5, <2>6 DEF ShortOf
  <2>8. /\ r.disk = disk \/ Wrote(disk, r, t, s, pos, buf)
        /\ r.error = "wild" => ~ (pos > f.size) /\ SectorOf(pos) > Len(s)
    BY <1>2, <2>2, <2>3, <2>6, <2>7, HandlesAre, WroteFile
  <2>9. CASE r.error = "wild"
    <3>1. fault' = <<"wild", h>> /\ UNCHANGED <<disk, image, tainted, file>>
      BY <1>4, <1>7, <2>9 DEF Fails
    <3>2. f.touched \/ t \in tainted
      <4>1. SUFFICES ASSUME f.size <= Len(s) * K PROVE FALSE
        BY <2>2, <2>3
      <4>2. PICK l, k \in Nat : l = Len(s) /\ k = K /\ k > 1
        BY <2>4, Sizes0
      <4>3. PICK o, c \in Nat : c = SectorOf(pos) /\ pos = (c * k) + o
        <5>1. /\ SectorOf(pos) \in Nat /\ pos % K \in 0 .. K - 1
              /\ pos = (SectorOf(pos) * K) + (pos % K)
          BY <2>5, OffsetParts
        <5>2. pos % K \in Nat
          BY <4>2, <5>1
        <5> QED
          BY <4>2, <5>1, <5>2
      <4>4. pos <= l * k /\ c > l
        BY <2>5, <2>8, <2>9, <4>1, <4>2, <4>3
      <4>5. c * k >= (l + 1) * k
        BY <4>2, <4>3, <4>4
      <4> QED
        BY <4>2, <4>3, <4>4, <4>5
    <3>3. Cause(disk, tainted, f)
      BY <1>2, <3>2 DEF Cause
    <3>4. WildHasCause'
      BY <1>1, <3>1, <3>3, WildKept
    <3> QED
      BY <3>1, <3>4, AllStill
  <2>10. CASE r.error # "wild"
    <3>1. PICK e, others, im : e = r.disk /\ others = tainted' /\ im = image'
      OBVIOUS
    <3>2. /\ disk' = e /\ UNCHANGED fault
          /\ im = IF e = disk THEN image
                  ELSE [image EXCEPT ![t] = Overlay(@, pos, SubSeq(buf, 1, r.size - pos))]
          /\ others = IF new >= 2 THEN tainted \union {t} ELSE tainted
      BY <1>4, <1>7, <2>10, <3>1
    <3>3. ImagesOf(disk, tainted, image) /\ image = [p \in Named |-> image[p]]
      BY HandlesAre DEF ImagesOf
    <3>4. im = [p \in Named |-> im[p]] /\ \A p \in Named : p # t => im[p] = image[p]
      BY <3>2, <3>3
    <3>5. others \in {tainted, tainted \cup {t}}
      BY <3>2
    <3>6. e \in Disks
      <4>1. Written(FatWrite(disk, f, pos, buf))
        <5>1. f.size \in 0 .. W - 1 /\ Len(buf) + (N * K) <= W
          BY <2>5, <2>6 DEF Opened
        <5> QED
          BY <2>5, <2>6, <5>1, HandlesAre, FatWriteKeeps
      <4> QED
        BY <1>2, <3>1, <4>1 DEF Written, Saved, Sound
    <3>7. ASSUME t \notin others
          PROVE  t \notin tainted /\ ClusterCount(pos + Len(buf)) <= Len(s) + 1
                 /\ Stored(disk, t, image[t])
      <4>1. ClusterCount(pos + n) \in Nat
        <5>1. ClusterCount(pos + n) = SectorOf(pos) + ClusterCount((pos % K) + n)
              /\ SectorOf(pos) \in Nat /\ ClusterCount((pos % K) + n) \in Nat
          BY <2>5, OffsetParts
        <5> QED
          BY <5>1
      <4>2. ~ (new >= 2) /\ t \notin tainted
        BY <3>2, <3>7
      <4>3. ClusterCount(pos + n) <= Len(s) + 1
        BY <1>3, <2>3, <2>4, <4>1, <4>2
      <4> QED
        BY <2>2, <2>6, <3>3, <4>2, <4>3 DEF ImagesOf
    <3>8. WriteOk(disk, e, t, others, im[t])
      <4>1. CASE e = disk
        <5>1. Others(disk, disk, t) /\ im = image
          BY <3>2, <4>1, HandlesAre, OthersNone
        <5>2. Len(Chain(disk, t)) >= Len(Chain(disk, t))
          BY <2>3, <2>4
        <5> QED
          BY <2>2, <3>6, <3>7, <4>1, <5>1, <5>2 DEF WriteOk
      <4>2. CASE e # disk
        <5>1. Wrote(disk, r, t, s, pos, buf)
          BY <2>8, <3>1, <4>2
        <5>2. im[t] = Overlay(image[t], pos, SubSeq(buf, 1, r.size - pos))
          BY <2>2, <3>2, <3>3, <4>2
        <5>3. ASSUME t \notin others
              PROVE  /\ Lost(e) \subseteq Lost(disk) /\ Len(Chain(e, t)) >= Len(Chain(disk, t))
                     /\ Stored(e, t, im[t])
          <6>1. ClusterCount(pos + Len(buf)) <= Len(s) + 1 /\ Stored(disk, t, image[t])
            BY <3>7, <5>3
          <6>2. Lost(e) \subseteq Lost(disk) /\ Flat(disk, e, t, s, pos, buf, r.size)
            BY <3>1, <5>1, <6>1 DEF Wrote
          <6>3. Stored(r.disk, t, Overlay(image[t], pos, SubSeq(buf, 1, r.size - pos)))
            BY <2>2, <2>3, <2>5, <2>6, <5>1, <6>1, HandlesAre, WroteStored
          <6> QED
            BY <2>3, <3>1, <5>2, <6>2, <6>3 DEF Flat
        <5> QED
          BY <3>1, <3>6, <5>1, <5>3 DEF Wrote, WriteOk
      <4> QED
        BY <4>1, <4>2
    <3>9. ImagesOf(e, others, im) /\ FilesFor(e, others, file)
      <4>1. disk \in Disks /\ file \in [Handles -> Opened \cup {Closed}]
        BY HandlesAre
      <4>2. Known(disk, tainted, image, file)
        BY HandlesAre DEF Known
      <4>3. WriteSets(tainted, others, image, im, t)
        BY <3>4, <3>5 DEF WriteSets, Reimaged
      <4>4. t \in Items(disk) \ Folders
        BY <2>2
      <4>5. Known(e, others, im, file)
        BY <4>1, <4>2, <4>3, <4>4, <3>8, WriteFor
      <4> QED
        BY <4>5 DEF Known
    <3>10. FilesFor(e, others, file')
      <4>1. PICK p, z : p = Wrap(pos + r.written) /\ z = Wrap(r.size + r.written)
        OBVIOUS
      <4>2. PICK g : g = [f EXCEPT !.pos = p, !.size = z, !.touched = TRUE]
        OBVIOUS
      <4>3. file' = [file EXCEPT ![h] = g]
        <5>1. [f EXCEPT !.pos = Wrap(@ + r.written), !.size = Wrap(r.size + r.written), !.touched = TRUE] = g
          BY <1>2, <4>1, <4>2 DEF Opened
        <5> QED
          BY <1>4, <1>7, <2>10, <5>1
      <4>4. /\ g.path = t /\ g.first = f.first /\ g.attr = f.attr /\ g.stale = f.stale /\ g.touched
        BY <1>2, <4>2 DEF Opened
      <4>5. t \in Items(e) \ Folders /\ ItemAt(e, t).first = ItemAt(disk, t).first
        BY <2>2, <3>8 DEF WriteOk
      <4>6. FileFor(e, others, g)
        BY <2>1, <2>2, <4>4, <4>5 DEF FileFor
      <4> QED
        BY <3>9, <4>3, <4>6, HandlesAre, FileSetFor
    <3>11. WildHasCause'
      BY <1>4, <3>2, Calm
    <3>12. TreeStep
      BY <1>4, <3>1, <3>2, <3>5, <3>8 DEF TreeStep, WriteOk
    <3>13. Shy(e)
      <4>1. Others(disk, e, t) /\ ItemAt(e, t).first = ItemAt(disk, t).first
        BY <3>8 DEF WriteOk
      <4>2. ItemAt(disk, t).first # RootSector
        BY <2>2, HandlesAre DEF Shy
      <4> QED
        BY <3>6, <4>1, <4>2, HandlesAre, OthersShy
    <3> QED
      BY <3>1, <3>2, <3>9, <3>10, <3>11, <3>12, <3>13 DEF TreeKept
  <2> QED
    BY <2>9, <2>10
<1> QED
  BY <1>6, <1>7

-----------------------------------------------------------------------------
(* The invariant                                                           *)

LEMMA TreeInit == Init => TreeInv
<1> SUFFICES ASSUME Init PROVE TreeInv
  OBVIOUS
<1>1. FilesInv
  BY FilesInit
<1>2. /\ disk \in Boots /\ image = [p \in Named |-> <<>>] /\ tainted = {} /\ fault = <<>>
      /\ \A h \in Handles : file[h] = Closed
  BY DEF Init
<1>3. disk \in Disks /\ SoundTree(disk) /\ Kinds(disk)
  BY <1>2, FilesAssumption, BootAssumption
<1>4. Tidy(disk) /\ Shy(disk)
  BY <1>3, TidyFrom
<1>5. ASSUME NEW p \in Items(disk) \ Folders PROVE Stored(disk, p, image[p])
  <2>1. p \in Named /\ image[p] = <<>>
    BY <1>2, <1>5 DEF Items
  <2>2. PICK c, m, k : c = Content(disk, Chain(disk, p)) /\ m = Len(Chain(disk, p)) /\ k = m * K
    OBVIOUS
  <2>3. Chain(disk, p) \in Seq(Clusters)
    BY <1>3, ChainOf DEF Chain
  <2>4. m \in Nat /\ c \in Seq(Slots) /\ Len(c) = k
    BY <1>3, <2>2, <2>3, LenProperties, ContentIs
  <2>5. k \in Nat
    BY <2>2, <2>4, Sizes0
  <2>6. ItemAt(disk, p).size = 0 /\ ToSet(c) = {Zero}
    BY <1>2, <1>5, <2>2, BootAssumption
  <2>7. \A i \in 1 .. k : c[i] = Zero
    <3>1. \A i \in 1 .. k : c[i] \in ToSet(c)
      BY <2>4 DEF ToSet
    <3> QED
      BY <2>6, <3>1
  <2>8. <<>> \in Seq(Slots) /\ Len(<<>>) = 0
    OBVIOUS
  <2>9. \A i \in 1 .. k : ~ (i <= 0)
    OBVIOUS
  <2> QED
    BY <2>1, <2>2, <2>5, <2>6, <2>7, <2>8, <2>9 DEF Stored
<1>6. ImagesOf(disk, tainted, image)
  BY <1>2, <1>5 DEF ImagesOf
<1>7. FilesFor(disk, tainted, file)
  BY <1>2 DEF FilesFor
<1>8. WildHasCause
  <2>1. \A h : <<>> # <<"wild", h>>
    OBVIOUS
  <2> QED
    BY <1>2, <2>1 DEF WildHasCause
<1> QED
  BY <1>1, <1>4, <1>6, <1>7, <1>8 DEF TreeInv

LEMMA TreeNext == TreeInv /\ Next => TreeKept \/ Strayed
<1> SUFFICES ASSUME TreeInv, Next PROVE TreeKept \/ Strayed
  OBVIOUS
<1>1. CASE \E h \in Handles, p \in Named \union {<<>>}, a \in Attrs \union {{"Directory"}} :
              OpenExisting(h, p, a)
  BY <1>1, OpenExistingTree
<1>2. CASE \E h \in Handles, p \in Paths \ Folders, a \in Attrs : OpenCreate(h, p, a)
  <2>1. PICK h \in Handles, p \in Paths \ Folders, a \in Attrs : OpenCreate(h, p, a)
    BY <1>2
  <2>2. a \in IF p \in Folders THEN {{"Directory"}} ELSE Attrs
    BY <2>1
  <2> QED
    BY <2>1, <2>2, OpenCreateTree
<1>3. CASE \E h \in Handles, p \in Folders : OpenCreate(h, p, {"Directory"})
  <2>1. PICK h \in Handles, p \in Folders : OpenCreate(h, p, {"Directory"})
    BY <1>3
  <2>2. p \in Paths /\ {"Directory"} \in IF p \in Folders THEN {{"Directory"}} ELSE Attrs
    BY <2>1, FilesAssumption
  <2> QED
    BY <2>1, <2>2, OpenCreateTree
<1>4. CASE \E h \in Handles, n \in Sizes, v \in Values : Write(h, n, v)
  BY <1>4, WriteTree
<1>5. CASE \E h \in Handles, n \in Sizes : Read(h, n)
  BY <1>5, ReadTree
<1>6. CASE \E h \in Handles, op \in {"Set_Size", "Beginning", "Current", "End"},
              n \in Offsets : Seek(h, op, n)
  BY <1>6, SeekTree
<1>7. CASE \E h \in Handles : CloseFile(h)
  BY <1>7, CloseTree
<1>8. CASE \E p \in Named : DeleteFsFile(p)
  BY <1>8, DeleteTree
<1>9. CASE \E p \in Named, a \in Attrs \union {{"Directory"}} : SetFileAttribute(p, a)
  BY <1>9, AttributeTree
<1>10. CASE Reboot
  BY <1>10, RebootTree
<1> QED
  BY <1>1, <1>2, <1>3, <1>4, <1>5, <1>6, <1>7, <1>8, <1>9, <1>10 DEF Next

(* Nothing is called after a call that went astray. *)
LEMMA NoneAstray == Next => fault = <<>>
<1> SUFFICES ASSUME Next PROVE fault = <<>>
  OBVIOUS
<1>1. ASSUME NEW path, Call(path) PROVE fault = <<>>
  BY <1>1 DEF Call
<1> QED
  BY <1>1 DEF Next, OpenExisting, OpenCreate, Write, Read, Seek, CloseFile, DeleteFsFile,
              SetFileAttribute, Reboot

(* Inductive: the tree is in order, or an item was misplaced. *)
SafeInv == Astray \/ TreeInv

LEMMA SafeInvStep == SafeInv /\ [Next]_vars => SafeInv'
<1> SUFFICES ASSUME SafeInv, [Next]_vars PROVE SafeInv'
  OBVIOUS
<1>1. CASE TreeInv /\ Next
  <2>1. FilesInv'
    BY <1>1, FilesStep DEF TreeInv
  <2>2. CASE TreeKept
    <3>1. Others(disk, disk', target') /\ ImagesOf(disk', tainted', image')
          /\ FilesFor(disk', tainted', file') /\ WildHasCause' /\ Shy(disk')
      BY <2>2 DEF TreeKept, TreeStep
    <3>2. Tidy(disk')
      BY <3>1 DEF Others
    <3> QED
      BY <2>1, <3>1, <3>2 DEF SafeInv, TreeInv
  <2>3. CASE Strayed
    BY <2>3 DEF Strayed, SafeInv
  <2> QED
    BY <1>1, <2>2, <2>3, TreeNext
<1>2. CASE TreeInv /\ UNCHANGED vars
  <2>1. UNCHANGED <<disk, file, fault, image, tainted>>
    BY <1>2 DEF vars
  <2>2. WildHasCause'
    BY <1>2, <2>1 DEF TreeInv, WildHasCause
  <2>3. FilesInv'
    BY <1>2, FilesStep DEF TreeInv
  <2>4. /\ Tidy(disk) /\ Shy(disk) /\ ImagesOf(disk, tainted, image)
        /\ FilesFor(disk, tainted, file)
    BY <1>2 DEF TreeInv
  <2> QED
    BY <2>1, <2>2, <2>3, <2>4 DEF SafeInv, TreeInv
<1>3. CASE Astray
  <2>1. fault # <<>>
    <3>1. <<"misplaced">> # <<>>
      OBVIOUS
    <3> QED
      BY <1>3, <3>1 DEF Astray
  <2>2. UNCHANGED vars
    BY <2>1, NoneAstray
  <2>3. fault' = fault
    BY <2>2 DEF vars
  <2> QED
    BY <1>3, <2>3 DEF SafeInv, Astray
<1> QED
  BY <1>1, <1>2, <1>3 DEF SafeInv

(* What a call may do when the tree is in order or an item was misplaced *)
LEMMA SafeNext ==
    ASSUME SafeInv, Next
    PROVE  TreeStep \/ (Astray' /\ target' \notin Named)
<1>1. TreeInv
  <2>1. fault = <<>> /\ <<"misplaced">> # <<>>
    BY NoneAstray
  <2> QED
    BY <2>1 DEF SafeInv, Astray
<1> QED
  BY <1>1, TreeNext DEF TreeKept, Strayed

LEMMA ReadsBack == SafeInv => ReadBack
<1> SUFFICES ASSUME TreeInv PROVE ReadBack
  BY DEF SafeInv, ReadBack
<1> SUFFICES ASSUME NEW p \in Items(disk) \ Folders, p \notin tainted
             PROVE  FatRead(disk, [first |-> ItemAt(disk, p).first, size |-> ItemAt(disk, p).size,
                                   path |-> p], ItemAt(disk, p).size, 0)
                      = [error |-> "Success", out |-> SubSeq(image[p], 1, ItemAt(disk, p).size)]
  BY DEF ReadBack
<1>1. disk \in Disks /\ Stored(disk, p, image[p]) /\ p \in Named
  BY HandlesAre DEF ImagesOf, Items
<1>2. PICK c, m, l, z, u : /\ c = Content(disk, Chain(disk, p)) /\ m = Len(Chain(disk, p)) * K
                           /\ u = image[p] /\ l = Len(u) /\ z = ItemAt(disk, p).size
  OBVIOUS
<1>3. z \in 0 .. W - 1
  <2>1. ItemAt(disk, p) \in Slots
    BY <1>1, ItemNext DEF Items, file_exist, ItemAt
  <2> QED
    BY <1>2, <2>1 DEF Slots
<1>4. c \in Seq(Slots) /\ Len(c) = m /\ m \in Nat
  <2>1. Chain(disk, p) \in Seq(Clusters)
    BY <1>1, ChainOf DEF Chain
  <2> QED
    BY <1>1, <1>2, <2>1, ContentIs, LenProperties
<1>5. /\ u \in Seq(Slots) /\ l <= m /\ z <= l
      /\ \A i \in 1 .. m : c[i] = IF i <= l THEN u[i] ELSE Zero
  BY <1>1, <1>2 DEF Stored
<1>6. l \in Nat
  BY <1>2, <1>5, LenProperties
<1>7. z \in 0 .. Len(c) /\ z \in 0 .. Len(u)
  BY <1>2, <1>3, <1>4, <1>5, <1>6, Sizes0
<1>8. SubSeq(c, 1, z) = SubSeq(u, 1, z)
  <2>1. /\ SubSeq(c, 1, z) \in Seq(Slots) /\ Len(SubSeq(c, 1, z)) = z
        /\ \A i \in 1 .. z : SubSeq(c, 1, z)[i] = c[i]
    BY <1>4, <1>7, Start
  <2>2. /\ SubSeq(u, 1, z) \in Seq(Slots) /\ Len(SubSeq(u, 1, z)) = z
        /\ \A i \in 1 .. z : SubSeq(u, 1, z)[i] = u[i]
    BY <1>5, <1>7, Start
  <2>3. \A i \in 1 .. z : i \in 1 .. m /\ i <= l
    BY <1>3, <1>4, <1>5, <1>6
  <2>4. \A i \in 1 .. z : c[i] = u[i]
    BY <1>5, <2>3
  <2>5. \A i \in 1 .. z : SubSeq(c, 1, z)[i] = SubSeq(u, 1, z)[i]
    BY <2>1, <2>2, <2>4
  <2> QED
    BY <2>1, <2>2, <2>5, SeqEqual
<1>9. (0 + z) % W = z /\ ~ (z > z) /\ ~ (0 + z > m) /\ 0 + z = z /\ 0 + 1 = 1
  <2>1. z \in Nat /\ z < W /\ z <= m
    BY <1>3, <1>4, <1>5, <1>6, Sizes0
  <2>2. z % W = z
    BY <2>1, Sizes0
  <2> QED
    BY <1>4, <2>1, <2>2
<1>10. PICK f : f = [first |-> ItemAt(disk, p).first, size |-> z, path |-> p]
  OBVIOUS
<1>11. FatRead(disk, f, z, 0) = Part(c, z, 0)
  BY <1>2, <1>9, <1>10 DEF FatRead, Chain
<1>12. Part(c, z, 0) = [error |-> "Success", out |-> SubSeq(c, 1, z)]
  BY <1>4, <1>9 DEF Part
<1> QED
  BY <1>2, <1>8, <1>10, <1>11, <1>12

LEMMA TreeSounds == SafeInv => TreeSound
BY HandlesAre, TidyTo DEF SafeInv, TreeSound

LEMMA TreeAlways == Spec => []SafeInv
<1>1. Init => SafeInv
  BY TreeInit DEF SafeInv
<1> QED
  BY <1>1, SafeInvStep, PTL DEF Spec

(* After every call the tree is sound, for every disk, tree and number of  *)
(* open files: no cluster belongs to two files or directories, every chain *)
(* ends, every directory knows itself, its parent and each name once and   *)
(* has no gap, and a free cluster holds zeros.  This ends with the first   *)
(* item that is made inside a file or at the cluster with the number of    *)
(* the root; nothing before it, on a full disk or after a restart, ends it.*)
THEOREM TreeSoundHolds == Spec => []TreeSound
  BY TreeAlways, TreeSounds, PTL

(* Whoever opens a file and reads as much as its entry promises gets what  *)
(* was written, unless one write took two new clusters, whatever other     *)
(* handles wrote, whether the disk was full, and after every restart, as   *)
(* long as no item was misplaced.                                          *)
THEOREM ReadBackHolds == Spec => []ReadBack
  BY TreeAlways, ReadsBack, PTL

(* FAT::read goes beyond the clusters of a file or directory only for a    *)
(* handle that has one of the causes of WildHasCause.                      *)
THEOREM WildHasCauseHolds == Spec => []WildHasCause
<1>1. SafeInv => WildHasCause
  <2>1. \A h : <<"misplaced">> # <<"wild", h>>
    OBVIOUS
  <2> QED
    BY <2>1 DEF SafeInv, TreeInv, WildHasCause, Astray
<1> QED
  BY <1>1, TreeAlways, PTL

(* No call changes what another path leads to: neither its entry nor the   *)
(* clusters of the file and what is in them.  Only an item that is made    *)
(* inside a file takes over slots of that file; an item at the number of   *)
(* the root does not disturb the others by being made.                     *)
THEOREM OthersUntouchedHolds == Spec => OthersUntouched
<1> DEFINE Untouched == \/ Astray' /\ target' \notin Named
                        \/ \A p \in Named \ {target'} : View(disk', p) = View(disk, p)
<1>1. ASSUME SafeInv, [Next]_vars PROVE [Untouched]_vars
  BY <1>1, SafeNext DEF TreeStep, Others
<1> HIDE DEF Untouched
<1>2. Spec => [][Untouched]_vars
  BY <1>1, TreeAlways, PTL DEF Spec
<1> QED
  BY <1>2 DEF OthersUntouched, Untouched

(* Only a write that takes two new clusters or more, or an item that is    *)
(* made inside a file, leaves a cluster taken that no file or directory    *)
(* has, on every disk.                                                     *)
THEOREM LostOnlyByLongWriteHolds == Spec => LostOnlyByLongWrite
<1> DEFINE Loses == \/ Lost(disk') \subseteq Lost(disk)
                    \/ target' \in tainted'
                    \/ Astray' /\ target' \notin Named
<1>1. ASSUME SafeInv, [Next]_vars PROVE [Loses]_vars
  BY <1>1, SafeNext DEF TreeStep
<1> HIDE DEF Loses
<1>2. Spec => [][Loses]_vars
  BY <1>1, TreeAlways, PTL DEF Spec
<1> QED
  BY <1>2 DEF LostOnlyByLongWrite, Loses
=============================================================================
