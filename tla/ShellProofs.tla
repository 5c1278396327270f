----------------------------- MODULE ShellProofs -----------------------------
(***************************************************************************)
(* Proofs about the shell, for every set of lines that are typed, every    *)
(* disk, any programs and any number of lines.                             *)
(***************************************************************************)
EXTENDS Shell, SequenceTheorems, FiniteSetTheorems, WellFoundedInduction, TLAPS

(* Numbers and sets of them. *)
LEMMA Least ==
    ASSUME NEW S \in SUBSET Nat, S # {}
    PROVE  \E m \in S : \A i \in S : m <= i
<1> DEFINE R == {p \in Nat \X Nat : p[1] < p[2]}
<1>1. IsWellFoundedOn(R, Nat)
  BY NatLessThanWellFounded DEF OpToRel
<1> HIDE DEF R
<1>2. PICK m \in S : \A i \in S : <<i, m>> \notin R
  BY <1>1, WFMin
<1>3. \A i \in S : ~(i < m)
  BY <1>2 DEF R
<1> QED
  BY <1>2, <1>3

LEMMA Greatest ==
    ASSUME NEW n \in Nat, NEW S \in SUBSET (0 .. n), S # {}
    PROVE  \E m \in S : \A i \in S : i <= m
<1> DEFINE T == {n - i : i \in S}
<1>1. T \in SUBSET Nat /\ T # {}
  <2>1. \A i \in S : n - i \in Nat
    OBVIOUS
  <2>2. PICK i \in S : TRUE
    OBVIOUS
  <2> QED
    BY <2>1, <2>2
<1> HIDE DEF T
<1>2. PICK d \in T : \A j \in T : d <= j
  BY <1>1, Least
<1>3. PICK m \in S : d = n - m
  BY <1>2 DEF T
<1>4. ASSUME NEW i \in S PROVE i <= m
  <2>1. n - m <= n - i
    BY <1>2, <1>3 DEF T
  <2> QED
    BY <2>1
<1> QED
  BY <1>4

LEMMA NatSet ==
    ASSUME NEW S \in SUBSET Nat, 0 \in S, \A i \in S : i + 1 \in S
    PROVE  S = Nat
<1>1. SUFFICES ASSUME Nat \ S # {} PROVE FALSE
  OBVIOUS
<1>2. Nat \ S \in SUBSET Nat
  OBVIOUS
<1>3. PICK m \in Nat \ S : \A i \in Nat \ S : m <= i
  BY <1>1, <1>2, Least
<1>4. m - 1 \in Nat /\ m - 1 \notin Nat \ S
  BY <1>3
<1>5. (m - 1) + 1 \in S
  BY <1>4
<1> QED
  BY <1>3, <1>5

(* A finite set of numbers has as many of them in order as it has.         *)
Rank(S, i) == Cardinality({j \in S : j <= i})

LEMMA Ranks ==
    ASSUME NEW n \in Nat, NEW S \in SUBSET (0 .. n), NEW k \in 1 .. Cardinality(S)
    PROVE  \E i \in S : Rank(S, i) = k
<1> DEFINE Good(m) == \A T \in SUBSET (0 .. m) : \A l \in 1 .. Cardinality(T) :
                         \E i \in T : Rank(T, i) = l
           G == {m \in Nat : Good(m)}
<1>1. 0 \in G
  <2>1. ASSUME NEW T \in SUBSET (0 .. 0), NEW l \in 1 .. Cardinality(T)
        PROVE  \E i \in T : Rank(T, i) = l
    <3>0. \A i \in 0 .. 0 : i = 0
      OBVIOUS
    <3>1. T = {} \/ T = {0}
      BY <3>0
    <3>2. Cardinality({}) = 0 /\ Cardinality({0}) = 1
      BY FS_EmptySet, FS_Singleton
    <3>3. T = {0} /\ l = 1
      <4>1. CASE T = {}
        BY <3>2, <4>1
      <4>2. CASE T = {0}
        BY <3>2, <4>2
      <4> QED
        BY <3>1, <4>1, <4>2
    <3>4. {j \in T : j <= 0} = {0}
      BY <3>3
    <3> QED
      BY <3>2, <3>3, <3>4 DEF Rank
  <2> QED
    BY <2>1
<1>2. ASSUME NEW m \in G PROVE m + 1 \in G
  <2>1. m \in Nat /\ Good(m)
    OBVIOUS
  <2>2. ASSUME NEW T \in SUBSET (0 .. m + 1), NEW l \in 1 .. Cardinality(T)
        PROVE  \E i \in T : Rank(T, i) = l
    <3> DEFINE U == T \ {m + 1}
    <3>1. U \in SUBSET (0 .. m) /\ IsFiniteSet(T) /\ Cardinality(T) \in Nat
      <4>1. IsFiniteSet(0 .. m + 1)
        BY <2>1, FS_Interval
      <4>2. \A i \in 0 .. m + 1 : i # m + 1 => i \in 0 .. m
        BY <2>1
      <4> QED
        BY <4>1, <4>2, FS_Subset, FS_CardinalityType
    <3>2. CASE m + 1 \notin T
      BY <2>1, <3>1, <3>2
    <3>3. CASE m + 1 \in T
      <4>1. Cardinality(U) = Cardinality(T) - 1
        BY <3>1, <3>3, FS_RemoveElement
      <4>2. CASE l = Cardinality(T)
        <5>0. \A j \in T : j <= m + 1
          BY <2>1
        <5>1. {j \in T : j <= m + 1} = T
          BY <5>0
        <5> QED
          BY <3>3, <4>2, <5>1 DEF Rank
      <4>3. CASE l # Cardinality(T)
        <5>1. l \in 1 .. Cardinality(U)
          BY <3>1, <4>1, <4>3
        <5>2. PICK i \in U : Rank(U, i) = l
          BY <2>1, <3>1, <5>1
        <5>3. {j \in T : j <= i} = {j \in U : j <= i}
          BY <2>1, <3>1
        <5> QED
          BY <5>2, <5>3 DEF Rank
      <4> QED
        BY <4>2, <4>3
    <3> QED
      BY <3>2, <3>3
  <2> HIDE DEF Good
  <2>3. Good(m + 1)
    BY <2>2 DEF Good
  <2> QED
    BY <2>1, <2>3
<1> HIDE DEF Good
<1>3. G \in SUBSET Nat
  OBVIOUS
<1> HIDE DEF G
<1>4. n \in G
  BY <1>1, <1>2, <1>3, NatSet
<1> QED
  BY <1>4 DEF G, Good

(* InOrder enumerates the set. *)
LEMMA InOrderLists ==
    ASSUME NEW n \in Nat, NEW S \in SUBSET (0 .. n)
    PROVE  /\ Cardinality(S) \in Nat /\ InOrder(S) \in [1 .. Cardinality(S) -> S]
           /\ InOrder(S) \in Seq(S) /\ Len(InOrder(S)) = Cardinality(S)
           /\ \A k \in 1 .. Cardinality(S) : Rank(S, InOrder(S)[k]) = k
<1>1. IsFiniteSet(0 .. n)
  BY FS_Interval
<1>2. IsFiniteSet(S) /\ Cardinality(S) \in Nat
  BY <1>1, FS_Subset, FS_CardinalityType
<1>3. \A k \in 1 .. Cardinality(S) : \E i \in S : Cardinality({j \in S : j <= i}) = k
  BY Ranks DEF Rank
<1>4. InOrder(S) \in [1 .. Cardinality(S) -> S]
  BY <1>3 DEF InOrder
<1>7. \A k \in 1 .. Cardinality(S) : Rank(S, InOrder(S)[k]) = k
  BY <1>3 DEF InOrder, Rank
<1>5. InOrder(S) \in Seq(S)
  BY <1>2, <1>4, SeqDef
<1>6. Len(InOrder(S)) = Cardinality(S)
  BY <1>2, <1>4, <1>5, LenProperties
<1> QED
  BY <1>2, <1>4, <1>5, <1>6, <1>7

(* Taking an element out of a sequence. *)
LEMMA RemovedAt ==
    ASSUME NEW X, NEW u \in Seq(X), NEW k \in DOMAIN u
    PROVE  /\ RemoveAt(u, k) \in Seq(X) /\ Len(RemoveAt(u, k)) = Len(u) - 1
           /\ \A i \in 1 .. Len(u) - 1 :
                 RemoveAt(u, k)[i] = u[IF i < k THEN i ELSE i + 1]
<1> DEFINE a == SubSeq(u, 1, k - 1)
           b == SubSeq(u, k + 1, Len(u))
           m == Len(u)
<1>1. m \in Nat /\ k \in 1 .. m /\ \A i \in 1 .. m : u[i] \in X
  BY LenProperties, ElementOfSeq
<1>2. /\ a \in Seq(X) /\ Len(a) = k - 1 /\ \A i \in 1 .. k - 1 : a[i] = u[i]
  <2>1. k - 1 \in Int /\ 1 \in Int /\ \A i \in 1 .. k - 1 : u[i] \in X
    BY <1>1
  <2>2. /\ a \in Seq(X) /\ Len(a) = IF 1 <= k - 1 THEN (k - 1) - 1 + 1 ELSE 0
        /\ \A i \in 1 .. (k - 1) - 1 + 1 : a[i] = u[1 + i - 1]
    BY <2>1, SubSeqProperties
  <2> HIDE DEF a
  <2> QED
    BY <1>1, <2>2
<1>3. /\ b \in Seq(X) /\ Len(b) = m - k /\ \A i \in 1 .. m - k : b[i] = u[k + i]
  <2>1. k + 1 \in Int /\ m \in Int /\ \A i \in k + 1 .. m : u[i] \in X
    BY <1>1
  <2>2. /\ b \in Seq(X) /\ Len(b) = IF k + 1 <= m THEN m - (k + 1) + 1 ELSE 0
        /\ \A i \in 1 .. m - (k + 1) + 1 : b[i] = u[(k + 1) + i - 1]
    BY <2>1, SubSeqProperties
  <2> HIDE DEF b
  <2> QED
    BY <1>1, <2>2
<1>4. RemoveAt(u, k) = a \o b
  BY DEF RemoveAt
<1> HIDE DEF a, b, m
<1>5. /\ a \o b \in Seq(X) /\ Len(a \o b) = Len(a) + Len(b)
      /\ \A i \in 1 .. Len(a) + Len(b) :
            (a \o b)[i] = IF i <= Len(a) THEN a[i] ELSE b[i - Len(a)]
  BY <1>2, <1>3, ConcatProperties
<1>6. ASSUME NEW i \in 1 .. m - 1
      PROVE  (a \o b)[i] = u[IF i < k THEN i ELSE i + 1]
  <2>1. CASE i < k
    BY <1>1, <1>2, <1>3, <1>5, <2>1, SMTT(30)
  <2>2. CASE ~(i < k)
    <3> DEFINE d == i - Len(a)
    <3>1. /\ d \in 1 .. m - k /\ k + d = i + 1 /\ ~(i <= Len(a))
          /\ i \in 1 .. Len(a) + Len(b)
      <4>1. Len(a) = k - 1 /\ Len(b) = m - k /\ m \in Nat /\ k \in 1 .. m
        BY <1>1, <1>2, <1>3
      <4> QED
        BY <2>2, <4>1, SMTT(30)
    <3>2. (a \o b)[i] = b[d]
      BY <1>5, <3>1
    <3> HIDE DEF d
    <3>3. b[d] = u[k + d]
      BY <1>3, <3>1
    <3> QED
      BY <2>2, <3>1, <3>2, <3>3
  <2> QED
    BY <2>1, <2>2
<1>7. Len(a) + Len(b) = m - 1
  BY <1>1, <1>2, <1>3
<1> QED
  BY <1>4, <1>5, <1>6, <1>7 DEF m
-----------------------------------------------------------------------------
(* The table *)

(* What a handle may stand for. *)
Objects == {"console", "read", "write", "file", "own", "none"} \X Int

Table(t) == /\ IsFiniteSet(DOMAIN t) /\ DOMAIN t \in SUBSET Nat
            /\ t \in [DOMAIN t -> Objects]

LEMMA FirstFreeIsFree ==
    ASSUME NEW t, Table(t)
    PROVE  FirstFree(t) \in Nat /\ FirstFree(t) \notin DOMAIN t
<1> DEFINE D == DOMAIN t
           c == Cardinality(D)
<1>1. IsFiniteSet(D) /\ D \in SUBSET Nat /\ c \in Nat
  BY FS_CardinalityType DEF Table
<1> HIDE DEF D
<1>2. (0 .. c) \ D # {}
  <2>1. SUFFICES ASSUME 0 .. c \subseteq D PROVE FALSE
    OBVIOUS
  <2>2. Cardinality(0 .. c) <= Cardinality(D)
    BY <1>1, <2>1, FS_Subset
  <2>3. Cardinality(0 .. c) = c + 1
    BY <1>1, FS_Interval
  <2> QED
    BY <1>1, <2>2, <2>3
<1>3. (0 .. c) \ D \in SUBSET Nat
  BY <1>1
<1>4. PICK n \in (0 .. c) \ D : \A i \in (0 .. c) \ D : n <= i
  BY <1>2, <1>3, Least
<1>5. n \in 0 .. c /\ n \notin D /\ 0 .. n - 1 \subseteq D
  BY <1>1, <1>4
<1>6. \E k \in 0 .. Cardinality(DOMAIN t) :
         k \notin DOMAIN t /\ 0 .. k - 1 \subseteq DOMAIN t
  BY <1>5 DEF D
<1> QED
  BY <1>1, <1>6 DEF FirstFree, D

LEMMA WithIt ==
    ASSUME NEW t, Table(t), NEW o \in Objects
    PROVE  /\ Table(With(t, o)) /\ DOMAIN With(t, o) = DOMAIN t \cup {FirstFree(t)}
           /\ With(t, o)[FirstFree(t)] = o
           /\ \A h \in DOMAIN t : With(t, o)[h] = t[h]
           /\ FirstFree(t) \in Nat /\ FirstFree(t) \notin DOMAIN t
<1>1. FirstFree(t) \in Nat /\ FirstFree(t) \notin DOMAIN t
  BY FirstFreeIsFree
<1>2. IsFiniteSet(DOMAIN t \cup {FirstFree(t)})
  BY FS_AddElement DEF Table
<1> QED
  BY <1>1, <1>2 DEF With, Table

LEMMA ClosedIt ==
    ASSUME NEW t, Table(t), NEW H
    PROVE  /\ Table(Closed(t, H)) /\ DOMAIN Closed(t, H) = DOMAIN t \ H
           /\ \A h \in DOMAIN t \ H : Closed(t, H)[h] = t[h]
<1>1. IsFiniteSet(DOMAIN t \ H)
  BY FS_Difference, FS_Subset DEF Table
<1> QED
  BY <1>1 DEF Closed, Table
-----------------------------------------------------------------------------
(* Lines *)

(* Strings; those the program itself writes are named for the provers,     *)
(* which do not know a literal for a string.                               *)
Tokens == STRING \cup {Drive, "ECHO is", "on", "off"}
Text   == Seq(Tokens)

Entry == [command : Text, argument : Text, file : BOOLEAN,
          redirection_in : BOOLEAN, redirection_out : BOOLEAN,
          pipe_in : BOOLEAN, pipe_out : BOOLEAN, handle : Int,
          pipe_in_handle : Int, pipe_out_handle : Int,
          redirection_in_handle : Int, redirection_out_handle : Int]

(* A part of a text is a text. *)
LEMMA PartOfText ==
    ASSUME NEW s \in Text, NEW m \in Nat \ {0}, NEW n \in Int, n <= Len(s)
    PROVE  SubSeq(s, m, n) \in Text
<1>1. Len(s) \in Nat
  BY LenProperties DEF Text
<1>2. \A i \in m .. n : i \in 1 .. Len(s)
  BY <1>1
<1>3. \A i \in m .. n : s[i] \in Tokens
  BY <1>2, ElementOfSeq DEF Text
<1>4. m \in Int
  OBVIOUS
<1> QED
  BY <1>3, <1>4, SubSeqProperties DEF Text

LEMMA WithoutSpaces ==
    ASSUME NEW s \in Text
    PROVE  /\ RemoveLeadingWhitespace(s) \in Text /\ RemoveTrailingWhitespace(s) \in Text
           /\ RemoveWhitespace(s) \in Text
<1>0. <<>> \in Text
  BY EmptySeq DEF Text
<1>1. ASSUME NEW u \in Text PROVE RemoveLeadingWhitespace(u) \in Text
  <2> DEFINE I == {i \in 1 .. Len(u) : u[i] # Space}
             at == SelectInSeq(u, LAMBDA t : t # Space)
  <2>1. Len(u) \in Nat /\ DOMAIN u = 1 .. Len(u)
    BY LenProperties DEF Text
  <2>2. at = IF I # {} THEN Min(I) ELSE 0
    BY DEF SelectInSeq
  <2>3. CASE \E i \in DOMAIN u : u[i] # Space
    <3>1. I # {} /\ I \in SUBSET Nat
      BY <2>1, <2>3
    <3>2. Min(I) \in I
      <4> HIDE DEF I
      <4>1. \E m \in I : \A i \in I : m <= i
        BY <3>1, Least
      <4> QED
        BY <4>1 DEF Min
    <3>3. at \in 1 .. Len(u)
      BY <2>2, <3>1, <3>2
    <3> HIDE DEF at, I
    <3>4. SubSeq(u, at, Len(u)) \in Text
      BY <2>1, <3>3, PartOfText
    <3> QED
      BY <2>3, <3>4 DEF RemoveLeadingWhitespace, From, at
  <2>4. CASE ~\E i \in DOMAIN u : u[i] # Space
    BY <1>0, <2>4 DEF RemoveLeadingWhitespace
  <2> QED
    BY <2>3, <2>4
<1>2. ASSUME NEW u \in Text PROVE RemoveTrailingWhitespace(u) \in Text
  <2> DEFINE I == {i \in 1 .. Len(u) : u[i] # Space}
             at == SelectLastInSeq(u, LAMBDA t : t # Space)
  <2>1. Len(u) \in Nat
    BY LenProperties DEF Text
  <2>2. at = IF I # {} THEN Max(I) ELSE 0
    BY DEF SelectLastInSeq
  <2>3. I # {} => Max(I) \in I
    <3>1. I \in SUBSET (0 .. Len(u))
      BY <2>1
    <3> HIDE DEF I
    <3>2. SUFFICES ASSUME I # {} PROVE Max(I) \in I
      OBVIOUS
    <3>3. PICK m \in I : \A i \in I : i <= m
      BY <2>1, <3>1, <3>2, Greatest
    <3>4. \A i \in I : m >= i
      BY <2>1, <3>1, <3>3
    <3> QED
      BY <3>4 DEF Max
  <2>4. at \in 0 .. Len(u)
    BY <2>1, <2>2, <2>3
  <2> HIDE DEF at
  <2>5. SubSeq(u, 1, at) \in Text
    BY <2>1, <2>4, PartOfText
  <2> QED
    BY <2>5 DEF RemoveTrailingWhitespace, at
<1> QED
  BY <1>1, <1>2 DEF RemoveWhitespace

(* The operators on both sides of a command. *)
Between(p, left, right) ==
    /\ p.pipe_in = (left = "|") /\ p.pipe_out = (right = "|")
    /\ p.file = (left \in {"<", ">"})
    /\ p.redirection_in = (right = "<" \/ left \in {"<", ">"})
    /\ p.redirection_out = (right = ">")

LEMMA CommandType ==
    ASSUME NEW text \in Text, NEW left, NEW right
    PROVE  LET p == ProcessCommand(text, left, right) IN
           /\ p \in Entry /\ p.handle = NoHandle
           /\ p.command # <<>> => Between(p, left, right)
           /\ p.file \/ ~p.redirection_in \/ ~p.redirection_out
           /\ \/ p = Program
              \/ Between(p, left, right)
<1> DEFINE c == RemoveWhitespace(text)
           letters == IF c # <<>> /\ Head(c) \in Words THEN 1 ELSE 0
           command == IF left \in {"<", ">"} THEN c ELSE SubSeq(c, 1, letters)
           argument == IF left \in {"<", ">"} THEN <<>>
                       ELSE RemoveLeadingWhitespace(From(c, letters + 1))
           p == ProcessCommand(text, left, right)
<1>1. c \in Text /\ <<>> \in Text /\ Len(c) \in Nat
  BY WithoutSpaces, EmptySeq, LenProperties DEF Text
<1>2. Program \in Entry /\ Program.command = <<>> /\ Program.handle = NoHandle
      /\ ~Program.redirection_in
  BY <1>1 DEF Program, Entry, NoHandle
<1>3. CASE c = <<>>
  BY <1>2, <1>3 DEF ProcessCommand
<1>4. CASE c # <<>>
  <2>1. letters \in 0 .. 1 /\ Len(c) >= 1
    BY <1>1, <1>4, EmptySeq DEF Text
  <2>2. command \in Text /\ argument \in Text
    <3>1. letters \in Int /\ letters <= Len(c) /\ letters + 1 \in Nat \ {0}
      BY <1>1, <2>1
    <3> HIDE DEF letters, c
    <3>2. SubSeq(c, 1, letters) \in Text /\ SubSeq(c, letters + 1, Len(c)) \in Text
      BY <1>1, <3>1, PartOfText
    <3> QED
      BY <1>1, <3>2, WithoutSpaces DEF From
  <2>3. p = [Program EXCEPT
            !.pipe_in  = left = "|",  !.pipe_out = right = "|",
            !.redirection_in = right = "<" \/ left \in {"<", ">"},
            !.redirection_out = right = ">",
            !.file     = left \in {"<", ">"},
            !.command  = command, !.argument = argument]
    BY <1>4 DEF ProcessCommand
  <2> HIDE DEF command, argument, p, c, letters
  <2>4. p = [command |-> command, argument |-> argument, file |-> left \in {"<", ">"},
             redirection_in |-> (right = "<" \/ left \in {"<", ">"}),
             redirection_out |-> (right = ">"),
             pipe_in |-> (left = "|"), pipe_out |-> (right = "|"), handle |-> NoHandle,
             pipe_in_handle |-> NoHandle, pipe_out_handle |-> NoHandle,
             redirection_in_handle |-> NoHandle, redirection_out_handle |-> NoHandle]
    BY <2>3 DEF Program
  <2>5. p \in Entry /\ p.handle = NoHandle
    BY <2>2, <2>4 DEF Entry, NoHandle
  <2>6. Between(p, left, right)
    BY <2>4 DEF Between
  <2>7. p.file \/ ~p.redirection_in \/ ~p.redirection_out
    BY <2>6 DEF Between
  <2> QED
    BY <2>5, <2>6, <2>7 DEF p
<1> QED
  BY <1>3, <1>4

(* What ProcessLine makes of a line.                                       *)
Fresh(v) == /\ v \in Seq(Entry)
            /\ \A i \in DOMAIN v : /\ v[i].handle = NoHandle
                                   /\ v[i].file \/ ~v[i].redirection_in
                                                \/ ~v[i].redirection_out

(* Two entries with commands have the same operator between them.          *)
Linked(v) ==
    (\A i \in DOMAIN v : v[i].command # <<>>) =>
        /\ v # <<>> => ~v[1].pipe_in /\ ~v[1].file
        /\ \A i \in 1 .. Len(v) - 1 :
              /\ v[i + 1].pipe_in = v[i].pipe_out
              /\ v[i + 1].file = ~v[i].pipe_out
              /\ ~v[i].file => v[i + 1].file = (v[i].redirection_in \/ v[i].redirection_out)

LEMMA LineType ==
    ASSUME NEW line \in Text
    PROVE  Fresh(ProcessLine(line)) /\ Linked(ProcessLine(line))
<1> DEFINE n == Len(line)
           S == {i \in DOMAIN line : line[i] \in Operators} \cup
                (IF line # <<>> /\ Last(line) \notin Operators THEN {n + 1} ELSE {})
           ends == Ends(line)
           m == Cardinality(S)
           begin(k) == IF k = 1 THEN 1 ELSE ends[k - 1] + 1
           Op(i) == IF i \in DOMAIN line THEN line[i] ELSE ""
           left(k) == IF k = 1 THEN "" ELSE Op(ends[k - 1])
           right(k) == Op(ends[k])
           part(k) == SubSeq(line, begin(k), ends[k] - 1)
           v == ProcessLine(line)
<1>1. n \in Nat /\ DOMAIN line = 1 .. n
  BY LenProperties DEF Text
<1>2. S \in SUBSET (0 .. n + 1) /\ n + 1 \in Nat /\ \A i \in S : i >= 1
  BY <1>1
<1>3. ends = InOrder(S)
  BY DEF Ends
<1>4. /\ m \in Nat /\ DOMAIN ends = 1 .. m
      /\ \A k \in 1 .. m : ends[k] \in S /\ Rank(S, ends[k]) = k
  <2> HIDE DEF S
  <2> QED
    BY <1>2, <1>3, InOrderLists, ZenonT(60)
<1>5. \A k \in 1 .. m : ends[k] \in Int /\ ends[k] >= 1 /\ ends[k] <= n + 1
  BY <1>2, <1>4
<1>6. ASSUME NEW k \in 1 .. m, k < m PROVE right(k) \in Operators
  <2>1. ends[k] # n + 1
    <3>1. SUFFICES ASSUME ends[k] = n + 1 PROVE FALSE
      OBVIOUS
    <3>2. {j \in S : j <= n + 1} = S
      BY <1>1, <1>2
    <3> QED
      BY <1>4, <1>6, <3>1, <3>2 DEF Rank
  <2>2. ends[k] \in S
    BY <1>4
  <2> QED
    BY <2>1, <2>2
<1>7. DOMAIN v = 1 .. m /\ \A k \in 1 .. m : v[k] = ProcessCommand(part(k), left(k), right(k))
  BY <1>4 DEF ProcessLine
<1>8. ASSUME NEW k \in 1 .. m PROVE part(k) \in Text
  <2>1. begin(k) \in Nat \ {0} /\ ends[k] - 1 \in Int /\ ends[k] - 1 <= n
    <3>1. CASE k = 1
      BY <1>1, <1>5, <3>1
    <3>2. CASE k # 1
      <4>1. k - 1 \in 1 .. m
        <5> HIDE DEF m
        <5> QED
          BY <1>4, <3>2
      <4> QED
        BY <1>1, <1>5, <3>2, <4>1
    <3> QED
      BY <3>1, <3>2
  <2> HIDE DEF begin, ends
  <2> QED
    BY <2>1, PartOfText
<1> HIDE DEF part, S, ends, v
<1>9. ASSUME NEW k \in 1 .. m
      PROVE  /\ v[k] \in Entry /\ v[k].handle = NoHandle
             /\ v[k].command # <<>> => Between(v[k], left(k), right(k))
             /\ v[k].file \/ ~v[k].redirection_in \/ ~v[k].redirection_out
  <2> DEFINE a == part(k)
             l == left(k)
             r == right(k)
  <2>1. v[k] = ProcessCommand(a, l, r) /\ a \in Text
    BY <1>7, <1>8
  <2> HIDE DEF a, l, r
  <2>2. LET p == ProcessCommand(a, l, r) IN
        /\ p \in Entry /\ p.handle = NoHandle
        /\ p.command # <<>> => Between(p, l, r)
        /\ p.file \/ ~p.redirection_in \/ ~p.redirection_out
    BY <2>1, CommandType
  <2> QED
    BY <2>1, <2>2 DEF l, r
<1>10. v \in Seq(Entry) /\ Len(v) = m
  <2>1. v \in [1 .. m -> Entry]
    <3>1. v = [k \in 1 .. m |-> v[k]]
      BY <1>7, <1>4 DEF v, ProcessLine, ends
    <3> QED
      BY <1>9, <3>1
  <2> QED
    BY <1>4, <2>1, SeqDef, LenProperties
<1>11. Fresh(v)
  BY <1>7, <1>9, <1>10 DEF Fresh
<1>12. ASSUME \A i \in DOMAIN v : v[i].command # <<>>
       PROVE  /\ v # <<>> => ~v[1].pipe_in /\ ~v[1].file
              /\ \A i \in 1 .. Len(v) - 1 :
                    /\ v[i + 1].pipe_in = v[i].pipe_out
                    /\ v[i + 1].file = ~v[i].pipe_out
                    /\ ~v[i].file =>
                          v[i + 1].file = (v[i].redirection_in \/ v[i].redirection_out)
  <2>1. \A k \in 1 .. m : Between(v[k], left(k), right(k))
    BY <1>7, <1>9, <1>12
  <2>2. ASSUME v # <<>> PROVE ~v[1].pipe_in /\ ~v[1].file
    <3>1. 1 \in 1 .. m
      BY <1>4, <1>10, <2>2, EmptySeq, LenProperties
    <3> QED
      BY <2>1, <3>1 DEF Between
  <2>3. ASSUME NEW i \in 1 .. Len(v) - 1
        PROVE  /\ v[i + 1].pipe_in = v[i].pipe_out
               /\ v[i + 1].file = ~v[i].pipe_out
               /\ ~v[i].file =>
                     v[i + 1].file = (v[i].redirection_in \/ v[i].redirection_out)
    <3>1. i \in 1 .. m /\ i < m /\ i + 1 \in 1 .. m
      BY <1>4, <1>10
    <3>2. left(i + 1) = right(i)
      <4>1. i + 1 # 1 /\ (i + 1) - 1 = i
        BY <3>1
      <4> HIDE DEF Op, m
      <4> QED
        BY <4>1
    <3>3. right(i) \in Operators
      BY <1>6, <3>1
    <3> HIDE DEF left, right
    <3>4. Between(v[i], left(i), right(i)) /\ Between(v[i + 1], right(i), right(i + 1))
      BY <2>1, <3>1, <3>2
    <3> DEFINE c == right(i)
               e == right(i + 1)
               l == left(i)
    <3> HIDE DEF c, e, l
    <3>5. Between(v[i], l, c) /\ Between(v[i + 1], c, e)
      BY <3>4 DEF l, c, e
    <3>6. c = "|" \/ c = "<" \/ c = ">"
      BY <3>3 DEF Operators, c
    <3>7. CASE c = "|"
      <4>1. /\ v[i].pipe_out = TRUE /\ v[i + 1].pipe_in = TRUE
            /\ v[i + 1].file = FALSE
        <5>1. c \notin {"<", ">"} /\ (c = "|") = TRUE
          BY <3>7
        <5>2. (c \in {"<", ">"}) = FALSE
          BY <5>1
        <5> QED
          BY <3>5, <5>1, <5>2 DEF Between
      <4>2. ~v[i].file => v[i].redirection_in = FALSE /\ v[i].redirection_out = FALSE
        BY <3>5, <3>7 DEF Between
      <4> QED
        BY <4>1, <4>2
    <3>8. CASE c # "|"
      <4>1. /\ v[i].pipe_out = FALSE /\ v[i + 1].pipe_in = FALSE
            /\ v[i + 1].file = TRUE
        BY <3>5, <3>6, <3>8 DEF Between
      <4>2. ~v[i].file => (v[i].redirection_in \/ v[i].redirection_out) = TRUE
        BY <3>5, <3>6, <3>8 DEF Between
      <4> QED
        BY <4>1, <4>2
    <3> QED
      BY <3>7, <3>8
  <2> QED
    BY <2>2, <2>3
<1> QED
  BY <1>11, <1>12 DEF Linked, v

-----------------------------------------------------------------------------
(* The table has an owner for every handle that somebody closes: the stack *)
(* of the pipes, a program that opened a file, or one of the four ends of  *)
(* the entry of a program.  Everything the shell holds is owned by one of  *)
(* them only, so that closing a handle for one does not hit another one.   *)

Started == [name : Programs, in : Int, out : Int, from : Objects, to : Objects,
            own : Int, ended : BOOLEAN]

Phases == {"read", "special", "newline", "pipes", "start", "wait", "close", "exited",
           "crashed", "asleep", "stuck", "aborted"}

(* Ends of a program that ended are being closed. *)
Closing == {"close", "stuck"}

Types ==
    /\ pc \in Phases /\ program_vector \in Seq(Entry) /\ programs \in Seq(Started)
    /\ active_handles \in Seq(Nat) /\ pipes \in Seq(Nat) /\ Table(openedHandles)
    /\ it \in Nat /\ index \in Nat /\ signaled \in Nat /\ closing \in Nat
    /\ pipesMade \in Nat /\ lines \in 0 .. MaxLines /\ Len(pipes) <= 2 * pipesMade
    /\ failed \in SUBSET {"open", "create"} /\ clean \in BOOLEAN /\ spotless \in BOOLEAN

(* Where the loops are. *)
Loops ==
    /\ pc \in {"read", "special", "newline", "pipes"} => active_handles = <<>>
    /\ pc \in {"special", "newline"} => it \in 1 .. Len(program_vector) + 1
    /\ pc = "pipes" => it = Len(program_vector) /\ index = Len(program_vector)
    /\ pc = "start" => it \in 0 .. Len(program_vector) /\ index \in it .. Len(program_vector)
    /\ pc \in {"special", "newline", "pipes"} =>
          \A i \in DOMAIN program_vector : program_vector[i].handle = NoHandle
    /\ pc = "start" => \A i \in 1 .. it : program_vector[i].handle = NoHandle
    /\ pc \in Closing => /\ signaled \in DOMAIN active_handles /\ closing \in 1 .. 5
                       /\ programs[active_handles[signaled]].ended

(* An entry that was started: every end it has is one it has a flag for.   *)
Wiring(p) ==
    /\ ~p.redirection_in \/ ~p.redirection_out
    /\ p.pipe_in_handle # NoHandle => p.pipe_in
    /\ p.pipe_out_handle # NoHandle => p.pipe_out
    /\ p.redirection_in_handle # NoHandle => p.redirection_in
    /\ p.redirection_out_handle # NoHandle => p.redirection_out

Entries ==
    /\ \A i \in DOMAIN program_vector : LET p == program_vector[i] IN
          /\ p.file \/ ~p.redirection_in \/ ~p.redirection_out
          /\ p.handle # NoHandle =>
                /\ p.handle \in DOMAIN programs /\ Wiring(p)
                /\ programs[p.handle].in = InOf(p) /\ programs[p.handle].out = OutOf(p)
    /\ \A i, j \in DOMAIN program_vector :
          program_vector[i].handle = program_vector[j].handle =>
              i = j \/ program_vector[i].handle = NoHandle

Active ==
    /\ \A a \in DOMAIN active_handles :
          /\ active_handles[a] \in DOMAIN programs
          /\ \E i \in DOMAIN program_vector : program_vector[i].handle = active_handles[a]
    /\ \A a, b \in DOMAIN active_handles : active_handles[a] = active_handles[b] => a = b
    /\ \A n \in DOMAIN programs : /\ Running(n) => \E a \in DOMAIN active_handles :
                                                       active_handles[a] = n
                                  /\ programs[n].ended => ~HasFile(n)

(* Whose handles are whose. *)
Stacked(k)      == <<"pipe", k, 0>>
OfProgram(n)    == <<"own", n, 0>>
EndOf(n, k)     == <<"end", n, k>>

Owned(t, owner, h, key) ==
    h \in DOMAIN t /\ h \notin {std_in, std_out} /\ owner[h] = key

(* The ends of a program that ended are closed one after the other.        *)
Gone(n, k) == pc \in Closing /\ n = active_handles[signaled] /\ k < closing

Owns(owner) ==
    /\ \A k \in DOMAIN pipes : Owned(openedHandles, owner, pipes[k], Stacked(k))
    /\ \A n \in DOMAIN programs : HasFile(n) => Owned(openedHandles, owner, programs[n].own, OfProgram(n))
    /\ \A i \in DOMAIN program_vector : \A k \in 1 .. 4 :
          LET p == program_vector[i] IN
          p.handle # NoHandle /\ ~Gone(p.handle, k) =>
              \A h \in FlaggedEnds(p)[k] : h # NoHandle => Owned(openedHandles, owner, h, EndOf(p.handle, k))

(* What is behind the handles of the shell and of the programs that run.   *)
Behind ==
    /\ std_in \in DOMAIN openedHandles /\ std_out \in DOMAIN openedHandles
    /\ \A n \in DOMAIN programs : Running(n) =>
          /\ ObjectOf(openedHandles, programs[n].in) = programs[n].from
          /\ ObjectOf(openedHandles, programs[n].out) = programs[n].to
          /\ HasFile(n) => ObjectOf(openedHandles, programs[n].own) = <<"own", n>>

HandlesInv == Types /\ Loops /\ Entries /\ Active /\ Behind /\ \E owner : Owns(owner)

LEMMA EntryFound ==
    ASSUME program_vector \in Seq(Entry), NEW n
    PROVE  /\ EntryOf(n) \in 0 .. Len(program_vector)
           /\ EntryOf(n) # 0 => /\ EntryOf(n) \in DOMAIN program_vector
                                /\ program_vector[EntryOf(n)].handle = n
           /\ (\E i \in DOMAIN program_vector : program_vector[i].handle = n) => EntryOf(n) # 0
<1> DEFINE I == {i \in 1 .. Len(program_vector) : program_vector[i].handle = n}
<1>1. Len(program_vector) \in Nat /\ DOMAIN program_vector = 1 .. Len(program_vector)
  BY LenProperties
<1>2. EntryOf(n) = IF I # {} THEN Min(I) ELSE 0
  BY DEF EntryOf, SelectInSeq
<1>3. CASE I = {}
  BY <1>1, <1>2, <1>3
<1>4. CASE I # {}
  <2>1. I \in SUBSET Nat
    OBVIOUS
  <2>2. Min(I) \in I
    <3> HIDE DEF I
    <3>1. \E m \in I : \A i \in I : m <= i
      BY <1>4, <2>1, Least
    <3> QED
      BY <3>1 DEF Min
  <2> QED
    BY <1>1, <1>2, <1>4, <2>2
<1> QED
  BY <1>3, <1>4

LEMMA Objects0 ==
    /\ <<"console", std_in>> \in Objects /\ <<"console", std_out>> \in Objects
    /\ \A k \in Int : /\ <<"read", k>> \in Objects /\ <<"write", k>> \in Objects
                      /\ <<"file", k>> \in Objects /\ <<"own", k>> \in Objects
                      /\ <<"none", k>> \in Objects
BY DEF Objects, std_in, std_out

LEMMA InitHandles == ASSUME Init PROVE HandlesInv
<1>1. DOMAIN Console = {0, 1} /\ Console \in [{0, 1} -> Objects]
  BY Objects0 DEF Console, std_in, std_out
<1>2. IsFiniteSet({0, 1})
  <2>1. IsFiniteSet({0}) /\ {0, 1} = {0} \cup {1}
    BY FS_Singleton
  <2>2. IsFiniteSet({0} \cup {1})
    BY <2>1, FS_AddElement
  <2> QED
    BY <2>1, <2>2
<1>3. Table(openedHandles)
  BY <1>1, <1>2 DEF Init, Table
<1>4. /\ program_vector = <<>> /\ programs = <<>> /\ active_handles = <<>> /\ pipes = <<>>
      /\ pc = "read"
  BY DEF Init
<1>5. \A X : <<>> \in Seq(X) /\ Len(<<>>) = 0 /\ DOMAIN <<>> = {}
  BY EmptySeq
<1>6. Types
  BY <1>3, <1>5, ShellAssumption DEF Init, Types, Phases
<1>7. Loops
  BY <1>4 DEF Loops, Closing
<1>8. Entries /\ Active
  BY <1>4, <1>5 DEF Entries, Active
<1>9. Behind
  BY <1>1, <1>4, <1>5 DEF Behind, Init, std_in, std_out
<1>10. \A owner : Owns(owner)
  BY <1>4, <1>5 DEF Owns
<1> QED
  BY <1>6, <1>7, <1>8, <1>9, <1>10 DEF HandlesInv

(* A step that leaves the entries, the programs and the handles alone.     *)
LEMMA Quiet ==
    ASSUME Entries, Active, Behind, NEW owner, Owns(owner),
           UNCHANGED <<program_vector, programs, active_handles, openedHandles, pipes>>,
           pc \notin Closing, pc' \notin Closing \/ closing' = 1
    PROVE  Entries' /\ Active' /\ Behind' /\ Owns(owner)'
<1>1. Entries'
  BY DEF Entries, Wiring, InOf, OutOf
<1>2. Active'
  BY DEF Active, Running, HasFile
<1>3. Behind'
  BY DEF Behind, Running, HasFile, ObjectOf
<1>4. \A n : \A k \in 1 .. 4 : ~Gone(n, k) /\ ~Gone(n, k)'
  BY DEF Gone, Closing
<1>5. openedHandles' = openedHandles
  OBVIOUS
<1>6. \A p : FlaggedEnds(p)' = FlaggedEnds(p)
  BY DEF FlaggedEnds, Flagged
<1>7. (\A k \in DOMAIN pipes : Owned(openedHandles, owner, pipes[k], Stacked(k)))'
  BY <1>5 DEF Owns
<1>8. (\A n \in DOMAIN programs : HasFile(n) =>
          Owned(openedHandles, owner, programs[n].own, OfProgram(n)))'
  BY <1>5 DEF Owns, HasFile
<1>9. (\A i \in DOMAIN program_vector : \A k \in 1 .. 4 :
          LET p == program_vector[i] IN
          p.handle # NoHandle /\ ~Gone(p.handle, k) =>
              \A h \in FlaggedEnds(p)[k] : h # NoHandle => Owned(openedHandles, owner, h, EndOf(p.handle, k)))'
  BY <1>4, <1>5, <1>6 DEF Owns
<1> QED
  BY <1>1, <1>2, <1>3, <1>7, <1>8, <1>9 DEF Owns

(* Nothing but the phase of the shell changes when it gives up.            *)
LEMMA GivenUp ==
    ASSUME GivesUp
    PROVE  /\ pc \in {"special", "wait", "close"} /\ pc' \in {"asleep", "stuck", "aborted"}
           /\ UNCHANGED <<program_vector, it, index, pipes, active_handles, signaled, closing,
                          openedHandles, programs, pipesMade, lines, clean, failed, spotless,
                          directory, echo_on>>
           /\ UNCHANGED workingDirectory \/ StrcpyEndsSystem
BY DEF GivesUp, StrcpyEndsSystem, WaitOverlooks, WaitGarbled, CloseWaits, AtCommand, Special, Same,
       execVars, histVars, dirVars

(* The steps that only move on: in a phase, or from one to the next.       *)
LoopStep ==
    \/ Leave \/ Exit \/ ChangeDirectory \/ NotSpecial \/ SpecialDone \/ PipesCreated
    \/ SkipSpecial \/ SkipFile \/ OpenFails \/ PopsTooMuch \/ AllStarted \/ ExecuteReturns
    \/ StrcpyEndsSystem \/ WaitOverlooks \/ WaitGarbled

LEMMA LoopStepKeeps == ASSUME HandlesInv, LoopStep PROVE HandlesInv'
<1> DEFINE n == Len(program_vector)
<1>0. Types /\ Loops /\ Entries /\ Active /\ Behind
  BY DEF HandlesInv
<1>1. PICK owner : Owns(owner)
  BY DEF HandlesInv
<1>2. n \in Nat /\ DOMAIN program_vector = 1 .. n
  BY <1>0, LenProperties DEF Types
<1>3. /\ UNCHANGED <<program_vector, programs, active_handles, openedHandles, pipes>>
      /\ UNCHANGED <<signaled, closing, pipesMade, lines, clean>>
      /\ pc \notin Closing /\ pc' \notin Closing
  BY DEF Closing, LoopStep, StrcpyEndsSystem, WaitOverlooks, WaitGarbled, Leave, Exit,
         ChangeDirectory, NotSpecial, SpecialDone,
         PipesCreated, SkipSpecial, SkipFile, OpenFails, PopsTooMuch, AllStarted,
         ExecuteReturns, AtCommand, Special, AtProgram, Same, execVars, dirVars, histVars
<1>4. Entries' /\ Active' /\ Behind' /\ Owns(owner)'
  BY <1>0, <1>1, <1>3, Quiet
<1>5. Types' /\ Loops'
  <2> USE <1>0, <1>2, <1>3
  <2>1. CASE Leave
    BY <2>1 DEF Leave, Types, Loops, Phases, Closing, histVars, execVars
  <2>2. CASE Exit
    BY <2>2 DEF Exit, AtCommand, Special, Types, Loops, Phases, Closing, histVars, execVars
  <2>3. CASE ChangeDirectory
    BY <2>3 DEF ChangeDirectory, AtCommand, Special, Types, Loops, Phases, Closing, histVars,
                execVars
  <2>4. CASE NotSpecial
    BY <2>4 DEF NotSpecial, Special, Types, Loops, Phases, Closing, histVars, execVars
  <2>5. CASE SpecialDone
    BY <2>5 DEF SpecialDone, Special, Types, Loops, Phases, Closing, histVars, execVars
  <2>6. CASE PipesCreated
    BY <2>6, SMTT(30) DEF PipesCreated, Types, Loops, Phases, Closing, histVars, execVars
  <2>7. CASE SkipSpecial
    BY <2>7 DEF SkipSpecial, Types, Loops, Phases, Closing, histVars, execVars
  <2>8. CASE SkipFile
    BY <2>8 DEF SkipFile, Types, Loops, Phases, Closing, histVars
  <2>9. CASE OpenFails
    BY <2>9 DEF OpenFails, AtProgram, Types, Loops, Phases, Closing, histVars, execVars
  <2>10. CASE PopsTooMuch
    BY <2>10 DEF PopsTooMuch, AtProgram, Types, Loops, Phases, Closing, histVars, execVars
  <2>11. CASE AllStarted
    BY <2>11 DEF AllStarted, Types, Loops, Phases, Closing, histVars, execVars
  <2>12. CASE ExecuteReturns
    BY <2>12 DEF ExecuteReturns, Same, Types, Loops, Phases, Closing
  <2>13. CASE StrcpyEndsSystem
    BY <2>13 DEF StrcpyEndsSystem, AtCommand, Special, Types, Loops, Phases, Closing, histVars,
                 execVars
  <2>14. CASE WaitOverlooks \/ WaitGarbled
    BY <2>14 DEF WaitOverlooks, WaitGarbled, Same, Types, Loops, Phases, Closing
  <2> QED
    BY <2>1, <2>2, <2>3, <2>4, <2>5, <2>6, <2>7, <2>8, <2>9, <2>10, <2>11, <2>12, <2>13, <2>14
       DEF LoopStep
<1> QED
  BY <1>4, <1>5 DEF HandlesInv

LEMMA WaitForKeeps == ASSUME HandlesInv, WaitFor PROVE HandlesInv' /\ pc' = "close"
<1>0. Types /\ Loops /\ Entries /\ Active /\ Behind
  BY DEF HandlesInv
<1>1. PICK owner : Owns(owner)
  BY DEF HandlesInv
<1>2. PICK i \in DOMAIN active_handles :
          /\ programs[active_handles[i]].ended /\ signaled' = i
          /\ IF EntryOf(active_handles[i]) = 0
             THEN pc' = "crashed" /\ UNCHANGED closing
             ELSE pc' = "close" /\ closing' = 1
  BY DEF WaitFor
<1>3. EntryOf(active_handles[i]) # 0
  BY <1>0, EntryFound DEF Types, Active
<1>4. /\ UNCHANGED <<program_vector, programs, active_handles, openedHandles, pipes>>
      /\ UNCHANGED <<it, index, pipesMade, lines, histVars>>
      /\ pc = "wait" /\ pc' = "close" /\ closing' = 1 /\ signaled' = i /\ pc \notin Closing
  BY <1>2, <1>3 DEF WaitFor, Same, histVars, Closing
<1>5. Entries' /\ Active' /\ Behind' /\ Owns(owner)'
  BY <1>0, <1>1, <1>4, Quiet
<1>6. i \in Nat
  BY <1>0, LenProperties DEF Types
<1>7. Types' /\ Loops'
  BY <1>0, <1>2, <1>4, <1>6 DEF Types, Loops, Closing, Phases, histVars
<1> QED
  BY <1>4, <1>5, <1>7 DEF HandlesInv

(* A close that waits has closed what it closed. *)
LEMMA CloseWaitsKeeps == ASSUME HandlesInv, CloseWaits PROVE HandlesInv'
<1>1. PICK owner : Owns(owner)
  BY DEF HandlesInv
<1>2. /\ UNCHANGED <<program_vector, it, index, pipes, active_handles, signaled, closing,
                     openedHandles, programs, pipesMade, lines, clean, failed, spotless>>
      /\ pc = "close" /\ pc' = "stuck" /\ pc \in Closing /\ pc' \in Closing
  BY DEF CloseWaits, Same, Closing
<1>3. Types' /\ Loops'
  BY <1>2 DEF HandlesInv, Types, Loops, Closing, Phases
<1>4. Entries' /\ Active' /\ Behind'
  BY <1>2 DEF HandlesInv, Entries, Wiring, InOf, OutOf, Active, Behind, Running, HasFile,
              ObjectOf
<1>5. \A p : FlaggedEnds(p)' = FlaggedEnds(p)
  BY DEF FlaggedEnds, Flagged
<1>6. \A n, k : Gone(n, k)' = Gone(n, k)
  BY <1>2 DEF Gone, Closing
<1>7. Owns(owner)'
  BY <1>1, <1>2, <1>5, <1>6 DEF Owns, HasFile
<1> QED
  BY <1>3, <1>4, <1>7 DEF HandlesInv

LEMMA ExecuteKeeps == ASSUME HandlesInv, Execute PROVE HandlesInv'
<1> DEFINE n == Len(program_vector)
<1>0. Types /\ Loops /\ Entries /\ Active /\ Behind
  BY DEF HandlesInv
<1>1. PICK owner : Owns(owner)
  BY DEF HandlesInv
<1>2. n \in Nat /\ DOMAIN program_vector = 1 .. n
  BY <1>0, LenProperties DEF Types
<1>3. <<>> \in Seq(Nat) /\ Len(<<>>) = 0 /\ DOMAIN <<>> = {}
  BY EmptySeq
<1>4. /\ UNCHANGED <<program_vector, programs, active_handles, openedHandles>>
      /\ UNCHANGED <<signaled, closing, pipesMade, lines, histVars>>
      /\ pc = "newline" /\ pc' \in {"read", "pipes"}
      /\ UNCHANGED <<it, index, pipes>> \/ (it' = n /\ index' = n /\ pipes' = <<>>)
      /\ pc' = "pipes" => it' = n /\ index' = n
  BY DEF Execute
<1>5. Entries' /\ Active' /\ Behind'
  BY <1>0, <1>4 DEF Entries, Wiring, InOf, OutOf, Active, Behind, Running, HasFile, ObjectOf
<1>6. Owns(owner)'
  <2>1. (\A k \in DOMAIN pipes : Owned(openedHandles, owner, pipes[k], Stacked(k)))'
    BY <1>1, <1>3, <1>4 DEF Owns, Owned
  <2>2. (\A m \in DOMAIN programs : HasFile(m) =>
            Owned(openedHandles, owner, programs[m].own, OfProgram(m)))'
    BY <1>1, <1>4 DEF Owns, HasFile, Owned
  <2>3. (\A i \in DOMAIN program_vector : \A k \in 1 .. 4 :
            LET p == program_vector[i] IN
            p.handle # NoHandle /\ ~Gone(p.handle, k) =>
                \A h \in FlaggedEnds(p)[k] : h # NoHandle => Owned(openedHandles, owner, h, EndOf(p.handle, k)))'
    BY <1>0, <1>4 DEF Loops, Closing
  <2> QED
    BY <2>1, <2>2, <2>3 DEF Owns
<1>7. Types'
  <2>1. pipes' \in Seq(Nat) /\ Len(pipes') <= 2 * pipesMade
    <3>1. CASE pipes' = <<>>
      <4>1. Len(pipes') = 0 /\ pipesMade \in Nat
        BY <1>0, <1>3, <3>1 DEF Types
      <4> QED
        BY <1>3, <3>1, <4>1
    <3> QED
      BY <1>0, <1>4, <3>1 DEF Types
  <2>2. it' \in Nat /\ index' \in Nat
    BY <1>0, <1>2, <1>4 DEF Types
  <2> QED
    BY <1>0, <1>4, <2>1, <2>2 DEF Types, Phases, histVars
<1>8. Loops'
  BY <1>0, <1>4 DEF Loops, Closing
<1> QED
  BY <1>5, <1>6, <1>7, <1>8 DEF HandlesInv

(* What a running program reads and writes is the console's or its own.    *)
LEMMA RunningOwnsIt ==
    ASSUME HandlesInv, NEW owner, Owns(owner), NEW n \in DOMAIN programs, Running(n)
    PROVE  /\ \/ programs[n].in = std_in
              \/ \E k \in 1 .. 4 : Owned(openedHandles, owner, programs[n].in, EndOf(n, k))
           /\ \/ programs[n].out = std_out
              \/ \E k \in 1 .. 4 : Owned(openedHandles, owner, programs[n].out, EndOf(n, k))
<1>1. PICK a \in DOMAIN active_handles : active_handles[a] = n
  BY DEF HandlesInv, Active
<1>2. PICK i \in DOMAIN program_vector : program_vector[i].handle = n
  BY <1>1 DEF HandlesInv, Active
<1> DEFINE p == program_vector[i]
<1>3. n # NoHandle
  BY LenProperties DEF HandlesInv, Types, NoHandle
<1>4. \A k \in 1 .. 4 : ~Gone(n, k)
  BY DEF HandlesInv, Loops, Closing, Gone, Running
<1>5. \A k \in 1 .. 4 : \A h \in FlaggedEnds(p)[k] :
         h # NoHandle => Owned(openedHandles, owner, h, EndOf(n, k))
  BY <1>2, <1>3, <1>4 DEF Owns
<1>6. Wiring(p) /\ programs[n].in = InOf(p) /\ programs[n].out = OutOf(p)
  BY <1>2, <1>3 DEF HandlesInv, Entries
<1> HIDE DEF p
<1>7. /\ p.pipe_in_handle # NoHandle => p.pipe_in_handle \in FlaggedEnds(p)[1]
      /\ p.pipe_out_handle # NoHandle => p.pipe_out_handle \in FlaggedEnds(p)[2]
      /\ p.redirection_in_handle # NoHandle => p.redirection_in_handle \in FlaggedEnds(p)[3]
      /\ p.redirection_out_handle # NoHandle => p.redirection_out_handle \in FlaggedEnds(p)[4]
  BY <1>6 DEF Wiring, FlaggedEnds, Flagged
<1>8. /\ p.pipe_in_handle # NoHandle => Owned(openedHandles, owner, p.pipe_in_handle, EndOf(n, 1))
      /\ p.pipe_out_handle # NoHandle => Owned(openedHandles, owner, p.pipe_out_handle, EndOf(n, 2))
      /\ p.redirection_in_handle # NoHandle =>
            Owned(openedHandles, owner, p.redirection_in_handle, EndOf(n, 3))
      /\ p.redirection_out_handle # NoHandle =>
            Owned(openedHandles, owner, p.redirection_out_handle, EndOf(n, 4))
  BY <1>5, <1>7
<1> QED
  BY <1>6, <1>8 DEF InOf, OutOf, FirstOf

(* It is still behind its handles in a table t that differs from this one  *)
(* in handles H that are not its own.                                      *)
LEMMA StillBehind ==
    ASSUME HandlesInv, NEW owner, Owns(owner), NEW H, std_in \notin H, std_out \notin H,
           NEW t, \A h \in DOMAIN openedHandles \ H : h \in DOMAIN t /\ t[h] = openedHandles[h],
           NEW n \in DOMAIN programs, Running(n),
           \A h \in H : \A k \in 1 .. 4 : ~Owned(openedHandles, owner, h, EndOf(n, k))
    PROVE  /\ ObjectOf(t, programs[n].in) = programs[n].from
           /\ ObjectOf(t, programs[n].out) = programs[n].to
           /\ HasFile(n) /\ programs[n].own \notin H =>
                 ObjectOf(t, programs[n].own) = <<"own", n>>
<1>1. /\ \/ programs[n].in = std_in
         \/ \E k \in 1 .. 4 : Owned(openedHandles, owner, programs[n].in, EndOf(n, k))
      /\ \/ programs[n].out = std_out
         \/ \E k \in 1 .. 4 : Owned(openedHandles, owner, programs[n].out, EndOf(n, k))
  BY RunningOwnsIt
<1>2. /\ std_in \in DOMAIN openedHandles /\ std_out \in DOMAIN openedHandles
      /\ ObjectOf(openedHandles, programs[n].in) = programs[n].from
      /\ ObjectOf(openedHandles, programs[n].out) = programs[n].to
      /\ HasFile(n) => ObjectOf(openedHandles, programs[n].own) = <<"own", n>>
  BY DEF HandlesInv, Behind
<1>3. /\ programs[n].in \in DOMAIN openedHandles \ H
      /\ programs[n].out \in DOMAIN openedHandles \ H
  BY <1>1, <1>2 DEF Owned
<1>4. HasFile(n) => programs[n].own \in DOMAIN openedHandles
  BY DEF Owns, Owned
<1> QED
  BY <1>2, <1>3, <1>4 DEF ObjectOf

LEMMA ReadLineKeeps ==
    ASSUME HandlesInv, ReadLine
    PROVE  HandlesInv' /\ \A i \in DOMAIN program_vector' : program_vector'[i].handle = NoHandle
<1>0. Types /\ Loops /\ Behind
  BY DEF HandlesInv
<1>1. PICK owner : Owns(owner)
  BY DEF HandlesInv
<1>2. PICK line \in Lines : program_vector' = ProcessLine(line) /\ clean' = CleanLine(ProcessLine(line))
  BY DEF ReadLine
<1>3. line \in Text
  <2>1. line \in Seq(STRING)
    BY ShellAssumption
  <2>2. \A i \in 1 .. Len(line) : line[i] \in Tokens
    BY <2>1, ElementOfSeq DEF Tokens
  <2>3. Len(line) \in Nat /\ line \in [1 .. Len(line) -> Tokens]
    BY <2>1, <2>2, LenProperties
  <2> QED
    BY <2>3, SeqDef DEF Text
<1>4. Fresh(ProcessLine(line))
  BY <1>3, LineType
<1>5. /\ program_vector' \in Seq(Entry)
      /\ \A i \in DOMAIN program_vector' :
            /\ program_vector'[i].handle = NoHandle
            /\ program_vector'[i].file \/ ~program_vector'[i].redirection_in
                                       \/ ~program_vector'[i].redirection_out
  BY <1>2, <1>4 DEF Fresh
<1>6. <<>> \in Seq(Started) /\ DOMAIN <<>> = {} /\ active_handles = <<>>
  BY <1>0, EmptySeq DEF ReadLine, Loops, Closing
<1>7. /\ UNCHANGED <<active_handles, pipes, openedHandles, index, signaled, closing,
                     pipesMade, spotless>>
      /\ pc = "read" /\ pc' \in {"special", "aborted"}
      /\ it' = 1 /\ programs' = <<>> /\ failed' = {}
      /\ lines' = lines + 1 /\ lines < MaxLines
  BY DEF ReadLine, execVars
<1>8. Types'
  <2>1. clean' \in BOOLEAN
    BY <1>2 DEF CleanLine
  <2> QED
    BY <1>0, <1>5, <1>6, <1>7, <2>1, ShellAssumption DEF Types, Phases
<1>9. Loops'
  <2>1. Len(program_vector') \in Nat
    BY <1>5, LenProperties
  <2> QED
    BY <1>5, <1>6, <1>7, <2>1 DEF Loops, Closing
<1>10. Entries' /\ Active' /\ Behind'
  BY <1>0, <1>5, <1>6, <1>7 DEF Entries, Active, Behind
<1>11. Owns(owner)'
  BY <1>1, <1>5, <1>6, <1>7 DEF Owns, Owned
<1> QED
  BY <1>5, <1>8, <1>9, <1>10, <1>11 DEF HandlesInv

LEMMA EchoKeeps == ASSUME HandlesInv, Echo PROVE HandlesInv'
<1>0. Types /\ Loops /\ Entries /\ Active /\ Behind
  BY DEF HandlesInv
<1>1. PICK owner : Owns(owner)
  BY DEF HandlesInv
<1> DEFINE n == Len(program_vector)
           text == <<"ECHO is", IF echo_on THEN "on" ELSE "off">>
<1>t. text \in Text
  <2>1. ASSUME NEW word \in Tokens, NEW first \in Tokens
        PROVE  <<first, word>> \in Text
    BY DEF Text
  <2>2. "ECHO is" \in Tokens /\ "on" \in Tokens /\ "off" \in Tokens
    BY DEF Tokens
  <2>3. <<"ECHO is", "on">> \in Text /\ <<"ECHO is", "off">> \in Text
    BY <2>1, <2>2
  <2> QED
    BY <2>3
<1>u. Echo => \/ program_vector' = program_vector
              \/ program_vector' = [program_vector EXCEPT ![it].argument = text]
  BY DEF Echo
<1> HIDE DEF text
<1>2. n \in Nat /\ DOMAIN program_vector = 1 .. n /\ \A i \in 1 .. n : program_vector[i] \in Entry
  BY <1>0, LenProperties, ElementOfSeq DEF Types
<1>3. /\ UNCHANGED <<programs, active_handles, openedHandles, pipes, pc, index, signaled,
                     closing, pipesMade, lines, clean, failed, spotless>>
      /\ pc = "special" /\ it \in 1 .. n /\ it' = it + 1
      /\ program_vector' = program_vector
         \/ program_vector' = [program_vector EXCEPT ![it].argument = text]
  <2>1. it \in 1 .. n
    <3>1. AtCommand("echo")
      BY DEF Echo
    <3>2. pc = "special" /\ it <= n
      BY <3>1 DEF AtCommand
    <3> QED
      BY <1>0, <1>2, <3>2 DEF Loops, Closing
  <2>2. /\ UNCHANGED <<programs, active_handles, openedHandles, pipes, pc, index, signaled,
                       closing, pipesMade, lines, clean, failed, spotless>>
        /\ pc = "special" /\ it' = it + 1
    BY DEF Echo, AtCommand, Special, execVars, histVars
  <2>3. \/ program_vector' = program_vector
        \/ program_vector' = [program_vector EXCEPT ![it].argument = text]
    BY <1>u
  <2> QED
    BY <2>1, <2>2, <2>3
<1>4. /\ program_vector' \in Seq(Entry) /\ Len(program_vector') = n
      /\ \A i \in 1 .. n : /\ program_vector'[i].handle = program_vector[i].handle
                           /\ program_vector'[i].file = program_vector[i].file
                           /\ program_vector'[i].redirection_in = program_vector[i].redirection_in
                           /\ program_vector'[i].redirection_out = program_vector[i].redirection_out
  <2>2. CASE program_vector' = program_vector
    BY <1>0, <2>2 DEF Types
  <2>3. CASE program_vector' = [program_vector EXCEPT ![it].argument = text]
    <3> DEFINE e == [program_vector[it] EXCEPT !.argument = text]
    <3>1. program_vector[it] \in Entry
      BY <1>2, <1>3
    <3>2. /\ e \in Entry /\ e.handle = program_vector[it].handle
          /\ e.file = program_vector[it].file
          /\ e.redirection_in = program_vector[it].redirection_in
          /\ e.redirection_out = program_vector[it].redirection_out
      BY <1>t, <3>1 DEF Entry
    <3>3. program_vector' = [program_vector EXCEPT ![it] = e]
      BY <2>3
    <3> HIDE DEF e
    <3>4. program_vector' \in Seq(Entry) /\ Len(program_vector') = n
      BY <1>0, <1>3, <3>2, <3>3, ExceptSeq DEF Types
    <3> QED
      BY <1>2, <1>3, <3>2, <3>3, <3>4
  <2> QED
    BY <1>3, <2>2, <2>3
<1>5. DOMAIN program_vector' = 1 .. n
  BY <1>4, LenProperties
<1>6. \A i \in 1 .. n : program_vector'[i].handle = NoHandle
  BY <1>0, <1>2, <1>3, <1>4 DEF Loops, Closing
<1>7. Types' /\ Loops'
  <2>1. it' \in Nat /\ it' \in 1 .. n + 1
    BY <1>0, <1>2, <1>3 DEF Types
  <2>2. Types'
    BY <1>0, <1>3, <1>4, <2>1 DEF Types
  <2>3. Loops'
    BY <1>0, <1>3, <1>4, <1>5, <1>6, <2>1 DEF Loops, Closing
  <2> QED
    BY <2>2, <2>3
<1>8. active_handles' = <<>> /\ DOMAIN <<>> = {} /\ active_handles = <<>>
  <2>1. active_handles = <<>>
    BY <1>0, <1>3 DEF Loops, Closing
  <2> QED
    BY <1>3, <2>1, EmptySeq
<1>9. Entries'
  BY <1>0, <1>2, <1>4, <1>5, <1>6 DEF Entries
<1>10. Active' /\ Behind'
  BY <1>0, <1>3, <1>8 DEF Active, Behind, Running, HasFile, ObjectOf
<1>11. Owns(owner)'
  BY <1>1, <1>3, <1>5, <1>6 DEF Owns, Owned, HasFile
<1> QED
  BY <1>7, <1>9, <1>10, <1>11 DEF HandlesInv

LEMMA CreatePipeKeeps == ASSUME HandlesInv, CreatePipe PROVE HandlesInv'
<1> DEFINE k == pipesMade + 1
           t == With(openedHandles, <<"read", k>>)
           r == FirstFree(openedHandles)
           w == FirstFree(t)
           u == With(t, <<"write", k>>)
           D == DOMAIN openedHandles
<1>0. Types /\ Loops /\ Entries /\ Active /\ Behind
  BY DEF HandlesInv
<1>1. PICK owner : Owns(owner)
  BY DEF HandlesInv
<1>m. PICK m : m = Len(pipes)
  OBVIOUS
<1>2. /\ k \in Int /\ k - 1 = pipesMade /\ <<"read", k>> \in Objects /\ <<"write", k>> \in Objects
  <2>1. k \in Int /\ k - 1 = pipesMade
    BY <1>0 DEF Types
  <2> HIDE DEF k
  <2> QED
    BY <2>1, Objects0
<1>3. /\ pipesMade' = k /\ openedHandles' = u /\ pipes' = pipes \o <<w, r>>
      /\ UNCHANGED <<program_vector, it, index, active_handles, signaled, closing, programs,
                     lines, clean, failed, spotless>>
      /\ pc = "pipes" /\ pc' = "pipes"
  BY DEF CreatePipe, PipesWanted, histVars
<1>4. /\ Table(t) /\ DOMAIN t = D \cup {r} /\ \A h \in D : t[h] = openedHandles[h]
      /\ r \in Nat /\ r \notin D
  <2> HIDE DEF k
  <2> QED
    BY <1>0, <1>2, WithIt DEF Types
<1>5. /\ Table(u) /\ DOMAIN u = DOMAIN t \cup {w} /\ \A h \in DOMAIN t : u[h] = t[h]
      /\ w \in Nat /\ w \notin DOMAIN t
  <2> HIDE DEF k, t
  <2> QED
    BY <1>2, <1>4, WithIt
<1> HIDE DEF k, t, r, w, u
<1>6. /\ pipes' \in Seq(Nat) /\ Len(pipes') = m + 2 /\ m \in Nat
      /\ \A i \in 1 .. m : pipes'[i] = pipes[i]
      /\ pipes'[m + 1] = w /\ pipes'[m + 2] = r
  <2>1. <<w, r>> \in Seq(Nat) /\ Len(<<w, r>>) = 2 /\ <<w, r>>[1] = w /\ <<w, r>>[2] = r
    BY <1>4, <1>5
  <2> DEFINE two == <<w, r>>
  <2> HIDE DEF two
  <2>2. two \in Seq(Nat) /\ Len(two) = 2 /\ two[1] = w /\ two[2] = r
    BY <2>1 DEF two
  <2>3. pipes \in Seq(Nat) /\ m \in Nat
    BY <1>0, <1>m, LenProperties DEF Types
  <2>a. /\ pipes \o two \in Seq(Nat) /\ Len(pipes \o two) = Len(pipes) + Len(two)
        /\ \A i \in 1 .. Len(pipes) + Len(two) :
              (pipes \o two)[i] = IF i <= Len(pipes) THEN pipes[i] ELSE two[i - Len(pipes)]
    BY <2>2, <2>3, ConcatProperties
  <2>4. /\ pipes \o two \in Seq(Nat) /\ Len(pipes \o two) = m + 2
        /\ \A i \in 1 .. m + 2 :
              (pipes \o two)[i] = IF i <= m THEN pipes[i] ELSE two[i - m]
    BY <1>m, <2>2, <2>a
  <2>5. pipes' = pipes \o two
    BY <1>3 DEF two
  <2>6. (m + 1) - m = 1 /\ (m + 2) - m = 2 /\ ~(m + 1 <= m) /\ ~(m + 2 <= m)
        /\ 1 .. m \subseteq 1 .. m + 2 /\ m + 1 \in 1 .. m + 2 /\ m + 2 \in 1 .. m + 2
    BY <2>3
  <2>7. ASSUME NEW i \in 1 .. m PROVE pipes'[i] = pipes[i]
    <3>1. i \in 1 .. m + 2 /\ i <= m
      BY <1>m, <2>6
    <3> QED
      BY <2>4, <2>5, <3>1
  <2>8. pipes'[m + 1] = two[1] /\ pipes'[m + 2] = two[2]
    BY <2>4, <2>5, <2>6
  <2> QED
    BY <2>2, <2>3, <2>4, <2>5, <2>7, <2>8
<1>7. DOMAIN pipes = 1 .. m /\ DOMAIN pipes' = 1 .. m + 2
  BY <1>0, <1>m, <1>6, LenProperties DEF Types
<1> DEFINE new == [h \in D \cup {r, w} |-> IF h = w THEN Stacked(m + 1)
                                             ELSE IF h = r THEN Stacked(m + 2) ELSE owner[h]]
<1>o. PICK owner2 : owner2 = new
  OBVIOUS
<1>8. \A h \in D : owner2[h] = owner[h] /\ h \in DOMAIN openedHandles'
                   /\ openedHandles'[h] = openedHandles[h]
  BY <1>3, <1>4, <1>5, <1>o
<1>9. owner2[w] = Stacked(m + 1) /\ owner2[r] = Stacked(m + 2)
  BY <1>4, <1>5, <1>o
<1> HIDE DEF new, D
<1>10. \A h, key : Owned(openedHandles, owner, h, key) => Owned(openedHandles', owner2, h, key)
  BY <1>8 DEF Owned, D
<1>11. Owns(owner2)'
  <2>1. ASSUME NEW i \in DOMAIN pipes' PROVE Owned(openedHandles', owner2, pipes'[i], Stacked(i))
    <3>1. CASE i \in 1 .. m
      BY <1>1, <1>6, <1>7, <1>10, <3>1 DEF Owns
    <3>2. std_in \in D /\ std_out \in D
      BY <1>0 DEF Behind, D
    <3>3. Owned(openedHandles', owner2, w, Stacked(m + 1)) /\ Owned(openedHandles', owner2, r, Stacked(m + 2))
      BY <1>3, <1>4, <1>5, <1>9, <3>2 DEF Owned
    <3>4. i \in 1 .. m \/ i = m + 1 \/ i = m + 2
      BY <1>6, <1>7
    <3> QED
      BY <1>6, <3>1, <3>3, <3>4
  <2>2. (\A n \in DOMAIN programs : HasFile(n) =>
            Owned(openedHandles, owner2, programs[n].own, OfProgram(n)))'
    BY <1>1, <1>3, <1>10 DEF Owns, HasFile
  <2>3. (\A i \in DOMAIN program_vector : \A j \in 1 .. 4 :
            LET p == program_vector[i] IN
            p.handle # NoHandle /\ ~Gone(p.handle, j) =>
                \A h \in FlaggedEnds(p)[j] : h # NoHandle => Owned(openedHandles, owner2, h, EndOf(p.handle, j)))'
    BY <1>0, <1>3 DEF Loops, Closing
  <2> QED
    BY <2>1, <2>2, <2>3 DEF Owns
<1>12. Behind'
  <2>1. std_in \in DOMAIN openedHandles' /\ std_out \in DOMAIN openedHandles'
    BY <1>0, <1>8 DEF Behind, D
  <2>2. active_handles = <<>> /\ DOMAIN <<>> = {}
    BY <1>0, <1>3, EmptySeq DEF Loops, Closing
  <2>3. \A n \in DOMAIN programs : ~Running(n)
    BY <1>0, <2>2 DEF Active
  <2> QED
    BY <1>3, <2>1, <2>3 DEF Behind, Running
<1>13. Types'
  <2>1. pipesMade' \in Nat /\ Len(pipes') <= 2 * pipesMade'
    <3>1. pipesMade \in Nat /\ m <= 2 * pipesMade
      BY <1>0, <1>m DEF Types
    <3> QED
      BY <1>2, <1>3, <1>6, <3>1 DEF k
  <2> QED
    BY <1>0, <1>3, <1>5, <1>6, <2>1 DEF Types
<1>14. Loops' /\ Entries' /\ Active'
  <2>1. Loops'
    BY <1>0, <1>3 DEF Loops, Closing
  <2>2. Entries'
    BY <1>0, <1>3 DEF Entries, Wiring, InOf, OutOf
  <2>3. Active'
    BY <1>0, <1>3 DEF Active, Running, HasFile
  <2> QED
    BY <2>1, <2>2, <2>3
<1> QED
  BY <1>11, <1>12, <1>13, <1>14 DEF HandlesInv

(* The end that is closed is a handle of the program that ended.           *)
LEMMA CloseEndKeeps == ASSUME HandlesInv, CloseEnd PROVE HandlesInv'
<1> DEFINE n == active_handles[signaled]
           H == FlaggedEnds(Signaled)[closing]
<1>0. Types /\ Loops /\ Entries /\ Active /\ Behind
  BY DEF HandlesInv
<1>1. PICK owner : Owns(owner)
  BY DEF HandlesInv
<1>2. /\ openedHandles' = Closed(openedHandles, H) /\ closing' = closing + 1
      /\ UNCHANGED <<pc, program_vector, it, index, active_handles, signaled, programs, pipes,
                     pipesMade, lines, clean, failed, spotless>>
      /\ pc = "close"
  BY DEF CloseEnd, Same
<1>3. /\ signaled \in DOMAIN active_handles /\ closing \in 1 .. 5 /\ programs[n].ended
      /\ n \in DOMAIN programs /\ n # NoHandle
  <2>1. DOMAIN programs = 1 .. Len(programs) /\ Len(programs) \in Nat
    BY <1>0, LenProperties DEF Types
  <2> QED
    BY <1>0, <1>2, <2>1 DEF Loops, Closing, Active, NoHandle
<1>4. closing \in 1 .. 4
  <2>1. Len(FlaggedEnds(Signaled)) = 4
    BY DEF FlaggedEnds
  <2>2. closing <= 4
    BY <2>1 DEF CloseEnd
  <2> QED
    BY <1>3, <2>1, <2>2
<1>5. PICK e \in DOMAIN program_vector : program_vector[e].handle = n /\ Signaled = program_vector[e]
  <2>1. EntryOf(n) \in DOMAIN program_vector /\ program_vector[EntryOf(n)].handle = n
    BY <1>0, <1>3, EntryFound DEF Types, Active
  <2> QED
    BY <2>1 DEF Signaled
<1>6. \A h \in H : h # NoHandle => Owned(openedHandles, owner, h, EndOf(n, closing))
  BY <1>1, <1>2, <1>3, <1>4, <1>5 DEF Owns, Gone, Closing
<1> HIDE DEF H
<1>7. /\ Table(Closed(openedHandles, H)) /\ DOMAIN Closed(openedHandles, H) = DOMAIN openedHandles \ H
      /\ \A h \in DOMAIN openedHandles \ H : Closed(openedHandles, H)[h] = openedHandles[h]
  BY <1>0, ClosedIt DEF Types
<1>8. ASSUME NEW h, NEW key, Owned(openedHandles, owner, h, key), key # EndOf(n, closing)
      PROVE  h \notin H /\ Owned(openedHandles', owner, h, key)
  <2>1. h # NoHandle
    BY <1>0, <1>8 DEF Owned, Types, Table, NoHandle
  <2>2. h \notin H
    BY <1>6, <1>8, <2>1 DEF Owned
  <2> QED
    BY <1>2, <1>7, <1>8, <2>2 DEF Owned
<1>9. std_in \notin H /\ std_out \notin H
  BY <1>6 DEF Owned, std_in, std_out, NoHandle
<1>10. Owns(owner)'
  <2>1. (\A k \in DOMAIN pipes : Owned(openedHandles, owner, pipes[k], Stacked(k)))'
    BY <1>1, <1>2, <1>8 DEF Owns, Stacked, EndOf
  <2>2. (\A m \in DOMAIN programs : HasFile(m) =>
            Owned(openedHandles, owner, programs[m].own, OfProgram(m)))'
    BY <1>1, <1>2, <1>8 DEF Owns, OfProgram, EndOf, HasFile
  <2>3. ASSUME NEW i \in DOMAIN program_vector, NEW k \in 1 .. 4,
               program_vector[i].handle # NoHandle, ~Gone(program_vector[i].handle, k)',
               NEW h \in FlaggedEnds(program_vector[i])[k], h # NoHandle
        PROVE  Owned(openedHandles', owner, h, EndOf(program_vector[i].handle, k))
    <3> DEFINE m == program_vector[i].handle
    <3>1. ~Gone(m, k) /\ EndOf(m, k) # EndOf(n, closing)
      BY <1>2, <1>3, <2>3 DEF Gone, Closing, EndOf
    <3>2. Owned(openedHandles, owner, h, EndOf(m, k))
      BY <1>1, <2>3, <3>1 DEF Owns
    <3> QED
      BY <1>8, <3>1, <3>2
  <2>4. \A p : FlaggedEnds(p)' = FlaggedEnds(p)
    BY DEF FlaggedEnds, Flagged
  <2> QED
    BY <1>2, <2>1, <2>2, <2>3, <2>4 DEF Owns
<1>11. Behind'
  <2>1. std_in \in DOMAIN openedHandles' /\ std_out \in DOMAIN openedHandles'
    BY <1>0, <1>2, <1>7, <1>9 DEF Behind
  <2>2. ASSUME NEW m \in DOMAIN programs, Running(m)
        PROVE  /\ ObjectOf(openedHandles', programs[m].in) = programs[m].from
               /\ ObjectOf(openedHandles', programs[m].out) = programs[m].to
               /\ HasFile(m) => ObjectOf(openedHandles', programs[m].own) = <<"own", m>>
    <3>1. m # n
      BY <1>3, <2>2 DEF Running
    <3>2. \A h \in H : \A k \in 1 .. 4 : ~Owned(openedHandles, owner, h, EndOf(m, k))
      BY <1>8, <3>1 DEF EndOf
    <3>3. HasFile(m) => programs[m].own \notin H
      BY <1>1, <1>8 DEF Owns, OfProgram, EndOf
    <3>4. \A h \in DOMAIN openedHandles \ H :
             h \in DOMAIN openedHandles' /\ openedHandles'[h] = openedHandles[h]
      BY <1>2, <1>7
    <3> QED
      BY <1>1, <1>9, <2>2, <3>2, <3>3, <3>4, StillBehind
  <2> QED
    BY <1>2, <2>1, <2>2 DEF Behind, Running, HasFile
<1>12. Types' /\ Loops'
  BY <1>0, <1>2, <1>3, <1>4, <1>7 DEF Types, Loops, Closing
<1>13. Entries' /\ Active'
  <2>1. Entries'
    BY <1>0, <1>2 DEF Entries, Wiring, InOf, OutOf
  <2>2. Active'
    BY <1>0, <1>2 DEF Active, Running, HasFile
  <2> QED
    BY <2>1, <2>2
<1> QED
  BY <1>10, <1>11, <1>12, <1>13 DEF HandlesInv

LEMMA EraseProgramKeeps == ASSUME HandlesInv, EraseProgram PROVE HandlesInv'
<1> DEFINE v == program_vector
           act == active_handles
<1>0. Types /\ Loops /\ Entries /\ Active /\ Behind
  BY DEF HandlesInv
<1>1. PICK owner : Owns(owner)
  BY DEF HandlesInv
<1>2. PICK n : n = active_handles[signaled]
  OBVIOUS
<1>3. PICK e : e = EntryOf(n)
  OBVIOUS
<1>4. /\ v' = RemoveAt(v, e) /\ act' = RemoveAt(act, signaled)
      /\ UNCHANGED <<it, index, signaled, closing, openedHandles, programs, pipes,
                     pipesMade, lines, clean, failed, spotless>>
      /\ pc = "close" /\ pc' = "wait"
  BY <1>2, <1>3 DEF EraseProgram, Same
<1>5. /\ signaled \in DOMAIN act /\ programs[n].ended /\ n \in DOMAIN programs
  BY <1>0, <1>2, <1>4 DEF Loops, Closing, Active
<1>6. e \in DOMAIN v /\ v[e].handle = n /\ closing = 5
  <2>1. e \in DOMAIN v /\ v[e].handle = n
    BY <1>0, <1>2, <1>3, <1>5, EntryFound DEF Types, Active
  <2>2. Len(FlaggedEnds(Signaled)) = 4 /\ closing \in 1 .. 5
    BY <1>0, <1>4 DEF FlaggedEnds, Loops, Closing
  <2>3. closing > 4
    BY <2>2 DEF EraseProgram
  <2> QED
    BY <2>1, <2>2, <2>3
<1>7. /\ v \in Seq(Entry) /\ Len(v) \in Nat /\ DOMAIN v = 1 .. Len(v)
      /\ act \in Seq(Nat) /\ Len(act) \in Nat /\ DOMAIN act = 1 .. Len(act)
  BY <1>0, LenProperties DEF Types
<1>8. /\ v' \in Seq(Entry) /\ DOMAIN v' = 1 .. Len(v) - 1
      /\ \A i \in 1 .. Len(v) - 1 : v'[i] = v[IF i < e THEN i ELSE i + 1]
  <2>1. /\ RemoveAt(v, e) \in Seq(Entry) /\ Len(RemoveAt(v, e)) = Len(v) - 1
        /\ \A i \in 1 .. Len(v) - 1 : RemoveAt(v, e)[i] = v[IF i < e THEN i ELSE i + 1]
    BY <1>6, <1>7, RemovedAt
  <2> QED
    BY <1>4, <2>1, LenProperties
<1>9. /\ act' \in Seq(Nat) /\ DOMAIN act' = 1 .. Len(act) - 1
      /\ \A i \in 1 .. Len(act) - 1 : act'[i] = act[IF i < signaled THEN i ELSE i + 1]
  <2>1. /\ RemoveAt(act, signaled) \in Seq(Nat) /\ Len(RemoveAt(act, signaled)) = Len(act) - 1
        /\ \A i \in 1 .. Len(act) - 1 :
              RemoveAt(act, signaled)[i] = act[IF i < signaled THEN i ELSE i + 1]
    BY <1>5, <1>7, RemovedAt
  <2> QED
    BY <1>4, <2>1, LenProperties
<1> DEFINE old(i) == IF i < e THEN i ELSE i + 1
           was(a) == IF a < signaled THEN a ELSE a + 1
<1>10. \A i \in DOMAIN v' : old(i) \in DOMAIN v /\ old(i) # e /\ v'[i] = v[old(i)]
  BY <1>6, <1>7, <1>8
<1>11. \A i, j \in DOMAIN v' : old(i) = old(j) => i = j
  BY <1>6, <1>7, <1>8
<1>12. \A j \in DOMAIN v : j # e => \E i \in DOMAIN v' : old(i) = j
  <2>1. ASSUME NEW j \in DOMAIN v, j # e PROVE \E i \in DOMAIN v' : old(i) = j
    <3>1. CASE j < e
      <4>1. j \in DOMAIN v' /\ old(j) = j
        BY <1>6, <1>7, <1>8, <3>1
      <4> QED
        BY <4>1
    <3>2. CASE ~(j < e)
      <4>1. j \in 1 .. Len(v) /\ e \in 1 .. Len(v) /\ j > e
        BY <1>6, <1>7, <2>1, <3>2
      <4>2. j - 1 \in 1 .. Len(v) - 1 /\ ~(j - 1 < e) /\ (j - 1) + 1 = j
        BY <1>7, <4>1
      <4>3. j - 1 \in DOMAIN v' /\ old(j - 1) = j
        BY <1>8, <4>2
      <4> QED
        BY <4>3
    <3> QED
      BY <3>1, <3>2
  <2> QED
    BY <2>1
<1>13. \A a \in DOMAIN act' : was(a) \in DOMAIN act /\ was(a) # signaled /\ act'[a] = act[was(a)]
  <2>1. signaled \in 1 .. Len(act)
    BY <1>5, <1>7
  <2>2. ASSUME NEW a \in 1 .. Len(act) - 1
        PROVE  was(a) \in 1 .. Len(act) /\ was(a) # signaled /\ act'[a] = act[was(a)]
    <3>1. act'[a] = act[was(a)]
      BY <1>9
    <3>2. a \in 1 .. Len(act) /\ a + 1 \in 1 .. Len(act)
      BY <1>7
    <3>3. CASE a < signaled
      BY <2>1, <3>1, <3>2, <3>3
    <3>4. CASE ~(a < signaled)
      BY <2>1, <3>1, <3>2, <3>4
    <3> QED
      BY <3>3, <3>4
  <2> QED
    BY <1>7, <1>9, <2>2
<1>14. \A a, b \in DOMAIN act' : was(a) = was(b) => a = b
  <2>1. signaled \in Nat /\ \A a \in DOMAIN act' : a \in Nat
    BY <1>5, <1>7, <1>9
  <2> QED
    BY <2>1
<1>15. \A b \in DOMAIN act : b # signaled => \E a \in DOMAIN act' : was(a) = b
  <2>1. ASSUME NEW b \in DOMAIN act, b # signaled PROVE \E a \in DOMAIN act' : was(a) = b
    <3>1. CASE b < signaled
      <4>1. b \in DOMAIN act' /\ was(b) = b
        BY <1>5, <1>7, <1>9, <3>1
      <4> QED
        BY <4>1
    <3>2. CASE ~(b < signaled)
      <4>1. b - 1 \in DOMAIN act' /\ was(b - 1) = b
        BY <1>5, <1>7, <1>9, <2>1, <3>2
      <4> QED
        BY <4>1
    <3> QED
      BY <3>1, <3>2
  <2> QED
    BY <2>1
<1> HIDE DEF v, act, old, was
<1>16. Types'
  BY <1>0, <1>4, <1>8, <1>9 DEF Types, Phases, v, act
<1>17. Loops'
  BY <1>4 DEF Loops, Closing
<1>18. Entries'
  <2>1. ASSUME NEW i \in DOMAIN v'
        PROVE  /\ v'[i].file \/ ~v'[i].redirection_in \/ ~v'[i].redirection_out
               /\ v'[i].handle # NoHandle =>
                     /\ v'[i].handle \in DOMAIN programs /\ Wiring(v'[i])
                     /\ programs[v'[i].handle].in = InOf(v'[i])
                     /\ programs[v'[i].handle].out = OutOf(v'[i])
    BY <1>0, <1>10 DEF Entries, v
  <2>2. ASSUME NEW i \in DOMAIN v', NEW j \in DOMAIN v', v'[i].handle = v'[j].handle
        PROVE  i = j \/ v'[i].handle = NoHandle
    BY <1>0, <1>10, <1>11, <2>2 DEF Entries, v
  <2> QED
    BY <1>4, <2>1, <2>2 DEF Entries, v, Wiring, InOf, OutOf
<1>19. Active'
  <2>1. ASSUME NEW a \in DOMAIN act'
        PROVE  /\ act'[a] \in DOMAIN programs
               /\ \E i \in DOMAIN v' : v'[i].handle = act'[a]
    <3>1. PICK b \in DOMAIN act : b # signaled /\ act'[a] = act[b]
      BY <1>13
    <3>2. act[b] \in DOMAIN programs /\ act[b] # n
      BY <1>0, <1>2, <1>5, <3>1 DEF Active, act
    <3>3. PICK j \in DOMAIN v : v[j].handle = act[b]
      BY <1>0 DEF Active, act, v
    <3>4. j # e
      BY <1>6, <3>2, <3>3
    <3> QED
      BY <1>10, <1>12, <3>1, <3>2, <3>3, <3>4
  <2>2. ASSUME NEW a \in DOMAIN act', NEW b \in DOMAIN act', act'[a] = act'[b]
        PROVE  a = b
    BY <1>0, <1>13, <1>14, <2>2 DEF Active, act
  <2>3. ASSUME NEW m \in DOMAIN programs
        PROVE  /\ Running(m) => \E a \in DOMAIN act' : act'[a] = m
               /\ programs[m].ended => ~HasFile(m)
    <3>1. ASSUME Running(m) PROVE \E a \in DOMAIN act' : act'[a] = m
      <4>1. PICK b \in DOMAIN act : act[b] = m
        BY <1>0, <3>1 DEF Active, act
      <4>2. b # signaled
        BY <1>2, <1>5, <3>1, <4>1 DEF Running, act
      <4> QED
        BY <1>13, <1>15, <4>1, <4>2
    <3> QED
      BY <1>0, <3>1 DEF Active
  <2> QED
    BY <1>4, <2>1, <2>2, <2>3 DEF Active, act, v, Running, HasFile
<1>20. Behind'
  BY <1>0, <1>4 DEF Behind, Running, HasFile, ObjectOf
<1>21. Owns(owner)'
  <2>1. \A k \in DOMAIN pipes : Owned(openedHandles, owner, pipes[k], Stacked(k))
    BY <1>1 DEF Owns
  <2>2. \A m \in DOMAIN programs : HasFile(m) =>
            Owned(openedHandles, owner, programs[m].own, OfProgram(m))
    BY <1>1 DEF Owns
  <2>3. ASSUME NEW i \in DOMAIN v', NEW k \in 1 .. 4, v'[i].handle # NoHandle,
               NEW h \in FlaggedEnds(v'[i])[k], h # NoHandle
        PROVE  Owned(openedHandles, owner, h, EndOf(v'[i].handle, k))
    <3>1. old(i) \in DOMAIN v /\ old(i) # e /\ v'[i] = v[old(i)]
      BY <1>10
    <3>2. v[old(i)].handle # n
      BY <1>0, <1>6, <2>3, <3>1 DEF Entries, v
    <3>3. ~Gone(v[old(i)].handle, k)
      BY <1>2, <3>2 DEF Gone, Closing
    <3> QED
      BY <1>1, <2>3, <3>1, <3>3 DEF Owns, v
  <2>4. \A p : FlaggedEnds(p)' = FlaggedEnds(p)
    BY DEF FlaggedEnds, Flagged
  <2> QED
    BY <1>4, <2>1, <2>2, <2>3, <2>4 DEF Owns, v, HasFile
<1> QED
  BY <1>16, <1>17, <1>18, <1>19, <1>20, <1>21 DEF HandlesInv

(* A program that runs opens or closes its file, or ends.                  *)
LEMMA ProgramChanges ==
    ASSUME HandlesInv, NEW n \in DOMAIN programs, Running(n), NEW e \in Started,
           e.in = programs[n].in, e.out = programs[n].out,
           e.ended => e.own \in {NoHandle, Spent},
           programs' = [programs EXCEPT ![n] = e], Alone, Table(openedHandles')
    PROVE  /\ Types' /\ Loops' /\ Entries' /\ Active'
           /\ DOMAIN programs' = DOMAIN programs /\ programs'[n] = e
           /\ \A m \in DOMAIN programs : m # n => programs'[m] = programs[m]
<1>0. Types /\ Loops /\ Entries /\ Active
  BY DEF HandlesInv
<1>1. /\ UNCHANGED <<pc, program_vector, it, index, pipes, active_handles, signaled, closing,
                     pipesMade, lines, clean, failed, spotless>>
  BY DEF Alone, execVars, histVars
<1>2. programs \in Seq(Started) /\ DOMAIN programs = 1 .. Len(programs) /\ Len(programs) \in Nat
  BY <1>0, LenProperties DEF Types
<1>3. programs' \in Seq(Started) /\ Len(programs') = Len(programs)
  BY <1>2, ExceptSeq
<1>4. /\ DOMAIN programs' = DOMAIN programs /\ programs'[n] = e
      /\ \A m \in DOMAIN programs : m # n => programs'[m] = programs[m]
  OBVIOUS
<1>5. \A m \in DOMAIN programs : programs'[m].in = programs[m].in /\ programs'[m].out = programs[m].out
  BY <1>4
<1>6. Types'
  BY <1>0, <1>1, <1>3 DEF Types
<1>7. Loops'
  <2>1. pc \in Closing =>
           active_handles[signaled] \in DOMAIN programs /\ active_handles[signaled] # n
    BY <1>0 DEF Loops, Closing, Active, Running
  <2> QED
    BY <1>0, <1>1, <1>4, <2>1 DEF Loops, Closing
<1>8. Entries'
  BY <1>0, <1>1, <1>4, <1>5 DEF Entries, Wiring, InOf, OutOf
<1>9. Active'
  <2>1. ASSUME NEW m \in DOMAIN programs
        PROVE  /\ Running(m)' => \E a \in DOMAIN active_handles : active_handles[a] = m
               /\ programs'[m].ended => ~HasFile(m)'
    <3>1. CASE m = n
      BY <1>0, <1>4, <3>1 DEF Active, HasFile
    <3>2. CASE m # n
      BY <1>0, <1>4, <3>2 DEF Active, HasFile, Running
    <3> QED
      BY <3>1, <3>2
  <2> QED
    BY <1>0, <1>1, <1>4, <2>1 DEF Active
<1> QED
  BY <1>4, <1>6, <1>7, <1>8, <1>9

(* The ends of the entries have the owners they had. *)
LEMMA EndsStay ==
    ASSUME NEW owner, Owns(owner), NEW owner2, Alone,
           \A h, key : Owned(openedHandles, owner, h, key) /\ key[1] = "end" =>
                          Owned(openedHandles', owner2, h, key)
    PROVE  (\A i \in DOMAIN program_vector : \A k \in 1 .. 4 :
              LET p == program_vector[i] IN
              p.handle # NoHandle /\ ~Gone(p.handle, k) =>
                  \A h \in FlaggedEnds(p)[k] :
                      h # NoHandle => Owned(openedHandles, owner2, h, EndOf(p.handle, k)))'
<1>1. UNCHANGED <<pc, program_vector, active_handles, signaled, closing>>
  BY DEF Alone, execVars
<1>2. \A p : FlaggedEnds(p)' = FlaggedEnds(p)
  BY DEF FlaggedEnds, Flagged
<1>3. \A m, k : EndOf(m, k)[1] = "end"
  BY DEF EndOf
<1>4. ASSUME NEW i \in DOMAIN program_vector, NEW k \in 1 .. 4,
             program_vector[i].handle # NoHandle, ~Gone(program_vector[i].handle, k),
             NEW h \in FlaggedEnds(program_vector[i])[k], h # NoHandle
      PROVE  Owned(openedHandles', owner2, h, EndOf(program_vector[i].handle, k))
  <2>1. Owned(openedHandles, owner, h, EndOf(program_vector[i].handle, k))
    BY <1>4 DEF Owns
  <2> QED
    BY <1>3, <2>1
<1> QED
  BY <1>1, <1>2, <1>4 DEF Gone, Closing

LEMMA ProgramOpensKeeps ==
    ASSUME HandlesInv, NEW n, ProgramOpens(n) PROVE HandlesInv'
<1> DEFINE f == FirstFree(openedHandles)
           o == <<"own", n>>
           e == [programs[n] EXCEPT !.own = f]
<1>0. Types /\ Behind /\ n \in DOMAIN programs /\ Running(n) /\ Alone
  BY DEF HandlesInv, ProgramOpens, Running
<1>1. PICK owner : Owns(owner)
  BY DEF HandlesInv
<1>2. /\ openedHandles' = With(openedHandles, o) /\ programs' = [programs EXCEPT ![n] = e]
  BY DEF ProgramOpens
<1>3. o \in Objects
  <2>1. n \in Int
    BY <1>0, LenProperties DEF Types
  <2> QED
    BY <2>1, Objects0
<1> HIDE DEF o
<1>4. /\ Table(openedHandles') /\ DOMAIN openedHandles' = DOMAIN openedHandles \cup {f}
      /\ openedHandles'[f] = o
      /\ \A h \in DOMAIN openedHandles : openedHandles'[h] = openedHandles[h]
      /\ f \in Nat /\ f \notin DOMAIN openedHandles
  BY <1>0, <1>2, <1>3, WithIt, ZenonT(60) DEF Types
<1> HIDE DEF f
<1>5. programs[n] \in Started
  BY <1>0, ElementOfSeq, LenProperties DEF Types
<1>6. /\ e \in Started /\ e.in = programs[n].in /\ e.out = programs[n].out /\ e.own = f
      /\ e.from = programs[n].from /\ e.to = programs[n].to /\ ~e.ended
  <2>1. f \in Int /\ ~programs[n].ended
    BY <1>0, <1>4 DEF Running
  <2> QED
    BY <1>5, <2>1 DEF Started
<1> HIDE DEF e
<1>7. /\ Types' /\ Loops' /\ Entries' /\ Active'
      /\ DOMAIN programs' = DOMAIN programs /\ programs'[n] = e
      /\ \A m \in DOMAIN programs : m # n => programs'[m] = programs[m]
  BY <1>0, <1>2, <1>4, <1>6, ProgramChanges
<1>8. PICK owner2 : owner2 = [h \in DOMAIN openedHandles \cup {f} |->
                                  IF h = f THEN OfProgram(n) ELSE owner[h]]
  OBVIOUS
<1>9. \A h, key : Owned(openedHandles, owner, h, key) => Owned(openedHandles', owner2, h, key)
  BY <1>4, <1>8 DEF Owned
<1>10. Owns(owner2)'
  <2>1. (\A k \in DOMAIN pipes : Owned(openedHandles, owner2, pipes[k], Stacked(k)))'
    BY <1>0, <1>1, <1>9 DEF Owns, Alone, execVars
  <2>2. ASSUME NEW m \in DOMAIN programs, HasFile(m)'
        PROVE  Owned(openedHandles', owner2, programs'[m].own, OfProgram(m))
    <3>1. CASE m = n
      <4>1. f \notin {std_in, std_out}
        BY <1>0, <1>4 DEF Behind
      <4> QED
        BY <1>4, <1>6, <1>7, <1>8, <3>1, <4>1 DEF Owned
    <3>2. CASE m # n
      BY <1>1, <1>7, <1>9, <2>2, <3>2 DEF Owns, HasFile
    <3> QED
      BY <3>1, <3>2
  <2> QED
    BY <1>0, <1>1, <1>7, <1>9, <2>1, <2>2, EndsStay DEF Owns
<1>11. Behind'
  <2>1. std_in \in DOMAIN openedHandles' /\ std_out \in DOMAIN openedHandles'
    BY <1>0, <1>4 DEF Behind
  <2>2. ASSUME NEW m \in DOMAIN programs, Running(m)'
        PROVE  /\ ObjectOf(openedHandles', programs'[m].in) = programs'[m].from
               /\ ObjectOf(openedHandles', programs'[m].out) = programs'[m].to
               /\ HasFile(m)' => ObjectOf(openedHandles', programs'[m].own) = <<"own", m>>
    <3>1. Running(m)
      BY <1>0, <1>7, <2>2 DEF Running
    <3> DEFINE t == openedHandles'
               none == {}
    <3>2. /\ \A h \in DOMAIN openedHandles \ none : h \in DOMAIN t /\ t[h] = openedHandles[h]
          /\ \A h : h \notin none
      BY <1>4
    <3> HIDE DEF t, none
    <3>3. /\ ObjectOf(t, programs[m].in) = programs[m].from
          /\ ObjectOf(t, programs[m].out) = programs[m].to
          /\ HasFile(m) => ObjectOf(t, programs[m].own) = <<"own", m>>
      <4>1. std_in \notin none /\ std_out \notin none /\ programs[m].own \notin none
            /\ \A h \in none : \A k \in 1 .. 4 : ~Owned(openedHandles, owner, h, EndOf(m, k))
        BY <3>2
      <4>2. m \in DOMAIN programs
        OBVIOUS
      <4> QED
        BY <1>1, <3>1, <3>2, <4>1, <4>2, StillBehind
    <3>4. CASE m = n
      BY <1>4, <1>6, <1>7, <3>3, <3>4 DEF ObjectOf, t, o
    <3>5. CASE m # n
      BY <1>7, <3>3, <3>5 DEF HasFile, t
    <3> QED
      BY <3>4, <3>5
  <2> QED
    BY <1>7, <2>1, <2>2 DEF Behind
<1> QED
  BY <1>7, <1>10, <1>11 DEF HandlesInv

LEMMA ProgramClosesKeeps ==
    ASSUME HandlesInv, NEW n, ProgramCloses(n) PROVE HandlesInv'
<1> DEFINE H == {programs[n].own}
           e == [programs[n] EXCEPT !.own = Spent]
<1>0. Types /\ Behind /\ n \in DOMAIN programs /\ Running(n) /\ HasFile(n) /\ Alone
  BY DEF HandlesInv, ProgramCloses, Running
<1>1. PICK owner : Owns(owner)
  BY DEF HandlesInv
<1>2. /\ openedHandles' = Closed(openedHandles, H) /\ programs' = [programs EXCEPT ![n] = e]
  BY DEF ProgramCloses
<1>3. Owned(openedHandles, owner, programs[n].own, OfProgram(n))
  BY <1>0, <1>1 DEF Owns
<1>4. \A h \in H : Owned(openedHandles, owner, h, OfProgram(n))
  BY <1>3
<1>5. programs[n].own \in H
  OBVIOUS
<1> HIDE DEF H
<1>6. /\ Table(openedHandles') /\ DOMAIN openedHandles' = DOMAIN openedHandles \ H
      /\ \A h \in DOMAIN openedHandles \ H : openedHandles'[h] = openedHandles[h]
  BY <1>0, <1>2, ClosedIt DEF Types
<1>7. programs[n] \in Started
  BY <1>0, ElementOfSeq, LenProperties DEF Types
<1>8. /\ e \in Started /\ e.in = programs[n].in /\ e.out = programs[n].out /\ e.own = Spent
      /\ e.from = programs[n].from /\ e.to = programs[n].to /\ ~e.ended
  BY <1>0, <1>7 DEF Started, Spent, Running
<1> HIDE DEF e
<1>9. /\ Types' /\ Loops' /\ Entries' /\ Active'
      /\ DOMAIN programs' = DOMAIN programs /\ programs'[n] = e
      /\ \A m \in DOMAIN programs : m # n => programs'[m] = programs[m]
  BY <1>0, <1>2, <1>6, <1>8, ProgramChanges
<1>10. ASSUME NEW h, NEW key, Owned(openedHandles, owner, h, key), key # OfProgram(n)
       PROVE  h \notin H /\ Owned(openedHandles', owner, h, key)
  <2>1. h \notin H
    BY <1>4, <1>10 DEF Owned
  <2> QED
    BY <1>6, <1>10, <2>1 DEF Owned
<1>11. std_in \notin H /\ std_out \notin H
  BY <1>4 DEF Owned
<1>12. Owns(owner)'
  <2>1. (\A k \in DOMAIN pipes : Owned(openedHandles, owner, pipes[k], Stacked(k)))'
    BY <1>0, <1>1, <1>10 DEF Owns, Alone, execVars, Stacked, OfProgram
  <2>2. ASSUME NEW m \in DOMAIN programs, HasFile(m)'
        PROVE  Owned(openedHandles', owner, programs'[m].own, OfProgram(m))
    <3>1. m # n
      BY <1>8, <1>9, <2>2 DEF HasFile
    <3>2. Owned(openedHandles, owner, programs[m].own, OfProgram(m))
      BY <1>1, <1>9, <2>2, <3>1 DEF Owns, HasFile
    <3> QED
      BY <1>9, <1>10, <3>1, <3>2 DEF OfProgram
  <2>3. \A h, key : Owned(openedHandles, owner, h, key) /\ key[1] = "end" =>
                       Owned(openedHandles', owner, h, key)
    BY <1>10 DEF OfProgram
  <2> QED
    BY <1>0, <1>1, <1>9, <2>1, <2>2, <2>3, EndsStay DEF Owns
<1>13. Behind'
  <2>1. std_in \in DOMAIN openedHandles' /\ std_out \in DOMAIN openedHandles'
    BY <1>0, <1>6, <1>11 DEF Behind
  <2>2. ASSUME NEW m \in DOMAIN programs, Running(m)'
        PROVE  /\ ObjectOf(openedHandles', programs'[m].in) = programs'[m].from
               /\ ObjectOf(openedHandles', programs'[m].out) = programs'[m].to
               /\ HasFile(m)' => ObjectOf(openedHandles', programs'[m].own) = <<"own", m>>
    <3>1. Running(m)
      BY <1>0, <1>9, <2>2 DEF Running
    <3> DEFINE t == openedHandles'
    <3>2. \A h \in DOMAIN openedHandles \ H : h \in DOMAIN t /\ t[h] = openedHandles[h]
      BY <1>6
    <3> HIDE DEF t
    <3>3. \A h \in H : \A k \in 1 .. 4 : ~Owned(openedHandles, owner, h, EndOf(m, k))
      BY <1>10, <1>4 DEF EndOf, OfProgram, Owned
    <3>4. /\ ObjectOf(t, programs[m].in) = programs[m].from
          /\ ObjectOf(t, programs[m].out) = programs[m].to
          /\ HasFile(m) /\ programs[m].own \notin H =>
                ObjectOf(t, programs[m].own) = <<"own", m>>
      BY <1>1, <1>11, <3>1, <3>2, <3>3, StillBehind
    <3>5. CASE m = n
      BY <1>8, <1>9, <3>4, <3>5 DEF HasFile, t
    <3>6. CASE m # n
      <4>1. HasFile(m) => programs[m].own \notin H
        BY <1>1, <1>10, <3>6 DEF Owns, OfProgram
      <4> QED
        BY <1>9, <3>4, <3>6, <4>1 DEF HasFile, t
    <3> QED
      BY <3>5, <3>6
  <2> QED
    BY <1>9, <2>1, <2>2 DEF Behind
<1> QED
  BY <1>9, <1>12, <1>13 DEF HandlesInv

LEMMA ProgramEndsKeeps ==
    ASSUME HandlesInv, NEW n, ProgramEnds(n) PROVE HandlesInv'
<1> DEFINE e == [programs[n] EXCEPT !.ended = TRUE]
<1>0. Types /\ Behind /\ n \in DOMAIN programs /\ Running(n) /\ ~HasFile(n) /\ Alone
  BY DEF HandlesInv, ProgramEnds, Running
<1>1. PICK owner : Owns(owner)
  BY DEF HandlesInv
<1>2. openedHandles' = openedHandles /\ programs' = [programs EXCEPT ![n] = e]
  BY DEF ProgramEnds
<1>3. programs[n] \in Started
  BY <1>0, ElementOfSeq, LenProperties DEF Types
<1>4. /\ e \in Started /\ e.in = programs[n].in /\ e.out = programs[n].out
      /\ e.own = programs[n].own /\ e.ended /\ e.own \in {NoHandle, Spent}
  BY <1>0, <1>3 DEF Started, HasFile
<1> HIDE DEF e
<1>5. Table(openedHandles')
  BY <1>0, <1>2 DEF Types
<1>6. /\ Types' /\ Loops' /\ Entries' /\ Active'
      /\ DOMAIN programs' = DOMAIN programs /\ programs'[n] = e
      /\ \A m \in DOMAIN programs : m # n => programs'[m] = programs[m]
  BY <1>0, <1>2, <1>4, <1>5, ProgramChanges
<1>7. Owns(owner)'
  <2>1. (\A k \in DOMAIN pipes : Owned(openedHandles, owner, pipes[k], Stacked(k)))'
    BY <1>0, <1>1, <1>2 DEF Owns, Alone, execVars
  <2>2. ASSUME NEW m \in DOMAIN programs, HasFile(m)'
        PROVE  Owned(openedHandles', owner, programs'[m].own, OfProgram(m))
    BY <1>1, <1>2, <1>4, <1>6, <2>2 DEF Owns, HasFile
  <2>3. \A h, key : Owned(openedHandles, owner, h, key) /\ key[1] = "end" =>
                       Owned(openedHandles', owner, h, key)
    BY <1>2
  <2> QED
    BY <1>0, <1>1, <1>6, <2>1, <2>2, <2>3, EndsStay DEF Owns
<1>8. Behind'
  BY <1>0, <1>2, <1>4, <1>6 DEF Behind, Running, HasFile
<1> QED
  BY <1>6, <1>7, <1>8 DEF HandlesInv

(* The entry of a program that is started has the ends it asks for: the    *)
(* file, which has the first free number, and one or two of the handles on *)
(* top of the stack.                                                       *)
LEMMA WiredEntry ==
    ASSUME HandlesInv, AtProgram, Pops <= Len(pipes)
    PROVE  LET p == Wired IN
           /\ p \in Entry /\ p.handle = NoHandle /\ Wiring(p)
           /\ p.command = Typed.command /\ p.file = Typed.file /\ p.pipe_in = Typed.pipe_in
           /\ it \in 1 .. Len(program_vector) /\ index \in it .. Len(program_vector)
           /\ Pops = (IF PipesOut THEN 1 ELSE 0) + (IF Typed.pipe_in THEN 1 ELSE 0)
           /\ Pops \in 0 .. 2 /\ Len(pipes) \in Nat
           /\ p.pipe_in_handle =
                 IF Typed.pipe_in THEN pipes[Len(pipes) + 1 - Pops] ELSE NoHandle
           /\ p.pipe_out_handle = IF PipesOut THEN pipes[Len(pipes)] ELSE NoHandle
           /\ p.pipe_in_handle # NoHandle => Typed.pipe_in
           /\ p.redirection_in_handle # NoHandle =>
                 /\ Redirects /\ Typed.redirection_in
                 /\ p.redirection_in_handle = FirstFree(openedHandles)
           /\ p.redirection_out_handle # NoHandle =>
                 /\ Redirects /\ Typed.redirection_out
                 /\ p.redirection_out_handle = FirstFree(openedHandles)
           /\ Redirects =>
                 IF Typed.redirection_in
                 THEN p.redirection_in_handle = FirstFree(openedHandles)
                 ELSE p.redirection_out_handle = FirstFree(openedHandles)
           /\ ~Typed.file /\ (~Typed.redirection_in \/ ~Typed.redirection_out)
<1> DEFINE v == program_vector
           file == IF Redirects THEN FirstFree(openedHandles) ELSE NoHandle
           ri == IF Typed.redirection_in THEN file ELSE NoHandle
           ro == IF Typed.redirection_out THEN file ELSE NoHandle
           po == IF PipesOut THEN Last(pipes) ELSE NoHandle
           pi == IF Typed.pipe_in THEN pipes[Len(pipes) + 1 - Pops] ELSE NoHandle
           out == Typed.pipe_out \/ PipesOut
           p == Wired
<1>0. Types /\ Loops /\ Entries
  BY DEF HandlesInv
<1>1. Len(v) \in Nat /\ DOMAIN v = 1 .. Len(v) /\ \A i \in 1 .. Len(v) : v[i] \in Entry
  BY <1>0, LenProperties, ElementOfSeq DEF Types
<1>2. /\ it \in 1 .. Len(v) /\ index \in it .. Len(v) /\ v[it].handle = NoHandle
      /\ ~Typed.file /\ Typed = v[it]
  BY <1>0, <1>1 DEF AtProgram, Loops, Closing, Typed
<1>3. Typed \in Entry
  BY <1>1, <1>2
<1>4. ~Typed.redirection_in \/ ~Typed.redirection_out
  BY <1>0, <1>1, <1>2 DEF Entries
<1>5. Pops \in 0 .. 2 /\ Len(pipes) \in Nat
  BY <1>0, LenProperties DEF Pops, Types
<1>6. FirstFree(openedHandles) \in Nat
  BY <1>0, FirstFreeIsFree DEF Types
<1>7. /\ PipesOut => Len(pipes) \in 1 .. Len(pipes)
      /\ Typed.pipe_in => Len(pipes) + 1 - Pops \in 1 .. Len(pipes)
  <2>1. PipesOut => Pops >= 1
    BY DEF Pops
  <2>2. Typed.pipe_in => Pops >= 1
    BY DEF Pops
  <2> QED
    BY <1>5, <2>1, <2>2
<1>8. \A i \in 1 .. Len(pipes) : pipes[i] \in Nat
  BY <1>0, ElementOfSeq DEF Types
<1>9. Last(pipes) = pipes[Len(pipes)]
  BY DEF Last
<1>10. file \in Int /\ po \in Int /\ pi \in Int
  <2>1. file \in Int
    BY <1>6 DEF NoHandle
  <2>2. po \in Int
    BY <1>7, <1>8, <1>9 DEF NoHandle
  <2>3. pi \in Int
    BY <1>7, <1>8 DEF NoHandle
  <2> QED
    BY <2>1, <2>2, <2>3
<1>11. out \in BOOLEAN
  OBVIOUS
<1>12. file # NoHandle => Redirects /\ file = FirstFree(openedHandles)
  OBVIOUS
<1>13. po = (IF PipesOut THEN pipes[Len(pipes)] ELSE NoHandle) /\ (po # NoHandle => PipesOut)
  BY <1>9
<1>14. pi # NoHandle => Typed.pipe_in
  OBVIOUS
<1>15. ri \in Int /\ ro \in Int
       /\ (ri # NoHandle => Typed.redirection_in /\ ri = file)
       /\ (ro # NoHandle => Typed.redirection_out /\ ro = file)
  BY <1>10 DEF NoHandle
<1>16. p = [Typed EXCEPT !.pipe_out = out, !.redirection_in_handle = ri,
                         !.redirection_out_handle = ro, !.pipe_out_handle = po,
                         !.pipe_in_handle = pi]
  BY DEF Wired
<1> HIDE DEF p, out, ri, ro, po, pi, file
<1>17. /\ p \in Entry /\ p.handle = Typed.handle /\ p.command = Typed.command
       /\ p.file = Typed.file /\ p.pipe_in = Typed.pipe_in
       /\ p.redirection_in = Typed.redirection_in /\ p.redirection_out = Typed.redirection_out
       /\ p.pipe_out = out /\ p.redirection_in_handle = ri /\ p.redirection_out_handle = ro
       /\ p.pipe_out_handle = po /\ p.pipe_in_handle = pi
  BY <1>3, <1>10, <1>11, <1>15, <1>16 DEF Entry
<1>18. Wiring(p)
  <2>1. po # NoHandle => out
    BY <1>13 DEF out
  <2> QED
    BY <1>4, <1>14, <1>15, <1>17, <2>1 DEF Wiring
<1>19. pi = IF Typed.pipe_in THEN pipes[Len(pipes) + 1 - Pops] ELSE NoHandle
  BY DEF pi
<1>20. ri # NoHandle => /\ Redirects /\ Typed.redirection_in
                        /\ ri = FirstFree(openedHandles)
  BY <1>12, <1>15
<1>21. ro # NoHandle => /\ Redirects /\ Typed.redirection_out
                        /\ ro = FirstFree(openedHandles)
  BY <1>12, <1>15
<1>22. Pops = (IF PipesOut THEN 1 ELSE 0) + (IF Typed.pipe_in THEN 1 ELSE 0)
  BY DEF Pops
<1>23. Redirects => IF Typed.redirection_in THEN ri = FirstFree(openedHandles)
                    ELSE ro = FirstFree(openedHandles)
  BY DEF Redirects, ri, ro, file
<1> QED
  BY <1>2, <1>4, <1>5, <1>13, <1>14, <1>17, <1>18, <1>19, <1>20, <1>21, <1>22, <1>23 DEF p, v

(* The table with the file that is opened for it. *)
LEMMA TableWithFile ==
    ASSUME HandlesInv, AtProgram
    PROVE  LET t == IF Redirects THEN With(openedHandles, <<"file", it>>) ELSE openedHandles
               f == FirstFree(openedHandles) IN
           /\ Table(t) /\ DOMAIN t = DOMAIN openedHandles \cup (IF Redirects THEN {f} ELSE {})
           /\ \A h \in DOMAIN openedHandles : t[h] = openedHandles[h]
           /\ f \in Nat /\ f \notin DOMAIN openedHandles
<1>1. Table(openedHandles) /\ it \in Int
  BY DEF HandlesInv, Types
<1>2. PICK o : o = <<"file", it>>
  OBVIOUS
<1>3. o \in Objects
  BY <1>1, <1>2, Objects0
<1> QED
  BY <1>1, <1>2, <1>3, WithIt, ZenonT(60)

(* The entry at it is replaced. *)
LEMMA EntrySet ==
    ASSUME HandlesInv, NEW i \in 1 .. Len(program_vector), NEW e \in Entry,
           program_vector' = [program_vector EXCEPT ![i] = e]
    PROVE  /\ program_vector' \in Seq(Entry) /\ Len(program_vector') = Len(program_vector)
           /\ DOMAIN program_vector' = DOMAIN program_vector /\ program_vector'[i] = e
           /\ \A j \in DOMAIN program_vector : j # i => program_vector'[j] = program_vector[j]
<1>1. program_vector \in Seq(Entry) /\ DOMAIN program_vector = 1 .. Len(program_vector)
  BY LenProperties DEF HandlesInv, Types
<1> QED
  BY <1>1, ExceptSeq

LEMMA StackPopped ==
    ASSUME HandlesInv, NEW k \in 0 .. Len(pipes)
    PROVE  LET s == SubSeq(pipes, 1, k) IN
           /\ s \in Seq(Nat) /\ DOMAIN s = 1 .. k /\ Len(s) = k
           /\ \A j \in 1 .. k : s[j] = pipes[j]
<1>1. pipes \in Seq(Nat) /\ Len(pipes) \in Nat /\ \A j \in 1 .. Len(pipes) : pipes[j] \in Nat
  BY LenProperties, ElementOfSeq DEF HandlesInv, Types
<1>2. 1 \in Int /\ k \in Int /\ \A j \in 1 .. k : pipes[j] \in Nat
  BY <1>1
<1> DEFINE s == SubSeq(pipes, 1, k)
<1>3. /\ s \in Seq(Nat) /\ Len(s) = IF 1 <= k THEN k - 1 + 1 ELSE 0
      /\ \A j \in 1 .. k - 1 + 1 : s[j] = pipes[1 + j - 1]
  BY <1>2, SubSeqProperties
<1> HIDE DEF s
<1>4. Len(s) = k /\ \A j \in 1 .. k : s[j] = pipes[j]
  BY <1>1, <1>3
<1>5. DOMAIN s = 1 .. k
  BY <1>3, <1>4, LenProperties
<1> QED
  BY <1>3, <1>4, <1>5 DEF s

Created(p) == p.command \in {<<c>> : c \in Programs}

(* Create_Process finds no program: the ends of the pipes are closed, and  *)
(* nobody owns the file that was opened.                                   *)
LEMMA CreateFails ==
    ASSUME HandlesInv, CreateProcess, ~Created(Wired)
    PROVE  /\ HandlesInv' /\ pc' = "wait" /\ active_handles' = active_handles
           /\ DOMAIN program_vector' = DOMAIN program_vector
           /\ \A i \in DOMAIN program_vector :
                 program_vector'[i].handle \in {NoHandle, program_vector[i].handle}
<1>0. Types /\ Loops /\ Entries /\ Active /\ Behind /\ AtProgram /\ Pops <= Len(pipes)
  BY DEF HandlesInv, CreateProcess
<1>1. PICK owner : Owns(owner)
  BY DEF HandlesInv
<1>2. PICK p, t, k, l : /\ p = Wired /\ k = Len(pipes) - Pops /\ l = Len(pipes)
                        /\ t = IF Redirects THEN With(openedHandles, <<"file", it>>)
                               ELSE openedHandles
  OBVIOUS
<1>3. PICK H : H = Flagged(p.pipe_in, p.pipe_in_handle) \cup Flagged(p.pipe_out, p.pipe_out_handle)
  OBVIOUS
<1>4. /\ program_vector' = [program_vector EXCEPT ![it] = p]
      /\ pipes' = SubSeq(pipes, 1, k) /\ openedHandles' = Closed(t, H)
      /\ failed' = failed \cup {"create"} /\ pc' = "wait" /\ pc = "start"
      /\ UNCHANGED <<programs, active_handles, index, it, signaled, closing, pipesMade, lines,
                     clean, spotless>>
  BY <1>2, <1>3 DEF CreateProcess, Created, AtProgram
<1>5. /\ p \in Entry /\ p.handle = NoHandle /\ Wiring(p) /\ it \in 1 .. Len(program_vector)
      /\ Pops = (IF PipesOut THEN 1 ELSE 0) + (IF Typed.pipe_in THEN 1 ELSE 0)
      /\ Pops \in 0 .. 2 /\ l \in Nat /\ p.pipe_in = Typed.pipe_in
      /\ p.pipe_in_handle = IF Typed.pipe_in THEN pipes[l + 1 - Pops] ELSE NoHandle
      /\ p.pipe_out_handle = IF PipesOut THEN pipes[l] ELSE NoHandle
  BY <1>0, <1>2, WiredEntry
<1>6. /\ program_vector' \in Seq(Entry) /\ DOMAIN program_vector' = DOMAIN program_vector
      /\ program_vector'[it] = p
      /\ \A j \in DOMAIN program_vector : j # it => program_vector'[j] = program_vector[j]
  BY <1>4, <1>5, EntrySet
<1>7. /\ Table(t) /\ DOMAIN openedHandles \subseteq DOMAIN t
      /\ \A h \in DOMAIN openedHandles : t[h] = openedHandles[h]
      /\ \A h \in DOMAIN t : h \in Nat
  <2>1. /\ Table(t) /\ DOMAIN openedHandles \subseteq DOMAIN t
        /\ \A h \in DOMAIN openedHandles : t[h] = openedHandles[h]
    BY <1>0, <1>2, TableWithFile
  <2> QED
    BY <2>1 DEF Table
<1>8. /\ Table(openedHandles') /\ DOMAIN openedHandles' = DOMAIN t \ H
      /\ \A h \in DOMAIN t \ H : openedHandles'[h] = t[h]
  BY <1>4, <1>7, ClosedIt, ZenonT(60)
<1>9. k \in 0 .. l /\ k = l - Pops
  BY <1>0, <1>2, <1>5
<1>10. /\ pipes' \in Seq(Nat) /\ DOMAIN pipes' = 1 .. k /\ Len(pipes') = k
       /\ \A j \in 1 .. k : pipes'[j] = pipes[j]
  BY <1>2, <1>4, <1>9, StackPopped
<1>11. \A h \in H : h # NoHandle =>
          \E j \in k + 1 .. l : Owned(openedHandles, owner, h, Stacked(j))
  <2>1. DOMAIN pipes = 1 .. l
    BY <1>0, <1>2, LenProperties DEF Types
  <2>2. ASSUME Typed.pipe_in
        PROVE  \E j \in k + 1 .. l : Owned(openedHandles, owner, p.pipe_in_handle, Stacked(j))
    <3>1. l + 1 - Pops \in k + 1 .. l /\ l + 1 - Pops \in 1 .. l
      BY <1>5, <1>9, <2>2
    <3>2. Owned(openedHandles, owner, pipes[l + 1 - Pops], Stacked(l + 1 - Pops))
      BY <1>1, <2>1, <3>1 DEF Owns
    <3> QED
      BY <1>5, <2>2, <3>1, <3>2
  <2>3. ASSUME PipesOut
        PROVE  \E j \in k + 1 .. l : Owned(openedHandles, owner, p.pipe_out_handle, Stacked(j))
    <3>1. l \in k + 1 .. l /\ l \in 1 .. l
      BY <1>5, <1>9, <2>3
    <3>2. Owned(openedHandles, owner, pipes[l], Stacked(l))
      BY <1>1, <2>1, <3>1 DEF Owns
    <3> QED
      BY <1>5, <2>3, <3>1, <3>2
  <2>4. \A h \in H : h # NoHandle => \/ h = p.pipe_in_handle /\ Typed.pipe_in
                                     \/ h = p.pipe_out_handle /\ PipesOut
    BY <1>3, <1>5 DEF Flagged
  <2> QED
    BY <2>2, <2>3, <2>4
<1>12. ASSUME NEW h, NEW key, Owned(openedHandles, owner, h, key),
              \A j \in k + 1 .. l : key # Stacked(j)
       PROVE  h \notin H /\ Owned(openedHandles', owner, h, key)
  <2>1. h # NoHandle
    BY <1>7, <1>12 DEF Owned, NoHandle
  <2>2. h \notin H
    BY <1>11, <1>12, <2>1 DEF Owned
  <2> QED
    BY <1>7, <1>8, <1>12, <2>2 DEF Owned
<1>13. std_in \notin H /\ std_out \notin H
  BY <1>11 DEF Owned, std_in, std_out, NoHandle
<1>14. Owns(owner)'
  <2>1. ASSUME NEW j \in 1 .. k PROVE Owned(openedHandles', owner, pipes[j], Stacked(j))
    <3>1. DOMAIN pipes = 1 .. l
      BY <1>0, <1>2, LenProperties DEF Types
    <3>2. j \in DOMAIN pipes /\ \A i \in k + 1 .. l : Stacked(j) # Stacked(i)
      BY <1>9, <1>5, <3>1 DEF Stacked
    <3>3. Owned(openedHandles, owner, pipes[j], Stacked(j))
      BY <1>1, <3>2 DEF Owns
    <3> QED
      BY <1>12, <3>2, <3>3
  <2>2. \A m \in DOMAIN programs : HasFile(m) =>
            Owned(openedHandles', owner, programs[m].own, OfProgram(m))
    BY <1>1, <1>12 DEF Owns, OfProgram, Stacked
  <2>3. ASSUME NEW i \in DOMAIN program_vector, NEW j \in 1 .. 4,
               program_vector'[i].handle # NoHandle,
               NEW h \in FlaggedEnds(program_vector'[i])[j], h # NoHandle
        PROVE  Owned(openedHandles', owner, h, EndOf(program_vector'[i].handle, j))
    <3>1. i # it /\ program_vector'[i] = program_vector[i]
      BY <1>5, <1>6, <2>3
    <3>2. ~Gone(program_vector[i].handle, j)
      BY <1>4 DEF Gone, Closing
    <3>3. Owned(openedHandles, owner, h, EndOf(program_vector[i].handle, j))
      BY <1>1, <2>3, <3>1, <3>2 DEF Owns
    <3> QED
      BY <1>12, <3>1, <3>3 DEF EndOf, Stacked
  <2>4. \A q : FlaggedEnds(q)' = FlaggedEnds(q)
    BY DEF FlaggedEnds, Flagged
  <2> QED
    BY <1>4, <1>6, <1>10, <2>1, <2>2, <2>3, <2>4 DEF Owns, HasFile
<1>15. Behind'
  <2>1. std_in \in DOMAIN openedHandles' /\ std_out \in DOMAIN openedHandles'
    BY <1>0, <1>7, <1>8, <1>13 DEF Behind
  <2>2. ASSUME NEW m \in DOMAIN programs, Running(m)
        PROVE  /\ ObjectOf(openedHandles', programs[m].in) = programs[m].from
               /\ ObjectOf(openedHandles', programs[m].out) = programs[m].to
               /\ HasFile(m) => ObjectOf(openedHandles', programs[m].own) = <<"own", m>>
    <3>1. \A h \in H : \A j \in 1 .. 4 : ~Owned(openedHandles, owner, h, EndOf(m, j))
      BY <1>12 DEF EndOf, Stacked
    <3>2. HasFile(m) => programs[m].own \notin H
      <4>1. HasFile(m) => Owned(openedHandles, owner, programs[m].own, OfProgram(m))
        BY <1>1 DEF Owns
      <4>2. \A j \in k + 1 .. l : OfProgram(m) # Stacked(j)
        BY DEF OfProgram, Stacked
      <4> QED
        BY <1>12, <4>1, <4>2
    <3>3. \A h \in DOMAIN openedHandles \ H :
             h \in DOMAIN openedHandles' /\ openedHandles'[h] = openedHandles[h]
      BY <1>7, <1>8
    <3> QED
      BY <1>1, <1>13, <2>2, <3>1, <3>2, <3>3, StillBehind
  <2> QED
    BY <1>4, <2>1, <2>2 DEF Behind, Running, HasFile
<1>16. Types'
  <2>1. Len(pipes') <= 2 * pipesMade'
    <3>1. pipesMade \in Nat /\ l <= 2 * pipesMade /\ pipesMade' = pipesMade
      BY <1>0, <1>2, <1>4 DEF Types
    <3>2. k <= l /\ Len(pipes') = k
      BY <1>5, <1>9, <1>10
    <3> QED
      BY <1>5, <1>9, <3>1, <3>2
  <2> QED
    BY <1>0, <1>4, <1>6, <1>8, <1>10, <2>1 DEF Types, Phases
<1>17. Loops'
  BY <1>4 DEF Loops, Closing
<1>18. Entries'
  <2>1. p.file \/ ~p.redirection_in \/ ~p.redirection_out
    BY <1>5 DEF Wiring
  <2> QED
    BY <1>0, <1>4, <1>5, <1>6, <2>1 DEF Entries, Wiring, InOf, OutOf
<1>19. Active'
  <2>1. ASSUME NEW a \in DOMAIN active_handles
        PROVE  \E i \in DOMAIN program_vector' : program_vector'[i].handle = active_handles[a]
    <3>1. PICK i \in DOMAIN program_vector : program_vector[i].handle = active_handles[a]
      BY <1>0 DEF Active
    <3>2. active_handles[a] # NoHandle
      BY <1>0, LenProperties DEF Active, Types, NoHandle
    <3>3. program_vector[it].handle = NoHandle
      BY <1>0, <1>4, <1>5 DEF Loops, Closing
    <3> QED
      BY <1>6, <3>1, <3>2, <3>3
  <2> QED
    BY <1>0, <1>4, <2>1 DEF Active, Running, HasFile
<1>20. \A i \in DOMAIN program_vector :
          program_vector'[i].handle \in {NoHandle, program_vector[i].handle}
  BY <1>5, <1>6
<1> QED
  BY <1>4, <1>6, <1>14, <1>15, <1>16, <1>17, <1>18, <1>19, <1>20 DEF HandlesInv

(* A program is started for the entry at it, which gets the handles.       *)
LEMMA CreateSucceeds ==
    ASSUME HandlesInv, CreateProcess, Created(Wired)
    PROVE  LET n == Len(programs) + 1
               k == Len(pipes) - Pops IN
           /\ HandlesInv' /\ pc' = "start" /\ it \in DOMAIN program_vector
           /\ DOMAIN program_vector' = DOMAIN program_vector
           /\ \A j \in DOMAIN program_vector :
                 j # it => program_vector'[j] = program_vector[j]
           /\ program_vector'[it].handle = n /\ n # NoHandle
           /\ FlaggedEnds(program_vector'[it]) = FlaggedEnds(Wired)
           /\ DOMAIN pipes' = 1 .. k /\ \A j \in 1 .. k : pipes'[j] = pipes[j]
           /\ DOMAIN openedHandles' =
                 DOMAIN openedHandles \cup (IF Redirects THEN {FirstFree(openedHandles)} ELSE {})
           /\ \A m \in DOMAIN programs : m \in DOMAIN programs' /\ programs'[m] = programs[m]
           /\ \E a \in DOMAIN active_handles' : active_handles'[a] = n
           /\ \A a \in DOMAIN active_handles :
                 a \in DOMAIN active_handles' /\ active_handles'[a] = active_handles[a]
<1>0. Types /\ Loops /\ Entries /\ Active /\ Behind /\ AtProgram /\ Pops <= Len(pipes)
  BY DEF HandlesInv, CreateProcess
<1>1. PICK owner : Owns(owner)
  BY DEF HandlesInv
<1>2. PICK p, t, k, l, n, f, x :
          /\ p = Wired /\ k = Len(pipes) - Pops /\ l = Len(pipes) /\ n = Len(programs) + 1
          /\ t = IF Redirects THEN With(openedHandles, <<"file", it>>) ELSE openedHandles
          /\ f = FirstFree(openedHandles) /\ x = Typed
  OBVIOUS
<1>3. PICK e, r : /\ e = [p EXCEPT !.handle = n]
                  /\ r = [name |-> p.command[1], in |-> InOf(p), out |-> OutOf(p),
                          from |-> ObjectOf(t, InOf(p)), to |-> ObjectOf(t, OutOf(p)),
                          own |-> NoHandle, ended |-> FALSE]
  OBVIOUS
<1>4. /\ program_vector' = [program_vector EXCEPT ![it] = e]
      /\ pipes' = SubSeq(pipes, 1, k) /\ openedHandles' = t
      /\ programs' = Append(programs, r) /\ active_handles' = Append(active_handles, n)
      /\ index' = index - 1 /\ it' = it - 1 /\ pc = "start"
      /\ UNCHANGED <<pc, failed, signaled, closing, pipesMade, lines, clean, spotless>>
  BY <1>2, <1>3 DEF CreateProcess, Created, AtProgram
<1>5. /\ p \in Entry /\ p.handle = NoHandle /\ Wiring(p) /\ it \in 1 .. Len(program_vector)
      /\ index \in it .. Len(program_vector)
      /\ Pops = (IF PipesOut THEN 1 ELSE 0) + (IF x.pipe_in THEN 1 ELSE 0)
      /\ Pops \in 0 .. 2 /\ l \in Nat /\ p.pipe_in = x.pipe_in
      /\ p.pipe_in_handle = IF x.pipe_in THEN pipes[l + 1 - Pops] ELSE NoHandle
      /\ p.pipe_out_handle = IF PipesOut THEN pipes[l] ELSE NoHandle
      /\ p.redirection_in_handle # NoHandle =>
            Redirects /\ x.redirection_in /\ p.redirection_in_handle = f
      /\ p.redirection_out_handle # NoHandle =>
            Redirects /\ x.redirection_out /\ p.redirection_out_handle = f
      /\ ~x.redirection_in \/ ~x.redirection_out
  BY <1>0, <1>2, WiredEntry
<1>6. /\ Len(programs) \in Nat /\ DOMAIN programs = 1 .. Len(programs)
      /\ programs \in Seq(Started) /\ n \in Nat /\ n \notin DOMAIN programs /\ n # NoHandle
      /\ active_handles \in Seq(Nat) /\ Len(active_handles) \in Nat
      /\ DOMAIN active_handles = 1 .. Len(active_handles)
      /\ DOMAIN pipes = 1 .. l
      /\ program_vector \in Seq(Entry) /\ DOMAIN program_vector = 1 .. Len(program_vector)
      /\ Len(program_vector) \in Nat
  <2>1. /\ Len(programs) \in Nat /\ DOMAIN programs = 1 .. Len(programs)
        /\ programs \in Seq(Started)
        /\ active_handles \in Seq(Nat) /\ Len(active_handles) \in Nat
        /\ DOMAIN active_handles = 1 .. Len(active_handles)
        /\ DOMAIN pipes = 1 .. l
        /\ program_vector \in Seq(Entry) /\ DOMAIN program_vector = 1 .. Len(program_vector)
        /\ Len(program_vector) \in Nat
    BY <1>0, <1>2, LenProperties DEF Types
  <2> QED
    BY <1>2, <2>1 DEF NoHandle
<1>7. /\ e \in Entry /\ e.handle = n /\ Wiring(e) /\ InOf(e) = InOf(p) /\ OutOf(e) = OutOf(p)
      /\ FlaggedEnds(e) = FlaggedEnds(p) /\ e.file = p.file
      /\ e.redirection_in = p.redirection_in /\ e.redirection_out = p.redirection_out
  <2>1. /\ e \in Entry /\ e.handle = n /\ e.file = p.file
        /\ e.pipe_in = p.pipe_in /\ e.pipe_out = p.pipe_out
        /\ e.redirection_in = p.redirection_in /\ e.redirection_out = p.redirection_out
        /\ e.pipe_in_handle = p.pipe_in_handle /\ e.pipe_out_handle = p.pipe_out_handle
        /\ e.redirection_in_handle = p.redirection_in_handle
        /\ e.redirection_out_handle = p.redirection_out_handle
    <3>1. e = [p EXCEPT !.handle = n] /\ p \in Entry /\ n \in Int
      BY <1>3, <1>5, <1>6
    <3> QED
      BY <3>1 DEF Entry
  <2> QED
    BY <1>5, <2>1 DEF Wiring, InOf, OutOf, FlaggedEnds
<1>8. /\ program_vector' \in Seq(Entry) /\ Len(program_vector') = Len(program_vector)
      /\ DOMAIN program_vector' = DOMAIN program_vector /\ program_vector'[it] = e
      /\ \A j \in DOMAIN program_vector : j # it => program_vector'[j] = program_vector[j]
  BY <1>4, <1>5, <1>7, EntrySet
<1>9. /\ Table(t) /\ DOMAIN t = DOMAIN openedHandles \cup (IF Redirects THEN {f} ELSE {})
      /\ \A h \in DOMAIN openedHandles : t[h] = openedHandles[h]
      /\ f \in Nat /\ f \notin DOMAIN openedHandles
  BY <1>0, <1>2, TableWithFile
<1>10. k \in 0 .. l /\ k = l - Pops
  BY <1>0, <1>2, <1>5
<1>11. /\ pipes' \in Seq(Nat) /\ DOMAIN pipes' = 1 .. k /\ Len(pipes') = k
       /\ \A j \in 1 .. k : pipes'[j] = pipes[j]
  BY <1>2, <1>4, <1>10, StackPopped
<1>12. r \in Started
  <2>1. InOf(p) \in Int /\ OutOf(p) \in Int
    BY <1>5 DEF InOf, OutOf, FirstOf, std_in, std_out, Entry
  <2>2. ASSUME NEW h \in Int PROVE ObjectOf(t, h) \in Objects
    BY <1>9, Objects0 DEF ObjectOf, Table
  <2>3. p.command[1] \in Programs
    BY <1>2 DEF Created
  <2>4. ObjectOf(t, InOf(p)) \in Objects /\ ObjectOf(t, OutOf(p)) \in Objects
    BY <2>1, <2>2
  <2> QED
    BY <1>3, <2>1, <2>3, <2>4 DEF Started, NoHandle
<1>13. /\ programs' \in Seq(Started) /\ DOMAIN programs' = 1 .. n /\ programs'[n] = r
       /\ \A m \in DOMAIN programs : programs'[m] = programs[m]
       /\ DOMAIN programs' = DOMAIN programs \cup {n}
  <2>1. /\ Append(programs, r) \in Seq(Started)
        /\ Len(Append(programs, r)) = Len(programs) + 1
        /\ \A m \in 1 .. Len(programs) : Append(programs, r)[m] = programs[m]
        /\ Append(programs, r)[Len(programs) + 1] = r
    BY <1>6, <1>12, AppendProperties
  <2>2. DOMAIN programs' = 1 .. n /\ 1 .. n = 1 .. Len(programs) \cup {n}
    BY <1>2, <1>4, <1>6, <2>1, LenProperties
  <2> QED
    BY <1>2, <1>4, <1>6, <2>1, <2>2
<1>14. PICK a0 : a0 = Len(active_handles) + 1
  OBVIOUS
<1>15. /\ active_handles' \in Seq(Nat) /\ DOMAIN active_handles' = DOMAIN active_handles \cup {a0}
       /\ active_handles'[a0] = n /\ a0 \notin DOMAIN active_handles
       /\ \A a \in DOMAIN active_handles : active_handles'[a] = active_handles[a]
  <2>1. /\ Append(active_handles, n) \in Seq(Nat)
        /\ Len(Append(active_handles, n)) = Len(active_handles) + 1
        /\ \A a \in 1 .. Len(active_handles) : Append(active_handles, n)[a] = active_handles[a]
        /\ Append(active_handles, n)[Len(active_handles) + 1] = n
    BY <1>6, AppendProperties
  <2>2. DOMAIN active_handles' = 1 .. a0 /\ 1 .. a0 = 1 .. Len(active_handles) \cup {a0}
    BY <1>4, <1>6, <1>14, <2>1, LenProperties
  <2> QED
    BY <1>4, <1>6, <1>14, <2>1, <2>2
<1>16. PICK owner2 : owner2 =
          [h \in DOMAIN t |->
              IF Redirects /\ h = f THEN EndOf(n, IF x.redirection_in THEN 3 ELSE 4)
              ELSE IF PipesOut /\ h = pipes[l] THEN EndOf(n, 2)
              ELSE IF x.pipe_in /\ h = pipes[l + 1 - Pops] THEN EndOf(n, 1)
              ELSE owner[h]]
  OBVIOUS
<1>17. \A j \in 1 .. l : Owned(openedHandles, owner, pipes[j], Stacked(j))
  BY <1>1, <1>6 DEF Owns
<1>18. /\ PipesOut => l \in k + 1 .. l /\ l \in 1 .. l
       /\ x.pipe_in => l + 1 - Pops \in k + 1 .. l /\ l + 1 - Pops \in 1 .. l
       /\ PipesOut /\ x.pipe_in => l + 1 - Pops # l
  BY <1>5, <1>10
<1>19. ASSUME NEW h, NEW key, Owned(openedHandles, owner, h, key),
              \A j \in k + 1 .. l : key # Stacked(j)
       PROVE  Owned(t, owner2, h, key)
  <2>1. h \in DOMAIN openedHandles /\ h # f /\ h \in DOMAIN t
    BY <1>9, <1>19 DEF Owned
  <2>2. PipesOut => h # pipes[l]
    BY <1>17, <1>18, <1>19 DEF Owned
  <2>3. x.pipe_in => h # pipes[l + 1 - Pops]
    BY <1>17, <1>18, <1>19 DEF Owned
  <2>4. owner2[h] = owner[h]
    BY <1>16, <2>1, <2>2, <2>3
  <2> QED
    BY <1>19, <2>1, <2>4 DEF Owned
<1>20. /\ PipesOut => Owned(t, owner2, pipes[l], EndOf(n, 2))
       /\ x.pipe_in => Owned(t, owner2, pipes[l + 1 - Pops], EndOf(n, 1))
       /\ Redirects => Owned(t, owner2, f, EndOf(n, IF x.redirection_in THEN 3 ELSE 4))
  <2>1. ASSUME PipesOut PROVE Owned(t, owner2, pipes[l], EndOf(n, 2))
    <3>1. Owned(openedHandles, owner, pipes[l], Stacked(l))
      BY <1>17, <1>18, <2>1
    <3>2. pipes[l] \in DOMAIN t /\ pipes[l] # f /\ pipes[l] \notin {std_in, std_out}
      BY <1>9, <3>1 DEF Owned
    <3> QED
      BY <1>16, <2>1, <3>2 DEF Owned
  <2>2. ASSUME x.pipe_in PROVE Owned(t, owner2, pipes[l + 1 - Pops], EndOf(n, 1))
    <3> DEFINE g == pipes[l + 1 - Pops]
    <3>1. Owned(openedHandles, owner, g, Stacked(l + 1 - Pops))
      BY <1>17, <1>18, <2>2
    <3>2. g \in DOMAIN t /\ g # f /\ g \notin {std_in, std_out}
      BY <1>9, <3>1 DEF Owned
    <3>3. PipesOut => g # pipes[l]
      <4>1. SUFFICES ASSUME PipesOut PROVE g # pipes[l]
        OBVIOUS
      <4>2. Owned(openedHandles, owner, pipes[l], Stacked(l))
        BY <1>17, <1>18, <4>1
      <4>3. Stacked(l) # Stacked(l + 1 - Pops)
        BY <1>18, <2>2, <4>1 DEF Stacked
      <4> QED
        BY <3>1, <4>2, <4>3 DEF Owned
    <3>4. owner2[g] = EndOf(n, 1)
      BY <1>16, <2>2, <3>2, <3>3
    <3> QED
      BY <3>2, <3>4 DEF Owned
  <2>3. ASSUME Redirects PROVE Owned(t, owner2, f, EndOf(n, IF x.redirection_in THEN 3 ELSE 4))
    <3>1. f \in DOMAIN t /\ f \notin {std_in, std_out}
      BY <1>0, <1>9, <2>3 DEF Behind
    <3> QED
      BY <1>16, <2>3, <3>1 DEF Owned
  <2> QED
    BY <2>1, <2>2, <2>3
<1>21. ASSUME NEW j \in 1 .. 4, NEW h \in FlaggedEnds(p)[j], h # NoHandle
       PROVE  Owned(t, owner2, h, EndOf(n, j))
  <2>1. /\ j = 1 => p.pipe_in /\ h = p.pipe_in_handle
        /\ j = 2 => h = p.pipe_out_handle
        /\ j = 3 => h = p.redirection_in_handle
        /\ j = 4 => h = p.redirection_out_handle
    BY <1>21 DEF FlaggedEnds, Flagged
  <2>2. CASE j = 1
    BY <1>5, <1>20, <2>1, <2>2
  <2>3. CASE j = 2
    BY <1>5, <1>20, <1>21, <2>1, <2>3
  <2>4. CASE j = 3
    BY <1>5, <1>20, <1>21, <2>1, <2>4
  <2>5. CASE j = 4
    BY <1>5, <1>20, <1>21, <2>1, <2>5
  <2> QED
    BY <2>2, <2>3, <2>4, <2>5
<1>22. Owns(owner2)'
  <2>1. ASSUME NEW j \in 1 .. k PROVE Owned(t, owner2, pipes[j], Stacked(j))
    <3>1. j \in 1 .. l /\ \A i \in k + 1 .. l : Stacked(j) # Stacked(i)
      BY <1>5, <1>10 DEF Stacked
    <3> QED
      BY <1>17, <1>19, <3>1
  <2>2. ASSUME NEW m \in DOMAIN programs', HasFile(m)'
        PROVE  Owned(t, owner2, programs'[m].own, OfProgram(m))
    <3>1. m # n
      BY <1>3, <1>13, <2>2 DEF HasFile
    <3>2. m \in DOMAIN programs /\ programs'[m] = programs[m]
      BY <1>13, <3>1
    <3>3. Owned(openedHandles, owner, programs[m].own, OfProgram(m))
      BY <1>1, <2>2, <3>2 DEF Owns, HasFile
    <3>4. \A j \in k + 1 .. l : OfProgram(m) # Stacked(j)
      BY DEF OfProgram, Stacked
    <3> QED
      BY <1>19, <3>2, <3>3, <3>4
  <2>3. ASSUME NEW i \in DOMAIN program_vector, NEW j \in 1 .. 4,
               program_vector'[i].handle # NoHandle,
               NEW h \in FlaggedEnds(program_vector'[i])[j], h # NoHandle
        PROVE  Owned(t, owner2, h, EndOf(program_vector'[i].handle, j))
    <3>1. CASE i = it
      BY <1>7, <1>8, <1>21, <2>3, <3>1
    <3>2. CASE i # it
      <4>1. program_vector'[i] = program_vector[i] /\ ~Gone(program_vector[i].handle, j)
        BY <1>4, <1>8, <3>2 DEF Gone, Closing
      <4>2. Owned(openedHandles, owner, h, EndOf(program_vector[i].handle, j))
        BY <1>1, <2>3, <4>1 DEF Owns
      <4>3. \A q \in k + 1 .. l : EndOf(program_vector[i].handle, j) # Stacked(q)
        BY DEF EndOf, Stacked
      <4> QED
        BY <1>19, <4>1, <4>2, <4>3
    <3> QED
      BY <3>1, <3>2
  <2>4. \A q : FlaggedEnds(q)' = FlaggedEnds(q)
    BY DEF FlaggedEnds, Flagged
  <2> QED
    BY <1>4, <1>8, <1>11, <2>1, <2>2, <2>3, <2>4 DEF Owns
<1>23. Behind'
  <2>1. std_in \in DOMAIN openedHandles' /\ std_out \in DOMAIN openedHandles'
    BY <1>0, <1>4, <1>9 DEF Behind
  <2>2. ASSUME NEW m \in DOMAIN programs', Running(m)'
        PROVE  /\ ObjectOf(t, programs'[m].in) = programs'[m].from
               /\ ObjectOf(t, programs'[m].out) = programs'[m].to
               /\ HasFile(m)' => ObjectOf(t, programs'[m].own) = <<"own", m>>
    <3>1. CASE m = n
      BY <1>3, <1>13, <3>1 DEF HasFile
    <3>2. CASE m # n
      <4>1. m \in DOMAIN programs /\ programs'[m] = programs[m] /\ Running(m)
        BY <1>13, <2>2, <3>2 DEF Running
      <4> DEFINE none == {}
      <4>2. /\ \A h \in DOMAIN openedHandles \ none : h \in DOMAIN t /\ t[h] = openedHandles[h]
            /\ \A h : h \notin none
        BY <1>9
      <4> HIDE DEF none
      <4>3. std_in \notin none /\ std_out \notin none /\ programs[m].own \notin none
            /\ \A h \in none : \A j \in 1 .. 4 : ~Owned(openedHandles, owner, h, EndOf(m, j))
        BY <4>2
      <4>4. /\ ObjectOf(t, programs[m].in) = programs[m].from
            /\ ObjectOf(t, programs[m].out) = programs[m].to
            /\ HasFile(m) => ObjectOf(t, programs[m].own) = <<"own", m>>
        BY <1>1, <4>1, <4>2, <4>3, StillBehind
      <4> QED
        BY <4>1, <4>4 DEF HasFile
    <3> QED
      BY <3>1, <3>2
  <2> QED
    BY <1>4, <2>1, <2>2 DEF Behind
<1>24. Types'
  <2>1. Len(pipes') <= 2 * pipesMade'
    <3>1. pipesMade \in Nat /\ l <= 2 * pipesMade /\ pipesMade' = pipesMade
      BY <1>0, <1>2, <1>4 DEF Types
    <3> QED
      BY <1>5, <1>10, <1>11, <3>1
  <2>2. it' \in Nat /\ index' \in Nat
    BY <1>4, <1>5, <1>6
  <2> QED
    BY <1>0, <1>4, <1>8, <1>9, <1>11, <1>13, <1>15, <2>1, <2>2 DEF Types, Phases
<1>25. Loops'
  <2>1. /\ it' \in 0 .. Len(program_vector') /\ index' \in it' .. Len(program_vector')
        /\ \A i \in 1 .. it' : i \in 1 .. it /\ i # it /\ i \in DOMAIN program_vector
    BY <1>4, <1>5, <1>6, <1>8
  <2>2. \A i \in 1 .. it' : program_vector'[i].handle = NoHandle
    BY <1>0, <1>4, <1>8, <2>1 DEF Loops, Closing
  <2> QED
    BY <1>4, <2>1, <2>2 DEF Loops, Closing
<1>26. Entries'
  <2>1. ASSUME NEW i \in DOMAIN program_vector'
        PROVE  LET q == program_vector'[i] IN
               /\ q.file \/ ~q.redirection_in \/ ~q.redirection_out
               /\ q.handle # NoHandle =>
                     /\ q.handle \in DOMAIN programs' /\ Wiring(q)
                     /\ programs'[q.handle].in = InOf(q) /\ programs'[q.handle].out = OutOf(q)
    <3>1. CASE i = it
      <4>1. r.in = InOf(p) /\ r.out = OutOf(p)
        BY <1>3
      <4>2. e.file \/ ~e.redirection_in \/ ~e.redirection_out
        BY <1>7 DEF Wiring
      <4>3. e.handle = n /\ n \in DOMAIN programs' /\ Wiring(e) /\ programs'[n] = r
            /\ InOf(e) = InOf(p) /\ OutOf(e) = OutOf(p)
        BY <1>7, <1>13
      <4> QED
        BY <1>8, <3>1, <4>1, <4>2, <4>3
    <3>2. CASE i # it
      BY <1>0, <1>8, <1>13, <3>2 DEF Entries
    <3> QED
      BY <3>1, <3>2
  <2>2. ASSUME NEW i \in DOMAIN program_vector, NEW j \in DOMAIN program_vector,
               program_vector'[i].handle = program_vector'[j].handle, i # j
        PROVE  program_vector'[i].handle = NoHandle
    <3>1. \A q \in DOMAIN program_vector : q # it => program_vector'[q].handle # n
      BY <1>0, <1>6, <1>8 DEF Entries
    <3>2. i # it /\ j # it
      BY <1>7, <1>8, <2>2, <3>1
    <3> QED
      BY <1>0, <1>8, <2>2, <3>2 DEF Entries
  <2> QED
    BY <1>8, <2>1, <2>2 DEF Entries, Wiring, InOf, OutOf
<1>27. Active'
  <2>1. ASSUME NEW a \in DOMAIN active_handles'
        PROVE  /\ active_handles'[a] \in DOMAIN programs'
               /\ \E i \in DOMAIN program_vector' : program_vector'[i].handle = active_handles'[a]
    <3>1. CASE a = a0
      BY <1>5, <1>6, <1>7, <1>8, <1>13, <1>15, <3>1
    <3>2. CASE a # a0
      <4>1. a \in DOMAIN active_handles /\ active_handles'[a] = active_handles[a]
        BY <1>15, <3>2
      <4>2. active_handles[a] \in DOMAIN programs /\ active_handles[a] # NoHandle
        BY <1>0, <1>6, <4>1 DEF Active, NoHandle
      <4>3. PICK i \in DOMAIN program_vector : program_vector[i].handle = active_handles[a]
        BY <1>0, <4>1 DEF Active
      <4>4. i # it
        BY <1>0, <1>4, <1>5, <4>2, <4>3 DEF Loops, Closing
      <4> QED
        BY <1>8, <1>13, <4>1, <4>2, <4>3, <4>4
    <3> QED
      BY <3>1, <3>2
  <2>2. ASSUME NEW a \in DOMAIN active_handles', NEW b \in DOMAIN active_handles',
               active_handles'[a] = active_handles'[b]
        PROVE  a = b
    <3>1. \A c \in DOMAIN active_handles : active_handles'[c] # n
      BY <1>0, <1>6, <1>15 DEF Active
    <3> QED
      BY <1>0, <1>15, <2>2, <3>1 DEF Active
  <2>3. ASSUME NEW m \in DOMAIN programs'
        PROVE  /\ Running(m)' => \E a \in DOMAIN active_handles' : active_handles'[a] = m
               /\ programs'[m].ended => ~HasFile(m)'
    <3>1. CASE m = n
      BY <1>3, <1>13, <1>15, <3>1
    <3>2. CASE m # n
      <4>1. m \in DOMAIN programs /\ programs'[m] = programs[m]
        BY <1>13, <3>2
      <4>2. Running(m)' => \E a \in DOMAIN active_handles : active_handles[a] = m
        BY <1>0, <4>1 DEF Active, Running
      <4>3. programs'[m].ended => ~HasFile(m)'
        BY <1>0, <4>1 DEF Active, HasFile
      <4> QED
        BY <1>15, <4>2, <4>3
    <3> QED
      BY <3>1, <3>2
  <2> QED
    BY <2>1, <2>2, <2>3 DEF Active
<1>28. HandlesInv'
  BY <1>22, <1>23, <1>24, <1>25, <1>26, <1>27 DEF HandlesInv
<1>29. it \in DOMAIN program_vector /\ pc' = "start"
  BY <1>4, <1>5, <1>6
<1>30. program_vector'[it].handle = n /\ FlaggedEnds(program_vector'[it]) = FlaggedEnds(p)
  BY <1>7, <1>8
<1>31. \A m \in DOMAIN programs : m \in DOMAIN programs' /\ programs'[m] = programs[m]
  BY <1>13
<1>32. /\ \E a \in DOMAIN active_handles' : active_handles'[a] = n
       /\ \A a \in DOMAIN active_handles :
             a \in DOMAIN active_handles' /\ active_handles'[a] = active_handles[a]
  BY <1>15
<1> QED
  BY <1>2, <1>4, <1>6, <1>8, <1>9, <1>11, <1>28, <1>29, <1>30, <1>31, <1>32

LEMMA StepKeepsHandles == ASSUME HandlesInv, [Next]_vars PROVE HandlesInv'
<1>1. CASE UNCHANGED vars
  <2>1. /\ UNCHANGED <<pc, program_vector, it, index, pipes, active_handles, signaled, closing,
                       openedHandles, programs, pipesMade, lines, clean, failed, spotless>>
    BY <1>1 DEF vars, execVars, histVars
  <2>2. Types' /\ Loops'
    BY <2>1 DEF HandlesInv, Types, Loops, Closing
  <2>3. Entries' /\ Active' /\ Behind'
    BY <2>1 DEF HandlesInv, Entries, Wiring, InOf, OutOf, Active, Behind, Running, HasFile,
                ObjectOf
  <2>4. PICK owner : Owns(owner)
    BY DEF HandlesInv
  <2>5. \A p : FlaggedEnds(p)' = FlaggedEnds(p)
    BY DEF FlaggedEnds, Flagged
  <2>6. \A n, k : Gone(n, k)' = Gone(n, k)
    BY <2>1 DEF Gone, Closing
  <2>7. Owns(owner)'
    BY <2>1, <2>4, <2>5, <2>6 DEF Owns, HasFile
  <2> QED
    BY <2>2, <2>3, <2>7 DEF HandlesInv
<1>2. CASE ReadLine
  BY <1>2, ReadLineKeeps
<1>3. CASE Leave
  BY <1>3, LoopStepKeeps DEF LoopStep
<1>4. CASE ShellStep
  <2>1. CASE LoopStep
    BY <2>1, LoopStepKeeps
  <2>2. CASE Echo
    BY <2>2, EchoKeeps
  <2>3. CASE Execute
    BY <2>3, ExecuteKeeps
  <2>4. CASE CreatePipe
    BY <2>4, CreatePipeKeeps
  <2>5. CASE CreateProcess
    BY <2>5, CreateFails, CreateSucceeds
  <2>6. CASE WaitFor
    BY <2>6, WaitForKeeps
  <2>7. CASE CloseEnd
    BY <2>7, CloseEndKeeps
  <2>8. CASE EraseProgram
    BY <2>8, EraseProgramKeeps
  <2> QED
    BY <1>4, <2>1, <2>2, <2>3, <2>4, <2>5, <2>6, <2>7, <2>8 DEF ShellStep, LoopStep
<1>5. CASE \E n \in Numbers : ProgramOpens(n) \/ ProgramCloses(n) \/ ProgramEnds(n)
  BY <1>5, ProgramOpensKeeps, ProgramClosesKeeps, ProgramEndsKeeps
<1>6. CASE GivesUp
  BY <1>6, LoopStepKeeps, CloseWaitsKeeps DEF GivesUp, LoopStep
<1> QED
  BY <1>1, <1>2, <1>3, <1>4, <1>5, <1>6 DEF Next

(* Whatever is typed and whatever the programs do, every handle that       *)
(* somebody closes is owned by him alone.                                  *)
THEOREM HandlesOwned == Spec => []HandlesInv
<1>1. Init => HandlesInv
  BY InitHandles
<1>2. HandlesInv /\ [Next]_vars => HandlesInv'
  BY StepKeepsHandles
<1> QED
  BY <1>1, <1>2, PTL DEF Spec

-----------------------------------------------------------------------------
(* Paths *)

Paths == Seq(Text)

(* A function may be defined by recursion over 0 .. n. *)
Step(n, X, x, D)   == x \in X /\ D \in [1 .. n -> [X -> X]]
Along(n, x, D, f)  == f[0] = x /\ \A i \in 1 .. n : f[i] = D[i][f[i - 1]]

LEMMA RunsAlong ==
    ASSUME NEW n \in Nat, NEW X, NEW x, NEW D, Step(n, X, x, D)
    PROVE  \E f \in [0 .. n -> X] : Along(n, x, D, f)
<1>0. x \in X /\ D \in [1 .. n -> [X -> X]]
  BY DEF Step
<1> DEFINE Run(m, f) == Along(m, x, D, f)
           Good(m) == \E f \in [0 .. m -> X] : Run(m, f)
           G == {m \in Nat : m <= n => Good(m)}
<1>1. 0 \in G
  <2>1. [i \in 0 .. 0 |-> x] \in [0 .. 0 -> X] /\ Run(0, [i \in 0 .. 0 |-> x])
    BY <1>0 DEF Along
  <2> QED
    BY <2>1
<1>2. ASSUME NEW m \in G PROVE m + 1 \in G
  <2>0. m \in Nat /\ (m <= n => Good(m))
    OBVIOUS
  <2>1. SUFFICES ASSUME m + 1 <= n PROVE Good(m + 1)
    <3> HIDE DEF Good
    <3> QED
      BY <2>0
  <2>2. PICK f \in [0 .. m -> X] : Run(m, f)
    BY <2>0, <2>1
  <2>3. m \in 0 .. m /\ m + 1 \in 1 .. n /\ f[m] \in X
    BY <2>0, <2>1
  <2> DEFINE y == D[m + 1][f[m]]
             g == [i \in 0 .. m + 1 |-> IF i = m + 1 THEN y ELSE f[i]]
  <2>4. y \in X
    BY <1>0, <2>3
  <2> HIDE DEF y
  <2>5. /\ g \in [0 .. m + 1 -> X] /\ g[m + 1] = y /\ \A i \in 0 .. m : g[i] = f[i]
    BY <2>4
  <2> HIDE DEF g
  <2>6. ASSUME NEW i \in 1 .. m + 1 PROVE g[i] = D[i][g[i - 1]]
    <3>1. CASE i = m + 1
      BY <2>3, <2>5, <3>1 DEF y
    <3>2. CASE i # m + 1
      <4>1. i \in 1 .. m /\ i \in 0 .. m /\ i - 1 \in 0 .. m
        BY <3>2
      <4> QED
        BY <2>2, <2>5, <4>1 DEF Along
    <3> QED
      BY <3>1, <3>2
  <2>7. g[0] = x
    BY <2>0, <2>2, <2>5 DEF Along
  <2>8. Run(m + 1, g)
    BY <2>6, <2>7 DEF Along
  <2> QED
    BY <2>5, <2>8
<1> HIDE DEF Good
<1>3. G \in SUBSET Nat
  OBVIOUS
<1> HIDE DEF G
<1>4. n \in G
  BY <1>1, <1>2, <1>3, NatSet
<1> QED
  BY <1>4 DEF G, Good

LEMMA FrontOf ==
    ASSUME NEW X, NEW s \in Seq(X), s # <<>>
    PROVE  /\ Front(s) \in Seq(X) /\ Len(Front(s)) = Len(s) - 1 /\ Len(s) \in Nat \ {0}
           /\ \A i \in 1 .. Len(s) - 1 : Front(s)[i] = s[i]
           /\ Last(s) = s[Len(s)]
<1>1. Len(s) \in Nat \ {0} /\ \A i \in 1 .. Len(s) : s[i] \in X
  BY LenProperties, EmptySeq, ElementOfSeq
<1> DEFINE m == Len(s) - 1
           u == SubSeq(s, 1, m)
<1>2. m \in Nat /\ m \in Int /\ 1 \in Int /\ \A i \in 1 .. m : s[i] \in X
  BY <1>1
<1> HIDE DEF m
<1>3. /\ u \in Seq(X) /\ Len(u) = (IF 1 <= m THEN m - 1 + 1 ELSE 0)
      /\ \A i \in 1 .. m - 1 + 1 : u[i] = s[1 + i - 1]
  BY <1>2, SubSeqProperties
<1> HIDE DEF u
<1>4. Len(u) = m /\ \A i \in 1 .. m : u[i] = s[i]
  BY <1>2, <1>3
<1> QED
  BY <1>1, <1>3, <1>4 DEF m, u, Front, Last

LEMMA PathFacts ==
    /\ <<>> \in Text /\ <<Drive>> \in Text /\ <<>> \in Paths /\ <<<<Drive>>>> \in Paths
    /\ <<<<>>>> \in Paths /\ Len(<<<<Drive>>>>) = 1 /\ <<<<Drive>>>>[1] = <<Drive>>
<1>1. <<>> \in Text /\ <<>> \in Paths
  BY EmptySeq DEF Text, Paths
<1>2. <<Drive>> \in Text
  <2>1. Drive \in Tokens
    BY DEF Tokens
  <2> QED
    BY <2>1 DEF Text
<1>3. PICK d : d = <<Drive>>
  OBVIOUS
<1>4. d \in Text /\ <<d>> \in Seq(Text) /\ Len(<<d>>) = 1 /\ <<d>>[1] = d
  BY <1>2, <1>3
<1>5. <<<<>>>> \in Seq(Text)
  BY <1>1
<1> QED
  BY <1>1, <1>2, <1>3, <1>4, <1>5 DEF Paths

(* A path that begins with the drive. *)
Rooted(p) == p \in Paths /\ p # <<>> /\ p[1] = <<Drive>>

LEMMA ComponentKeeps ==
    ASSUME NEW p \in Paths, NEW c \in Text
    PROVE  Component(p, c) \in Paths /\ (Rooted(p) => Rooted(Component(p, c)))
<1>1. /\ Append(p, c) \in Paths /\ Len(Append(p, c)) = Len(p) + 1 /\ Len(p) \in Nat
      /\ \A i \in 1 .. Len(p) : Append(p, c)[i] = p[i]
  BY AppendProperties, LenProperties DEF Paths
<1>2. p # <<>> => /\ Front(p) \in Paths /\ Len(Front(p)) = Len(p) - 1 /\ Len(p) >= 1
                  /\ \A i \in 1 .. Len(p) - 1 : Front(p)[i] = p[i]
  BY FrontOf DEF Paths
<1>3. p = <<>> => Front(p) \in Paths
  <2>1. Len(<<>>) = 0 /\ \A i \in 1 .. -1 : <<>>[i] \in Text
    BY EmptySeq
  <2>2. -1 \in Int /\ 1 \in Int /\ <<>> \in Seq(Text) /\ 0 - 1 = -1
    BY EmptySeq
  <2>3. SubSeq(<<>>, 1, -1) \in Seq(Text)
    BY <2>1, <2>2, SubSeqProperties
  <2> QED
    BY <2>1, <2>2, <2>3 DEF Front, Paths
<1>4. Len(<<>>) = 0
  BY EmptySeq
<1>5. Component(p, c) \in Paths
  BY <1>1, <1>2, <1>3, PathFacts DEF Component
<1>6. ASSUME Rooted(p) PROVE Rooted(Component(p, c))
  <2>1. Len(p) >= 1 /\ p[1] = <<Drive>> /\ p # <<>>
    BY <1>2, <1>6 DEF Rooted
  <2>2. CASE c = Up
    <3>1. CASE Front(p) = <<>>
      BY <1>5, <2>2, <3>1, PathFacts DEF Rooted, Component
    <3>2. CASE Front(p) # <<>>
      <4>1. Len(Front(p)) >= 1
        BY <1>2, <2>1, <3>2, EmptySeq, LenProperties DEF Paths
      <4>2. Front(p)[1] = p[1]
        BY <1>1, <1>2, <2>1, <4>1
      <4> QED
        BY <1>5, <2>1, <2>2, <3>2, <4>2 DEF Rooted, Component
    <3> QED
      BY <3>1, <3>2
  <2>3. CASE c # Up /\ c = Here
    BY <1>5, <1>6, <2>3 DEF Rooted, Component
  <2>4. CASE c # Up /\ c # Here
    <3>1. Append(p, c) # <<>> /\ Append(p, c)[1] = p[1]
      BY <1>1, <1>4, <2>1
    <3> QED
      BY <1>5, <2>1, <2>4, <3>1 DEF Rooted, Component
  <2> QED
    BY <2>2, <2>3, <2>4
<1> QED
  BY <1>5, <1>6

LEMMA TrimKeeps ==
    ASSUME NEW p \in Paths
    PROVE  /\ Trim(p) \in Paths
           /\ IsAbsolute(p) => Rooted(Trim(p))
<1>1. p # <<>> => /\ Front(p) \in Paths /\ Len(Front(p)) = Len(p) - 1 /\ Len(p) \in Nat
                  /\ \A i \in 1 .. Len(p) - 1 : Front(p)[i] = p[i]
  BY FrontOf DEF Paths
<1>2. Trim(p) \in Paths
  BY <1>1 DEF Trim
<1>3. ASSUME IsAbsolute(p) PROVE Rooted(Trim(p))
  <2>1. Len(p) > 1 /\ p[1] = <<Drive>> /\ p # <<>>
    BY <1>3, EmptySeq DEF IsAbsolute
  <2>2. Len(Front(p)) >= 1 /\ Front(p)[1] = <<Drive>> /\ Front(p) # <<>>
    BY <1>1, <2>1, EmptySeq
  <2> QED
    BY <1>2, <2>1, <2>2 DEF Rooted, Trim
<1> QED
  BY <1>2, <1>3

LEMMA ParseRuns ==
    ASSUME NEW abs \in Paths, NEW rel \in Paths
    PROVE  \E g \in [0 .. Len(rel) -> Paths] :
              /\ g[0] = Trim(abs)
              /\ \A i \in 1 .. Len(rel) : g[i] = Component(g[i - 1], rel[i])
              /\ parse_path(abs, rel) = IF Len(g[Len(rel)]) = 1
                                        THEN Append(g[Len(rel)], <<>>) ELSE g[Len(rel)]
<1> DEFINE n == Len(rel)
           x == Trim(abs)
           D == [i \in 1 .. n |-> [p \in Paths |-> Component(p, rel[i])]]
           Def(k) == k = [i \in 0 .. n |-> IF i = 0 THEN x ELSE Component(k[i - 1], rel[i])]
           g == CHOOSE k : Def(k)
<1>1. n \in Nat /\ \A i \in 1 .. n : rel[i] \in Text
  BY LenProperties, ElementOfSeq DEF Paths
<1>2. x \in Paths
  BY TrimKeeps
<1>3. D \in [1 .. n -> [Paths -> Paths]]
  BY <1>1, ComponentKeeps
<1>4. parse_path(abs, rel) = IF Len(g[n]) = 1 THEN Append(g[n], <<>>) ELSE g[n]
  BY DEF parse_path
<1> HIDE DEF n, x
<1>5. \A i \in 1 .. n, p \in Paths : D[i][p] = Component(p, rel[i])
  OBVIOUS
<1> HIDE DEF D
<1>6. PICK f \in [0 .. n -> Paths] : f[0] = x /\ \A i \in 1 .. n : f[i] = D[i][f[i - 1]]
  <2>1. Step(n, Paths, x, D)
    BY <1>2, <1>3 DEF Step
  <2>2. PICK f \in [0 .. n -> Paths] : Along(n, x, D, f)
    BY <1>1, <2>1, RunsAlong
  <2> QED
    BY <2>2 DEF Along
<1>7. Def(f)
  <2>1. \A i \in 1 .. n : f[i] = Component(f[i - 1], rel[i])
    <3> TAKE i \in 1 .. n
    <3>1. i - 1 \in 0 .. n
      BY <1>1
    <3> QED
      BY <1>5, <1>6, <3>1
  <2>2. f = [i \in 0 .. n |-> f[i]]
    OBVIOUS
  <2>3. \A i \in 0 .. n : i = 0 \/ i \in 1 .. n
    BY <1>1
  <2> QED
    BY <1>6, <2>1, <2>2, <2>3
<1> HIDE DEF Def
<1>8. Def(g)
  BY <1>7
<1> HIDE DEF g
<1>9. g[0] = x /\ \A i \in 1 .. n : g[i] = Component(g[i - 1], rel[i])
  <2>1. 0 \in 0 .. n /\ \A i \in 1 .. n : i \in 0 .. n /\ i # 0
    BY <1>1
  <2> QED
    BY <1>8, <2>1 DEF Def
<1>10. g \in [0 .. n -> Paths]
  <2> DEFINE S == {i \in Nat : i <= n => g[i] \in Paths}
  <2>1. 0 \in S
    BY <1>2, <1>9
  <2>2. ASSUME NEW i \in S PROVE i + 1 \in S
    <3>1. SUFFICES ASSUME i + 1 <= n PROVE g[i + 1] \in Paths
      OBVIOUS
    <3>2. i + 1 \in 1 .. n /\ (i + 1) - 1 = i /\ g[i] \in Paths
      BY <1>1, <3>1
    <3>3. rel[i + 1] \in Text
      BY <1>1, <3>2
    <3> QED
      BY <1>9, <3>2, <3>3, ComponentKeeps
  <2>3. S \in SUBSET Nat
    OBVIOUS
  <2> HIDE DEF S
  <2>4. S = Nat
    BY <2>1, <2>2, <2>3, NatSet
  <2>5. \A i \in 0 .. n : g[i] \in Paths
    BY <1>1, <2>4 DEF S
  <2>6. g = [i \in 0 .. n |-> g[i]]
    BY <1>8 DEF Def
  <2> QED
    BY <2>5, <2>6
<1> QED
  BY <1>4, <1>9, <1>10 DEF n, x

LEMMA ParseIsAbsolute ==
    ASSUME NEW abs \in Paths, NEW rel \in Paths, IsAbsolute(abs)
    PROVE  parse_path(abs, rel) \in Paths /\ IsAbsolute(parse_path(abs, rel))
<1>1. PICK g \in [0 .. Len(rel) -> Paths] :
              /\ g[0] = Trim(abs)
              /\ \A i \in 1 .. Len(rel) : g[i] = Component(g[i - 1], rel[i])
              /\ parse_path(abs, rel) = IF Len(g[Len(rel)]) = 1
                                        THEN Append(g[Len(rel)], <<>>) ELSE g[Len(rel)]
  BY ParseRuns
<1> DEFINE n == Len(rel)
           S == {i \in Nat : i <= n => Rooted(g[i])}
<1>2. n \in Nat /\ \A i \in 1 .. n : rel[i] \in Text
  BY LenProperties, ElementOfSeq DEF Paths
<1>3. 0 \in S
  BY <1>1, TrimKeeps
<1>4. ASSUME NEW i \in S PROVE i + 1 \in S
  <2>1. SUFFICES ASSUME i + 1 <= n PROVE Rooted(g[i + 1])
    OBVIOUS
  <2>2. i + 1 \in 1 .. n /\ (i + 1) - 1 = i /\ Rooted(g[i]) /\ i \in 0 .. n
    BY <1>2, <2>1
  <2>3. rel[i + 1] \in Text /\ g[i] \in Paths
    BY <1>2, <2>2
  <2>4. Rooted(Component(g[i], rel[i + 1]))
    BY <2>2, <2>3, ComponentKeeps
  <2> QED
    BY <1>1, <2>2, <2>4
<1>5. S \in SUBSET Nat
  OBVIOUS
<1> HIDE DEF S
<1>6. Rooted(g[n])
  <2>1. S = Nat
    BY <1>3, <1>4, <1>5, NatSet
  <2> QED
    BY <1>2, <2>1 DEF S
<1>7. PICK p : p = g[n]
  OBVIOUS
<1>8. /\ p \in Seq(Text) /\ p[1] = <<Drive>> /\ Len(p) \in Nat /\ Len(p) >= 1
      /\ parse_path(abs, rel) = IF Len(p) = 1 THEN Append(p, <<>>) ELSE p
  BY <1>1, <1>6, <1>7, FrontOf DEF Rooted, Paths
<1>9. /\ Append(p, <<>>) \in Seq(Text) /\ Len(Append(p, <<>>)) = Len(p) + 1
      /\ Append(p, <<>>)[1] = p[1]
  <2>1. <<>> \in Text
    BY PathFacts
  <2> DEFINE e == <<>>
  <2> HIDE DEF e
  <2>2. e \in Text
    BY <2>1 DEF e
  <2>3. /\ Append(p, e) \in Seq(Text) /\ Len(Append(p, e)) = Len(p) + 1
        /\ \A i \in 1 .. Len(p) : Append(p, e)[i] = p[i]
    BY <1>8, <2>2, AppendProperties
  <2> QED
    BY <1>8, <2>3 DEF e
<1>10. CASE Len(p) = 1
  <2>1. parse_path(abs, rel) = Append(p, <<>>)
    BY <1>8, <1>10
  <2> QED
    BY <1>8, <1>9, <1>10, <2>1 DEF IsAbsolute, Paths
<1>11. CASE Len(p) # 1
  <2>1. parse_path(abs, rel) = p /\ Len(p) > 1
    BY <1>8, <1>11
  <2> QED
    BY <1>8, <2>1 DEF IsAbsolute, Paths
<1> QED
  BY <1>10, <1>11

LEMMA SplitType ==
    ASSUME NEW s \in Text
    PROVE  Split(s) \in Paths /\ Len(Split(s)) \in Nat \ {0}
<1> DEFINE n == Len(s)
           S == {0, n + 1} \cup {i \in DOMAIN s : s[i] = Separator}
           cuts == InOrder(S)
           m == Cardinality(S)
           part(k) == SubSeq(s, cuts[k] + 1, cuts[k + 1] - 1)
<1>1. n \in Nat /\ n + 1 \in Nat /\ DOMAIN s = 1 .. n
  BY LenProperties DEF Text
<1>2. S \in SUBSET (0 .. n + 1)
  BY <1>1
<1>3. m >= 2
  <2>1. Cardinality({0} \cup {n + 1}) = 2
    <3>0. n + 1 \notin {0}
      BY <1>1
    <3>1. IsFiniteSet({0}) /\ Cardinality({0}) = 1 /\ n + 1 \notin {0}
      BY <3>0, FS_Singleton
    <3>2. Cardinality({0} \cup {n + 1}) = Cardinality({0}) + 1
      BY <3>1, FS_AddElement
    <3> QED
      BY <3>1, <3>2
  <2>2. {0} \cup {n + 1} \subseteq S
    OBVIOUS
  <2> HIDE DEF S, n
  <2>3. IsFiniteSet(S)
    <3>1. 0 \in Int /\ n + 1 \in Int
      BY <1>1
    <3>2. IsFiniteSet(0 .. n + 1)
      BY <3>1, FS_Interval
    <3> QED
      BY <1>2, <3>2, FS_Subset
  <2>4. Cardinality({0} \cup {n + 1}) <= m
    BY <2>2, <2>3, FS_Subset
  <2> QED
    BY <2>1, <2>4
<1>4. /\ m \in Nat /\ cuts \in [1 .. m -> S] /\ Len(cuts) = m
  <2> HIDE DEF S, n
  <2> QED
    BY <1>1, <1>2, InOrderLists
<1>5. Split(s) = [k \in 1 .. Len(cuts) - 1 |-> part(k)]
  BY DEF Split
<1>6. ASSUME NEW k \in 1 .. m - 1 PROVE part(k) \in Text
  <2>1. k \in 1 .. m /\ k + 1 \in 1 .. m
    BY <1>4
  <2>2. cuts[k] \in 0 .. n + 1 /\ cuts[k + 1] \in 0 .. n + 1
    BY <1>2, <1>4, <2>1
  <2> DEFINE a == cuts[k] + 1
             b == cuts[k + 1] - 1
  <2>3. a \in Nat \ {0} /\ b \in Int /\ b <= n
    BY <1>1, <2>2
  <2> HIDE DEF a, b, cuts
  <2>4. SubSeq(s, a, b) \in Text
    BY <2>3, PartOfText
  <2> QED
    BY <2>4 DEF a, b
<1> HIDE DEF part, cuts, m, S, n
<1>7. m - 1 \in Nat \ {0} /\ Split(s) \in [1 .. m - 1 -> Text]
  BY <1>3, <1>4, <1>5, <1>6
<1>8. PICK q : q = m - 1
  OBVIOUS
<1>9. q \in Nat \ {0} /\ Split(s) \in [1 .. q -> Text]
  BY <1>7, <1>8
<1>10. Split(s) \in Seq(Text)
  BY <1>9, SeqDef
<1>11. Len(Split(s)) = q
  BY <1>9, <1>10, LenProperties
<1> QED
  BY <1>9, <1>10, <1>11 DEF Paths

(* The working directory is an absolute path and the prompt the same,      *)
(* unless there is no room for it, and then possibly empty.                *)
DirsInv ==
    /\ workingDirectory \in Paths /\ IsAbsolute(workingDirectory)
    /\ directory \in Paths
    /\ directory = <<>> \/ IsAbsolute(directory)
    /\ echo_on \in BOOLEAN /\ PromptIsTrue

LEMMA InitDirs == ASSUME Init PROVE DirsInv
<1>1. PICK d : d = <<Drive>>
  OBVIOUS
<1>2. d \in Text /\ <<>> \in Text
  BY <1>1, PathFacts
<1>3. PICK e : e = <<>>
  OBVIOUS
<1>4. <<d, e>> \in Seq(Text) /\ Len(<<d, e>>) = 2 /\ <<d, e>>[1] = d
  BY <1>2, <1>3
<1>5. workingDirectory = <<d, e>> /\ directory = <<d, e>> /\ echo_on = TRUE
  BY <1>1, <1>3 DEF Init, RootPath
<1> HIDE <1>1
<1>6. IsAbsolute(<<d, e>>)
  BY <1>1, <1>4 DEF IsAbsolute
<1> QED
  BY <1>4, <1>5, <1>6 DEF DirsInv, Paths, PromptIsTrue

(* What cd goes to is an absolute path. *)
LEMMA TargetIsPath ==
    ASSUME HandlesInv, DirsInv, AtCommand("cd")
    PROVE  Typed.argument \in Text /\ Target \in Paths /\ IsAbsolute(Target)
<1>1. Typed.argument \in Text
  <2>1. pc = "special" /\ it <= Len(program_vector)
    BY DEF AtCommand
  <2>2. it \in 1 .. Len(program_vector) /\ program_vector \in Seq(Entry)
    BY <2>1, LenProperties DEF HandlesInv, Loops, Closing, Types
  <2>3. program_vector[it] \in Entry
    BY <2>2, ElementOfSeq
  <2> QED
    BY <2>3 DEF Typed, Entry
<1>2. PICK rel : rel = Split(Typed.argument)
  OBVIOUS
<1>3. rel \in Paths
  BY <1>1, <1>2, SplitType
<1>4. /\ parse_path(workingDirectory, rel) \in Paths
      /\ IsAbsolute(parse_path(workingDirectory, rel))
  BY <1>3, ParseIsAbsolute DEF DirsInv
<1>5. Target = IF IsAbsolute(rel) THEN rel ELSE parse_path(workingDirectory, rel)
  BY <1>2 DEF Target, resolvePath
<1> QED
  BY <1>1, <1>3, <1>4, <1>5

LEMMA StepKeepsDirs == ASSUME HandlesInv, DirsInv, [Next]_vars PROVE DirsInv'
<1>1. CASE UNCHANGED dirVars
  BY <1>1 DEF dirVars, DirsInv, PromptIsTrue
<1>2. CASE Echo
  <2>1. UNCHANGED <<workingDirectory, directory>> /\ echo_on' \in BOOLEAN
    BY <1>2 DEF Echo, DirsInv
  <2> QED
    BY <2>1 DEF DirsInv, PromptIsTrue
<1>3. CASE ChangeDirectory
  <2>1. AtCommand("cd") /\ UNCHANGED echo_on
    BY <1>3 DEF ChangeDirectory
  <2>2. PICK goal : goal = Target
    OBVIOUS
  <2>3. goal \in Paths /\ IsAbsolute(goal)
    BY <2>1, <2>2, TargetIsPath
  <2>4. \/ UNCHANGED <<workingDirectory, directory>>
        \/ workingDirectory' = goal /\ directory' = GetWorkingDirectory(goal)
    BY <1>3, <2>2 DEF ChangeDirectory
  <2>5. CASE UNCHANGED <<workingDirectory, directory>>
    BY <2>1, <2>5 DEF DirsInv, PromptIsTrue
  <2>6. CASE workingDirectory' = goal /\ directory' = GetWorkingDirectory(goal)
    <3>1. Len(goal) \in Nat /\ BufferDepth \in Nat
      BY <2>3, ShellAssumption, LenProperties DEF Paths
    <3>2. Len(goal) <= BufferDepth => GetWorkingDirectory(goal) = goal
      BY <3>1 DEF GetWorkingDirectory, NoRoomForEnd
    <3>3. GetWorkingDirectory(goal) \in {<<>>, directory, goal} /\ <<>> \in Paths
      BY EmptySeq DEF GetWorkingDirectory, Paths
    <3> QED
      BY <2>1, <2>3, <2>6, <3>2, <3>3 DEF DirsInv, PromptIsTrue
  <2> QED
    BY <2>4, <2>5, <2>6
<1>4. CASE StrcpyEndsSystem
  <2>1. AtCommand("cd") /\ workingDirectory' = Target /\ UNCHANGED <<directory, echo_on>>
    BY <1>4 DEF StrcpyEndsSystem
  <2>2. Target \in Paths /\ IsAbsolute(Target)
    BY <2>1, TargetIsPath
  <2>3. ~(Len(Target) <= BufferDepth)
    <3>1. Len(Target) = BufferDepth + 1 /\ BufferDepth \in Nat
      BY <1>4, ShellAssumption DEF StrcpyEndsSystem, NoRoomForEnd
    <3> QED
      BY <3>1
  <2> QED
    BY <2>1, <2>2, <2>3 DEF DirsInv, PromptIsTrue
<1>5. [Next]_vars => UNCHANGED dirVars \/ Echo \/ ChangeDirectory \/ StrcpyEndsSystem
  BY GivenUp DEF Next, ShellStep, vars, dirVars, ReadLine, Leave, Exit, NotSpecial, SpecialDone,
         Execute, CreatePipe, PipesCreated, SkipSpecial, SkipFile, OpenFails, PopsTooMuch,
         CreateProcess, AllStarted, WaitFor, CloseEnd, EraseProgram, ExecuteReturns, Same,
         ProgramOpens, ProgramCloses, ProgramEnds, Alone
<1> QED
  BY <1>1, <1>2, <1>3, <1>4, <1>5

ShellInv == HandlesInv /\ DirsInv

THEOREM ShellInvHolds == Spec => []ShellInv
<1>1. Init => ShellInv
  BY InitHandles, InitDirs DEF ShellInv
<1>2. ShellInv /\ [Next]_vars => ShellInv'
  BY StepKeepsHandles, StepKeepsDirs DEF ShellInv
<1> QED
  BY <1>1, <1>2, PTL DEF Spec

(* The numbers of the table are given out again, but whatever is typed a   *)
(* program that runs finds behind its handles what they were when it got   *)
(* them.                                                                   *)
THEOREM RunningKeepsHandlesHolds == Spec => []RunningKeepsHandles
<1>1. ShellInv => RunningKeepsHandles
  <2>1. ASSUME ShellInv PROVE TypeOK
    <3>1. Types /\ Loops /\ Active /\ DirsInv
      BY <2>1 DEF ShellInv, HandlesInv
    <3>2. Len(program_vector) \in Nat
      BY <3>1, LenProperties DEF Types
    <3>3. it \in 0 .. Len(program_vector) + 1 \/ pc \notin {"special", "newline", "pipes", "start"}
      BY <3>1, <3>2 DEF Loops, Closing
    <3> QED
      BY <3>1, <3>3 DEF TypeOK, NotReturned, Types, Phases, Active, DirsInv, Table
  <2>2. ASSUME ShellInv PROVE \A n \in DOMAIN programs : Running(n) =>
          /\ ObjectOf(openedHandles, programs[n].in) = programs[n].from
          /\ ObjectOf(openedHandles, programs[n].out) = programs[n].to
          /\ HasFile(n) =>
                ObjectOf(openedHandles, programs[n].own) = <<"own", n>>
    BY <2>2 DEF ShellInv, HandlesInv, Behind
  <2> QED
    BY <2>1, <2>2 DEF RunningKeepsHandles
<1> QED
  BY <1>1, ShellInvHolds, PTL

(* The prompt shows where relative names are looked up, unless there is no *)
(* room for it.                                                            *)
THEOREM PromptIsTrueHolds == Spec => []PromptIsTrue
<1>1. ShellInv => PromptIsTrue
  BY DEF ShellInv, DirsInv
<1> QED
  BY <1>1, ShellInvHolds, PTL

-----------------------------------------------------------------------------
(* cd and the walk through the folders *)

LEMMA WalkKeeps ==
    ASSUME NEW w \in Paths, NEW c \in Text
    PROVE  Walk(w, c) \in Paths /\ (Walk(w, c) # Lost => Walk(w, c) \in Tree \cup {<<>>})
<1>1. Append(w, c) \in Paths
  BY AppendProperties DEF Paths
<1>2. w # <<>> => Front(w) \in Paths
  BY FrontOf DEF Paths
<1>3. Lost \in Paths /\ <<>> \in Paths
  BY PathFacts DEF Lost
<1> QED
  BY <1>1, <1>2, <1>3 DEF Walk

LEMMA WalkRuns ==
    ASSUME NEW x \in Paths, NEW rel \in Paths
    PROVE  \E g \in [0 .. Len(rel) -> Paths] :
              /\ g[0] = x /\ \A i \in 1 .. Len(rel) : g[i] = Walk(g[i - 1], rel[i])
              /\ Walked(x, rel) = g[Len(rel)]
<1> DEFINE n == Len(rel)
           D == [i \in 1 .. n |-> [p \in Paths |-> Walk(p, rel[i])]]
           Def(k) == k = [i \in 0 .. n |-> IF i = 0 THEN x ELSE Walk(k[i - 1], rel[i])]
           g == CHOOSE k : Def(k)
<1>1. n \in Nat /\ \A i \in 1 .. n : rel[i] \in Text
  BY LenProperties, ElementOfSeq DEF Paths
<1>3. D \in [1 .. n -> [Paths -> Paths]]
  BY <1>1, WalkKeeps
<1>4. Walked(x, rel) = g[n]
  BY DEF Walked
<1> HIDE DEF n
<1>5. \A i \in 1 .. n, p \in Paths : D[i][p] = Walk(p, rel[i])
  OBVIOUS
<1> HIDE DEF D
<1>6. PICK f \in [0 .. n -> Paths] : f[0] = x /\ \A i \in 1 .. n : f[i] = D[i][f[i - 1]]
  <2>1. Step(n, Paths, x, D)
    BY <1>3 DEF Step
  <2>2. PICK f \in [0 .. n -> Paths] : Along(n, x, D, f)
    BY <1>1, <2>1, RunsAlong
  <2> QED
    BY <2>2 DEF Along
<1>7. Def(f)
  <2>1. \A i \in 1 .. n : f[i] = Walk(f[i - 1], rel[i])
    <3> TAKE i \in 1 .. n
    <3>1. i - 1 \in 0 .. n
      BY <1>1
    <3> QED
      BY <1>5, <1>6, <3>1
  <2>2. f = [i \in 0 .. n |-> f[i]]
    OBVIOUS
  <2>3. \A i \in 0 .. n : i = 0 \/ i \in 1 .. n
    BY <1>1
  <2> QED
    BY <1>6, <2>1, <2>2, <2>3
<1> HIDE DEF Def
<1>8. Def(g)
  BY <1>7
<1> HIDE DEF g
<1>9. g[0] = x /\ \A i \in 1 .. n : g[i] = Walk(g[i - 1], rel[i])
  <2>1. 0 \in 0 .. n /\ \A i \in 1 .. n : i \in 0 .. n /\ i # 0
    BY <1>1
  <2> QED
    BY <1>8, <2>1 DEF Def
<1>10. g \in [0 .. n -> Paths]
  <2> DEFINE S == {i \in Nat : i <= n => g[i] \in Paths}
  <2>1. 0 \in S
    BY <1>9
  <2>2. ASSUME NEW i \in S PROVE i + 1 \in S
    <3>1. SUFFICES ASSUME i + 1 <= n PROVE g[i + 1] \in Paths
      OBVIOUS
    <3>2. i + 1 \in 1 .. n /\ (i + 1) - 1 = i /\ g[i] \in Paths
      BY <1>1, <3>1
    <3>3. rel[i + 1] \in Text
      BY <1>1, <3>2
    <3> QED
      BY <1>9, <3>2, <3>3, WalkKeeps
  <2>3. S \in SUBSET Nat
    OBVIOUS
  <2> HIDE DEF S
  <2>4. S = Nat
    BY <2>1, <2>2, <2>3, NatSet
  <2>5. \A i \in 0 .. n : g[i] \in Paths
    BY <1>1, <2>4 DEF S
  <2>6. g = [i \in 0 .. n |-> g[i]]
    BY <1>8 DEF Def
  <2> QED
    BY <2>5, <2>6
<1> QED
  BY <1>4, <1>9, <1>10 DEF n

(* w is p without the drive. *)
Matches(p, w) ==
    /\ p \in Paths /\ w \in Paths /\ p # <<>>
    /\ Len(w) = Len(p) - 1 /\ \A i \in 1 .. Len(w) : w[i] = p[i + 1]

LEMMA MatchIsTail ==
    ASSUME NEW p, NEW w, Matches(p, w) PROVE Tail(p) = w
<1>1. /\ Tail(p) \in Seq(Text) /\ Len(Tail(p)) = Len(p) - 1
      /\ \A i \in 1 .. Len(Tail(p)) : Tail(p)[i] = p[i + 1]
  BY HeadTailProperties DEF Matches, Paths
<1> QED
  BY <1>1, SeqEqual DEF Matches, Paths

LEMMA TailMatches ==
    ASSUME NEW p \in Paths, p # <<>> PROVE Matches(p, Tail(p))
BY HeadTailProperties DEF Matches, Paths

(* The loop of parse_path keeps step with the walk. *)
LEMMA InStep ==
    ASSUME NEW p, NEW w, Matches(p, w), NEW c \in Text, Walk(w, c) # Lost
    PROVE  Matches(Component(p, c), Walk(w, c))
<1>1. /\ p \in Seq(Text) /\ p \in Paths /\ p # <<>> /\ w \in Seq(Text) /\ w \in Paths
      /\ Len(w) = Len(p) - 1 /\ \A i \in 1 .. Len(w) : w[i] = p[i + 1]
      /\ Len(p) \in Nat \ {0} /\ Len(w) \in Nat
  BY FrontOf, LenProperties DEF Matches, Paths
<1>2. Component(p, c) \in Paths /\ Walk(w, c) \in Paths
  BY <1>1, ComponentKeeps, WalkKeeps
<1>3. Walk(w, c) = IF c = Up THEN (IF w = <<>> THEN <<>> ELSE Front(w))
                   ELSE IF c = Here THEN w ELSE Append(w, c)
  BY DEF Walk
<1>4. /\ Len(Front(p)) = Len(p) - 1 /\ \A i \in 1 .. Len(p) - 1 : Front(p)[i] = p[i]
      /\ Front(p) \in Seq(Text)
  BY <1>1, FrontOf
<1>5. Len(<<>>) = 0
  BY EmptySeq
<1>6. CASE c = Up /\ w = <<>>
  <2>1. Len(p) = 1 /\ Len(Front(p)) = 0
    BY <1>1, <1>4, <1>5, <1>6
  <2>2. Front(p) = <<>>
    BY <1>4, <2>1, EmptySeq
  <2>3. Component(p, c) = <<<<Drive>>>> /\ Walk(w, c) = <<>>
    BY <1>3, <1>6, <2>2 DEF Component
  <2>4. <<<<Drive>>>> # <<>>
    BY <1>5, PathFacts
  <2> QED
    BY <1>2, <1>5, <2>3, <2>4, PathFacts DEF Matches
<1>7. CASE c = Up /\ w # <<>>
  <2>1. /\ Len(Front(w)) = Len(w) - 1 /\ \A i \in 1 .. Len(w) - 1 : Front(w)[i] = w[i]
        /\ Len(w) \in Nat \ {0}
    BY <1>1, <1>7, FrontOf
  <2>2. Front(p) # <<>>
    BY <1>1, <1>4, <1>5, <2>1
  <2>3. Component(p, c) = Front(p) /\ Walk(w, c) = Front(w)
    BY <1>3, <1>7, <2>2 DEF Component
  <2>4. ASSUME NEW i \in 1 .. Len(w) - 1 PROVE Front(w)[i] = Front(p)[i + 1]
    <3>1. i \in 1 .. Len(w) /\ i + 1 \in 1 .. Len(p) - 1
      BY <1>1, <2>1
    <3> QED
      BY <1>1, <1>4, <2>1, <3>1
  <2> QED
    BY <1>1, <1>2, <1>4, <2>1, <2>2, <2>3, <2>4 DEF Matches
<1>8. CASE c # Up /\ c = Here
  <2>1. Component(p, c) = p /\ Walk(w, c) = w
    BY <1>1, <1>3, <1>8 DEF Component
  <2> QED
    BY <2>1
<1>9. CASE c # Up /\ c # Here
  <2>1. /\ Len(Append(p, c)) = Len(p) + 1 /\ \A i \in 1 .. Len(p) : Append(p, c)[i] = p[i]
        /\ Append(p, c)[Len(p) + 1] = c
        /\ Len(Append(w, c)) = Len(w) + 1 /\ \A i \in 1 .. Len(w) : Append(w, c)[i] = w[i]
        /\ Append(w, c)[Len(w) + 1] = c
    BY <1>1, AppendProperties
  <2>2. Append(p, c) # <<>>
    BY <1>1, <1>5, <2>1
  <2>3. Component(p, c) = Append(p, c) /\ Walk(w, c) = Append(w, c)
    BY <1>3, <1>9, <2>2 DEF Component
  <2>4. ASSUME NEW i \in 1 .. Len(w) + 1 PROVE Append(w, c)[i] = Append(p, c)[i + 1]
    <3>1. CASE i = Len(w) + 1
      BY <1>1, <2>1, <3>1
    <3>2. CASE i # Len(w) + 1
      <4>1. i \in 1 .. Len(w) /\ i + 1 \in 1 .. Len(p)
        BY <1>1, <3>2
      <4> QED
        BY <1>1, <2>1, <4>1
    <3> QED
      BY <3>1, <3>2
  <2> QED
    BY <1>1, <1>2, <2>1, <2>2, <2>3, <2>4 DEF Matches
<1> QED
  BY <1>6, <1>7, <1>8, <1>9

LEMMA TrimAppend ==
    ASSUME NEW p \in Paths PROVE Trim(Append(p, <<>>)) = p
<1>1. PICK e : e = <<>>
  OBVIOUS
<1>2. e \in Text /\ p \in Seq(Text) /\ Len(p) \in Nat
  BY <1>1, PathFacts, LenProperties DEF Paths
<1>3. /\ Append(p, e) \in Seq(Text) /\ Len(Append(p, e)) = Len(p) + 1
      /\ \A i \in 1 .. Len(p) : Append(p, e)[i] = p[i]
      /\ Append(p, e)[Len(p) + 1] = e
  BY <1>2, AppendProperties
<1>4. Append(p, e) # <<>>
  BY <1>2, <1>3, EmptySeq
<1>5. PICK s : s = Append(p, e)
  OBVIOUS
<1>6. /\ Front(s) \in Seq(Text) /\ Len(Front(s)) = Len(s) - 1
      /\ \A i \in 1 .. Len(s) - 1 : Front(s)[i] = s[i]
      /\ Last(s) = s[Len(s)]
  BY <1>3, <1>4, <1>5, FrontOf
<1>7. Front(s) = p
  <2>1. Len(Front(s)) = Len(p) /\ \A i \in 1 .. Len(Front(s)) : Front(s)[i] = p[i]
    BY <1>2, <1>3, <1>5, <1>6
  <2> QED
    BY <1>2, <1>6, <2>1, SeqEqual
<1>8. Last(s) = e
  BY <1>3, <1>5, <1>6
<1> QED
  BY <1>1, <1>4, <1>5, <1>7, <1>8 DEF Trim

(* Where the walk ends, what parse_path returns lies, without its drive.   *)
LEMMA CdGoes ==
    ASSUME NEW wd \in Paths, IsAbsolute(wd), NEW rel \in Paths, rel # <<>>,
           NEW end, end = Walked(Names(wd), Trim(rel)), end # Lost
    PROVE  /\ Tail(Trim(parse_path(wd, rel))) = end
           /\ end \in Tree \cup {<<>>} \/ end = Names(wd)
<1> DEFINE n == Len(rel)
           r == Trim(rel)
           k == Len(r)
           x == Trim(wd)
           target == parse_path(wd, rel)
<1>1. /\ n \in Nat \ {0} /\ rel \in Seq(Text) /\ \A i \in 1 .. n : rel[i] \in Text
      /\ Len(Front(rel)) = n - 1 /\ \A i \in 1 .. n - 1 : Front(rel)[i] = rel[i]
      /\ Front(rel) \in Seq(Text) /\ Last(rel) = rel[n]
  BY FrontOf, LenProperties, ElementOfSeq DEF Paths
<1>2. /\ Last(rel) = <<>> => r = Front(rel) /\ k = n - 1
      /\ Last(rel) # <<>> => r = rel /\ k = n
      /\ r \in Paths
  BY <1>1, TrimKeeps DEF Trim
<1>3. k \in Nat /\ k <= n /\ \A i \in 1 .. k : r[i] = rel[i]
  BY <1>1, <1>2
<1>4. x \in Paths /\ x # <<>> /\ Matches(x, Names(wd)) /\ Names(wd) \in Paths
  <2>1. x \in Paths /\ x # <<>>
    BY TrimKeeps DEF Rooted
  <2>2. Matches(x, Names(wd))
    BY <2>1, TailMatches DEF Names
  <2> QED
    BY <2>1, <2>2 DEF Matches
<1>5. PICK g \in [0 .. n -> Paths] :
         /\ g[0] = x /\ \A i \in 1 .. n : g[i] = Component(g[i - 1], rel[i])
         /\ target = IF Len(g[n]) = 1 THEN Append(g[n], <<>>) ELSE g[n]
  BY ParseRuns
<1>6. PICK w \in [0 .. k -> Paths] :
         /\ w[0] = Names(wd) /\ \A i \in 1 .. k : w[i] = Walk(w[i - 1], r[i])
         /\ end = w[k]
  BY <1>2, <1>4, WalkRuns
<1> HIDE DEF n, r, k, x, target
<1>7. w[k] # Lost /\ Matches(g[k], end)
  <2> DEFINE S == {i \in Nat : i <= k /\ w[i] # Lost => Matches(g[i], w[i])}
  <2>1. 0 \in S
    BY <1>4, <1>5, <1>6
  <2>2. ASSUME NEW i \in S PROVE i + 1 \in S
    <3>1. SUFFICES ASSUME i + 1 <= k, w[i + 1] # Lost PROVE Matches(g[i + 1], w[i + 1])
      OBVIOUS
    <3>2. /\ i + 1 \in 1 .. k /\ i + 1 \in 1 .. n /\ (i + 1) - 1 = i /\ i \in Nat /\ i <= k
      BY <1>1, <1>3, <3>1
    <3>3. w[i + 1] = Walk(w[i], rel[i + 1]) /\ g[i + 1] = Component(g[i], rel[i + 1])
      BY <1>3, <1>5, <1>6, <3>2
    <3>4. w[i] # Lost
      BY <3>1, <3>3 DEF Walk
    <3>5. Matches(g[i], w[i])
      BY <3>2, <3>4
    <3>6. rel[i + 1] \in Text
      BY <1>1, <3>2
    <3> QED
      BY <3>1, <3>3, <3>5, <3>6, InStep
  <2>3. S \in SUBSET Nat
    OBVIOUS
  <2> HIDE DEF S
  <2>4. S = Nat
    BY <2>1, <2>2, <2>3, NatSet
  <2> QED
    BY <1>3, <1>6, <2>4 DEF S
<1>8. PICK p : p = g[k]
  OBVIOUS
<1>9. /\ Matches(p, end) /\ p \in Paths /\ p \in Seq(Text) /\ p # <<>> /\ Tail(p) = end
      /\ Len(p) \in Nat \ {0} /\ end \in Seq(Text) /\ Len(end) = Len(p) - 1
      /\ \A i \in 1 .. Len(end) : end[i] = p[i + 1]
      /\ Last(p) = p[Len(p)]
  BY <1>7, <1>8, MatchIsTail, FrontOf DEF Matches, Paths
<1>10. k = 0 => end = Names(wd)
  BY <1>6
<1>11. k # 0 => end \in Tree \cup {<<>>}
  <2>1. SUFFICES ASSUME k # 0 PROVE w[k] \in Tree \cup {<<>>}
    BY <1>6
  <2>2. k \in 1 .. k /\ k - 1 \in 0 .. k /\ k \in 1 .. n
    BY <1>1, <1>3, <2>1
  <2>3. w[k] = Walk(w[k - 1], rel[k]) /\ w[k - 1] \in Paths /\ rel[k] \in Text
    BY <1>1, <1>3, <1>6, <2>2
  <2> QED
    BY <1>7, <2>3, WalkKeeps
<1>12. CASE Last(rel) # <<>>
  <2>1. k = n /\ end \in Tree \cup {<<>>} /\ target = IF Len(p) = 1 THEN Append(p, <<>>) ELSE p
    BY <1>1, <1>2, <1>5, <1>8, <1>11, <1>12
  <2>2. CASE Len(p) = 1
    BY <1>9, <1>10, <1>11, <2>1, <2>2, TrimAppend DEF target
  <2>3. CASE Len(p) # 1
    <3>1. Len(end) \in 1 .. Len(end) /\ Len(end) + 1 = Len(p) /\ Len(end) # 0
      BY <1>9, <2>3
    <3>2. end # <<>>
      BY <3>1, EmptySeq
    <3>3. end \in Seq(Seq(STRING) \ {<<>>})
      BY <2>1, <3>2, ShellAssumption
    <3>4. end[Len(end)] # <<>>
      BY <3>1, <3>3, ElementOfSeq
    <3>5. Last(p) # <<>>
      BY <1>9, <3>1, <3>4
    <3>6. Trim(p) = p /\ target = p
      BY <2>1, <2>3, <3>5 DEF Trim
    <3> QED
      BY <1>9, <1>10, <1>11, <3>6 DEF target
  <2> QED
    BY <2>2, <2>3
<1>13. CASE Last(rel) = <<>>
  <2>1. k = n - 1 /\ n \in 1 .. n /\ rel[n] = <<>>
    BY <1>1, <1>2, <1>13
  <2>2. g[n] = Component(p, <<>>)
    BY <1>5, <1>8, <2>1
  <2>3. <<>> # Up /\ <<>> # Here
    BY DEF Up, Here
  <2>4. PICK e : e = <<>>
    OBVIOUS
  <2>5. e \in Text
    BY <2>4, PathFacts
  <2>6. Append(p, e) \in Seq(Text) /\ Len(Append(p, e)) = Len(p) + 1
    BY <1>9, <2>5, AppendProperties
  <2>7. Append(p, e) # <<>>
    BY <1>9, <2>6, EmptySeq
  <2>8. g[n] = Append(p, <<>>) /\ Len(g[n]) # 1
    BY <1>9, <2>2, <2>3, <2>4, <2>6, <2>7 DEF Component
  <2>9. target = Append(p, <<>>)
    BY <1>5, <2>8
  <2>10. Trim(target) = p
    BY <1>9, <2>9, TrimAppend
  <2> QED
    BY <1>9, <1>10, <1>11, <2>10 DEF target
<1> QED
  BY <1>12, <1>13

(* cd goes where a walk through the folders goes that takes .. one up and  *)
(* stays at the root, whenever every step of that walk exists.             *)
THEOREM CdWalksHolds == Spec => CdWalks
<1> DEFINE rel == Split(Typed.argument)
           end == Walked(Names(workingDirectory), Trim(rel))
           Asked == AtCommand("cd") /\ Typed.argument # <<>> /\ ~IsAbsolute(rel)
           Goes == Asked => (end # Lost => Names(workingDirectory') = end)
<1>1. ASSUME ShellInv, Next PROVE Goes
  <2>1. SUFFICES ASSUME Asked, end # Lost PROVE Names(workingDirectory') = end
    OBVIOUS
  <2>2. AtCommand("cd") /\ pc = "special"
    BY <2>1 DEF AtCommand
  <2>3. Typed.argument \in Text /\ workingDirectory \in Paths /\ IsAbsolute(workingDirectory)
    BY <1>1, <2>2, TargetIsPath DEF ShellInv, DirsInv
  <2>4. rel \in Paths /\ Len(rel) # 0
    BY <2>3, SplitType
  <2>5. rel # <<>>
    BY <2>4, EmptySeq
  <2>6. Target = parse_path(workingDirectory, rel)
    BY <2>1 DEF Target, resolvePath
  <2>7. PICK r : r = rel
    OBVIOUS
  <2>8. PICK e : e = end
    OBVIOUS
  <2>9. Tail(Trim(Target)) = e /\ (e \in Tree \cup {<<>>} \/ e = Names(workingDirectory))
    <3> HIDE DEF rel
    <3> QED
      BY <2>1, <2>3, <2>4, <2>5, <2>6, <2>8, CdGoes
  <2>10. CASE ChangeDirectory
    <3>1. Typed.argument # <<>>
      BY <2>1
    <3>2. CASE Found
      <4>1. workingDirectory' = Target
        BY <2>10, <3>1, <3>2 DEF ChangeDirectory
      <4> QED
        BY <2>8, <2>9, <4>1 DEF Names
    <3>3. CASE ~Found
      <4>1. workingDirectory' = workingDirectory
        BY <2>10, <3>3 DEF ChangeDirectory
      <4>2. e = Names(workingDirectory)
        BY <2>9, <3>3 DEF Found
      <4> QED
        BY <2>8, <4>1, <4>2 DEF Names
    <3> QED
      BY <3>2, <3>3
  <2>15. CASE StrcpyEndsSystem
    <3>1. workingDirectory' = Target
      BY <2>15 DEF StrcpyEndsSystem
    <3> QED
      BY <2>8, <2>9, <3>1 DEF Names
  <2>11. \A m : ~Running(m)
    <3>1. active_handles = <<>> /\ Active
      BY <1>1, <2>2 DEF ShellInv, HandlesInv, Loops, Closing
    <3>2. DOMAIN active_handles = {}
      BY <3>1, EmptySeq
    <3> QED
      BY <3>1, <3>2 DEF Active, Running
  <2>12. ~Exit /\ ~Echo /\ ~NotSpecial /\ ~SpecialDone
    <3>1. it <= Len(program_vector) /\ it \in Nat /\ program_vector \in Seq(Entry)
      BY <1>1, <2>2 DEF ShellInv, HandlesInv, Types, AtCommand
    <3>2. ~(it > Len(program_vector))
      BY <3>1, LenProperties
    <3>3. Typed.command = <<"cd">>
      BY <2>2 DEF AtCommand
    <3>4. <<"cd">> # <<"exit">> /\ <<"cd">> # <<"echo">>
      OBVIOUS
    <3> QED
      BY <3>2, <3>3, <3>4 DEF Exit, Echo, NotSpecial, SpecialDone, AtCommand
  <2>13. ~ReadLine /\ ~Leave /\ ~Execute /\ ~CreatePipe /\ ~PipesCreated /\ ~SkipSpecial
         /\ ~SkipFile /\ ~OpenFails /\ ~PopsTooMuch /\ ~CreateProcess /\ ~AllStarted
         /\ ~WaitFor /\ ~CloseEnd /\ ~EraseProgram /\ ~ExecuteReturns
         /\ ~WaitOverlooks /\ ~WaitGarbled /\ ~CloseWaits
    BY <2>2 DEF WaitOverlooks, WaitGarbled, CloseWaits, ReadLine, Leave, Execute, CreatePipe,
       PipesWanted, PipesCreated, SkipSpecial,
         SkipFile, OpenFails, PopsTooMuch, CreateProcess, AllStarted, AtProgram, WaitFor,
         CloseEnd, EraseProgram, ExecuteReturns
  <2>14. \A m : ~ProgramOpens(m) /\ ~ProgramCloses(m) /\ ~ProgramEnds(m)
    BY <2>11 DEF ProgramOpens, ProgramCloses, ProgramEnds
  <2> QED
    BY <1>1, <2>10, <2>12, <2>13, <2>14, <2>15 DEF Next, ShellStep, GivesUp
<1>2. ASSUME ShellInv, [Next]_vars PROVE [Goes]_vars
  BY <1>1, <1>2
<1> HIDE DEF Goes
<1>3. Spec => [][Goes]_vars
  BY <1>2, ShellInvHolds, PTL DEF Spec
<1> QED
  BY <1>3 DEF CdWalks, Goes

-----------------------------------------------------------------------------
(* The stack of the pipes.  While the programs are started from the last   *)
(* to the first, r is the last entry in front of those that are wired: the *)
(* entries from it on are the files of the next program.  The stack holds  *)
(* both ends of every pipe up to r, less the read end that the program     *)
(* behind r took.                                                          *)

Whole(v)      == \A i \in DOMAIN v : v[i].command # <<>>
Joined(v, i)  == v[i + 1].pipe_in = v[i].pipe_out /\ v[i + 1].file = ~v[i].pipe_out
PipesTo(v, r) == Cardinality({i \in 1 .. r : v[i].pipe_out})
Bit(b)        == IF b THEN 1 ELSE 0
Ahead(v, i, r) == /\ r \in i .. Len(v) /\ \A j \in i + 1 .. r : v[j].file
                  /\ r < Len(v) => ~v[r + 1].file
Taken(v, r)   == r \in 1 .. Len(v) - 1 /\ v[r].pipe_out
Owed(v, r)    == 2 * PipesTo(v, r) - Bit(Taken(v, r))

LEMMA PipesCount ==
    ASSUME NEW v \in Seq(Entry)
    PROVE  /\ PipesTo(v, 0) = 0 /\ CountPipes(v) = PipesTo(v, Len(v))
           /\ \A i \in 0 .. Len(v) : PipesTo(v, i) \in Nat
           /\ \A i \in 1 .. Len(v) : PipesTo(v, i) = PipesTo(v, i - 1) + Bit(v[i].pipe_out)
           /\ \A i, j \in 0 .. Len(v) : i <= j => PipesTo(v, i) <= PipesTo(v, j)
<1> DEFINE S(r) == {i \in 1 .. r : v[i].pipe_out}
<1>1. Len(v) \in Nat /\ DOMAIN v = 1 .. Len(v)
  BY LenProperties
<1>2. ASSUME NEW i \in 0 .. Len(v) PROVE IsFiniteSet(S(i)) /\ Cardinality(S(i)) \in Nat
  <2>1. 1 \in Int /\ i \in Int /\ S(i) \subseteq 1 .. i
    BY <1>1
  <2>2. IsFiniteSet(1 .. i)
    BY <2>1, FS_Interval
  <2>3. IsFiniteSet(S(i))
    BY <2>1, <2>2, FS_Subset
  <2> QED
    BY <2>3, FS_CardinalityType
<1>3. PipesTo(v, 0) = 0
  <2>1. S(0) = {}
    OBVIOUS
  <2> QED
    BY <2>1, FS_EmptySet DEF PipesTo
<1>4. ASSUME NEW i \in 1 .. Len(v)
      PROVE  PipesTo(v, i) = PipesTo(v, i - 1) + Bit(v[i].pipe_out)
  <2>1. i - 1 \in 0 .. Len(v)
    BY <1>1
  <2>2. CASE v[i].pipe_out
    <3>1. S(i) = S(i - 1) \cup {i} /\ i \notin S(i - 1)
      BY <1>1, <2>2
    <3>2. Cardinality(S(i - 1) \cup {i}) = Cardinality(S(i - 1)) + 1
      BY <1>2, <2>1, <3>1, FS_AddElement
    <3> QED
      BY <2>2, <3>1, <3>2 DEF PipesTo, Bit
  <2>3. CASE ~v[i].pipe_out
    <3>1. S(i) = S(i - 1)
      BY <1>1, <2>3
    <3>2. PipesTo(v, i) = PipesTo(v, i - 1)
      BY <3>1 DEF PipesTo
    <3>3. PipesTo(v, i - 1) \in Nat
      BY <1>2, <2>1 DEF PipesTo
    <3> QED
      BY <2>3, <3>2, <3>3 DEF Bit
  <2> QED
    BY <2>2, <2>3
<1>5. ASSUME NEW i \in 0 .. Len(v), NEW j \in 0 .. Len(v), i <= j
      PROVE  PipesTo(v, i) <= PipesTo(v, j)
  <2>1. S(i) \subseteq S(j)
    BY <1>1, <1>5
  <2> QED
    BY <1>2, <2>1, FS_Subset DEF PipesTo
<1> QED
  BY <1>1, <1>2, <1>3, <1>4, <1>5 DEF PipesTo, CountPipes

LEMMA PipesSame ==
    ASSUME NEW v, NEW u, NEW r \in Nat,
           \A i \in 1 .. r : u[i].pipe_out = v[i].pipe_out
    PROVE  PipesTo(u, r) = PipesTo(v, r)
<1>1. {i \in 1 .. r : u[i].pipe_out} = {i \in 1 .. r : v[i].pipe_out}
  OBVIOUS
<1> QED
  BY <1>1 DEF PipesTo

LEMMA OneAhead ==
    ASSUME NEW v, Len(v) \in Nat, NEW i \in Nat, NEW r, NEW s, Ahead(v, i, r), Ahead(v, i, s)
    PROVE  r = s
<1>1. r \in Nat /\ s \in Nat /\ r >= i /\ s >= i /\ r <= Len(v) /\ s <= Len(v)
  BY DEF Ahead
<1>2. ~(r < s)
  <2>1. r < s => r + 1 \in i + 1 .. s /\ r < Len(v)
    BY <1>1
  <2> QED
    BY <2>1 DEF Ahead
<1>3. ~(s < r)
  <2>1. s < r => s + 1 \in i + 1 .. r /\ s < Len(v)
    BY <1>1
  <2> QED
    BY <2>1 DEF Ahead
<1> QED
  BY <1>1, <1>2, <1>3

(* A line u that differs from v in handles only. *)
AsBefore(u, v) ==
    /\ Len(u) = Len(v)
    /\ \A i \in 1 .. Len(v) :
          /\ u[i].command = v[i].command /\ u[i].file = v[i].file
          /\ u[i].pipe_in = v[i].pipe_in
          /\ u[i].redirection_in = v[i].redirection_in
          /\ u[i].redirection_out = v[i].redirection_out
          /\ HandledInShell(u[i]) = HandledInShell(v[i])

LEMMA CleanKeeps ==
    ASSUME NEW u \in Seq(Entry), NEW v \in Seq(Entry), AsBefore(u, v)
    PROVE  /\ Whole(u) = Whole(v) /\ DOMAIN u = DOMAIN v /\ Len(v) \in Nat
           /\ (v # <<>> => u[Len(v)].pipe_out = v[Len(v)].pipe_out) =>
                 (CleanLine(v) => CleanLine(u))
<1>1. /\ DOMAIN u = 1 .. Len(v) /\ DOMAIN v = 1 .. Len(v) /\ Len(v) \in Nat
      /\ Len(u) = Len(v)
  BY LenProperties DEF AsBefore
<1>2. Whole(u) = Whole(v)
  BY <1>1 DEF Whole, AsBefore
<1>3. ASSUME CleanLine(v), v # <<>> => u[Len(v)].pipe_out = v[Len(v)].pipe_out
      PROVE  CleanLine(u)
  <2>1. ASSUME NEW i \in DOMAIN u PROVE u[i].command # <<>> /\ PlainFile(u, i)
    <3>1. i \in DOMAIN v /\ (i > 1 => i - 1 \in 1 .. Len(v)) /\ i \in 1 .. Len(v)
      BY <1>1
    <3>2. v[i].command # <<>> /\ PlainFile(v, i)
      BY <1>3, <3>1 DEF CleanLine
    <3> QED
      BY <1>1, <3>1, <3>2 DEF PlainFile, AsBefore
  <2>2. ASSUME NEW i \in DOMAIN u, HandledInShell(u[i]) PROVE Len(u) = 1
    BY <1>1, <1>3, <2>2 DEF CleanLine, AsBefore
  <2>3. u # <<>> => ~Last(u).pipe_out /\ (Last(u).redirection_in => Last(u).file)
                    /\ ~Last(u).redirection_out
    <3>1. SUFFICES ASSUME u # <<>>
                   PROVE  ~Last(u).pipe_out /\ (Last(u).redirection_in => Last(u).file)
                          /\ ~Last(u).redirection_out
      OBVIOUS
    <3>2. Len(v) \in 1 .. Len(v) /\ v # <<>>
      BY <1>1, <3>1, EmptySeq
    <3>3. Last(u) = u[Len(v)] /\ Last(v) = v[Len(v)]
      BY <1>1 DEF Last
    <3> QED
      BY <1>3, <3>2, <3>3 DEF CleanLine, AsBefore
  <2> QED
    BY <2>1, <2>2, <2>3 DEF CleanLine
<1> QED
  BY <1>1, <1>2, <1>3

Between2(v) ==
    /\ v # <<>> => ~v[1].pipe_in /\ ~v[1].file
    /\ \A i \in 1 .. Len(v) - 1 :
          ~v[i].file => v[i + 1].file = (v[i].redirection_in \/ v[i].redirection_out)

(* What is left of the operators of the line in the entries: an entry that *)
(* was wired may have a pipe behind it that was behind its file.           *)
LineInv ==
    pc \in {"special", "newline", "pipes", "start"} =>
        /\ Whole(program_vector) =>
              /\ Between2(program_vector)
              /\ \A i \in 1 .. Len(program_vector) - 1 :
                    pc # "start" \/ i <= it \/ program_vector[i].file => Joined(program_vector, i)
        /\ clean => /\ CleanLine(program_vector)
                    /\ pc = "start" => index = it \/ Len(program_vector) = 1

StackInv ==
    /\ pc = "crashed" => ~Whole(program_vector)
    /\ pc = "pipes" => \E j \in 0 .. CountPipes(program_vector) : Len(pipes) = 2 * j
    /\ pc = "start" /\ Whole(program_vector) =>
          \E r : /\ Ahead(program_vector, it, r)
                 /\ Len(pipes) >= Owed(program_vector, r)
                 /\ clean => Len(pipes) = Owed(program_vector, r)

LEMMA CleanIsWhole == ASSUME NEW v, CleanLine(v) PROVE Whole(v)
BY DEF CleanLine, Whole

(* A program takes what the stack has for it, and no more. *)
LEMMA StackSuffices ==
    ASSUME HandlesInv, LineInv, AtProgram, Whole(program_vector),
           NEW r, Ahead(program_vector, it, r)
    PROVE  /\ it - 1 \in 0 .. Len(program_vector) /\ r \in it .. Len(program_vector)
           /\ Typed.pipe_in <=> Taken(program_vector, it - 1)
           /\ PipesTo(program_vector, it - 1) \in Nat
           /\ PipesTo(program_vector, it - 1) >= Bit(Typed.pipe_in)
           /\ Owed(program_vector, r) >= 2 * PipesTo(program_vector, it - 1) + Bit(PipesOut)
           /\ clean => /\ Owed(program_vector, r) =
                             2 * PipesTo(program_vector, it - 1) + Bit(PipesOut)
                       /\ PipesOut <=> r < Len(program_vector)
                       /\ r < Len(program_vector) =>
                             PipesTo(program_vector, r) = PipesTo(program_vector, it - 1) + 1
<1> DEFINE v == program_vector
           n == Len(program_vector)
           P(i) == PipesTo(program_vector, i)
           Enough == /\ Owed(v, r) >= 2 * P(it - 1) + Bit(PipesOut)
                     /\ clean => Owed(v, r) = 2 * P(it - 1) + Bit(PipesOut)
                     /\ clean => (PipesOut <=> r < n)
                     /\ clean /\ r < n => P(r) = P(it - 1) + 1
<1>0. Types /\ Loops /\ Entries /\ pc = "start" /\ it > 0 /\ ~Typed.file /\ ~HandledInShell(Typed)
  BY DEF HandlesInv, AtProgram
<1>1. /\ n \in Nat /\ it \in 1 .. n /\ index \in it .. n /\ v \in Seq(Entry)
      /\ DOMAIN v = 1 .. n /\ \A i \in 1 .. n : v[i] \in Entry
  BY <1>0, LenProperties, ElementOfSeq DEF Types, Loops, Closing
<1>2. Typed = v[it] /\ ~v[it].file
  BY <1>0 DEF Typed
<1>3. /\ r \in it .. n /\ \A j \in it + 1 .. r : v[j].file
      /\ r < n => ~v[r + 1].file
  BY DEF Ahead
<1>4. /\ v # <<>> => ~v[1].pipe_in /\ ~v[1].file
      /\ \A i \in 1 .. n - 1 : /\ i <= it \/ v[i].file => Joined(v, i)
                               /\ ~v[i].file => v[i + 1].file = (v[i].redirection_in
                                                                 \/ v[i].redirection_out)
  BY <1>0 DEF LineInv, Between2
<1>5. /\ \A i \in 0 .. n : P(i) \in Nat
      /\ \A i \in 1 .. n : P(i) = P(i - 1) + Bit(v[i].pipe_out)
      /\ \A i, j \in 0 .. n : i <= j => P(i) <= P(j)
      /\ P(0) = 0
  BY <1>1, PipesCount
<1>6. v # <<>>
  BY <1>1, EmptySeq
<1> HIDE DEF P
<1>7. it - 1 \in 0 .. n /\ P(it - 1) \in Nat
  BY <1>1, <1>5
<1>8. Typed.pipe_in <=> Taken(v, it - 1)
  <2>1. CASE it = 1
    <3>1. ~Taken(v, it - 1)
      BY <2>1, <1>1 DEF Taken
    <3>2. Typed.pipe_in \in BOOLEAN /\ ~Typed.pipe_in
      BY <1>1, <1>2, <1>4, <1>6, <2>1 DEF Entry
    <3> QED
      BY <3>1, <3>2
  <2>2. CASE it # 1
    <3>1. it - 1 \in 1 .. n - 1 /\ it - 1 <= it /\ (it - 1) + 1 = it
      BY <1>1, <2>2
    <3>2. Joined(v, it - 1)
      BY <1>4, <3>1
    <3>3. Taken(v, it - 1) = v[it - 1].pipe_out
      <4>1. v[it - 1].pipe_out \in BOOLEAN
        <5>1. v[it - 1] \in Entry
          BY <1>1, <3>1
        <5> QED
          BY <5>1 DEF Entry
      <4> QED
        BY <3>1, <4>1 DEF Taken
    <3> QED
      BY <1>2, <3>1, <3>2, <3>3 DEF Joined
  <2> QED
    BY <2>1, <2>2
<1>9. P(it - 1) >= Bit(Typed.pipe_in)
  <2>1. CASE Taken(v, it - 1)
    <3>1. it - 1 \in 1 .. n /\ v[it - 1].pipe_out
      BY <1>1, <2>1 DEF Taken
    <3>2. it - 2 \in 0 .. n /\ (it - 1) - 1 = it - 2
      BY <1>1, <3>1
    <3>3. P(it - 1) = P(it - 2) + 1
      BY <1>5, <3>1, <3>2 DEF Bit
    <3>4. P(it - 2) \in Nat
      BY <1>5, <3>2
    <3>5. P(it - 1) >= 1
      BY <3>3, <3>4
    <3> QED
      BY <3>5, <1>8, <2>1 DEF Bit
  <2>2. CASE ~Taken(v, it - 1)
    BY <1>7, <1>8, <2>2 DEF Bit
  <2> QED
    BY <2>1, <2>2
<1>10. P(it) = P(it - 1) + Bit(v[it].pipe_out)
  BY <1>1, <1>5
<1>11. /\ Bit(PipesOut) \in {0, 1} /\ PipesOut \in BOOLEAN
       /\ clean => /\ CleanLine(v) /\ ~v[n].pipe_out
                   /\ index = it \/ n = 1
                   /\ \A i \in 1 .. n : PlainFile(v, i)
  <2>1. clean => CleanLine(v) /\ (index = it \/ n = 1)
    BY <1>0 DEF LineInv
  <2>2. CleanLine(v) => ~v[n].pipe_out /\ \A i \in 1 .. n : PlainFile(v, i)
    BY <1>1, <1>6 DEF CleanLine, Last
  <2> QED
    BY <2>1, <2>2 DEF Bit, PipesOut
<1> HIDE DEF n, v, Enough
<1>12. ASSUME r = n, it = n PROVE Enough
  <2>1. ~PipesOut
    BY <1>1, <1>12 DEF PipesOut, IsLast, n
  <2>2. Owed(v, r) = 2 * P(n)
    BY <1>1, <1>12, <1>5 DEF Owed, Taken, Bit, P, n, v
  <2>3. P(n) >= P(it - 1) /\ P(n) \in Nat
    BY <1>1, <1>5, <1>7, <1>12
  <2>4. Owed(v, r) >= 2 * P(it - 1) + Bit(PipesOut)
    BY <1>7, <2>1, <2>2, <2>3 DEF Bit
  <2>5. clean => P(n) = P(it - 1)
    BY <1>7, <1>10, <1>11, <1>12 DEF Bit
  <2>6. clean => Owed(v, r) = 2 * P(it - 1) + Bit(PipesOut)
    BY <1>7, <2>1, <2>2, <2>5 DEF Bit
  <2>7. ~(r < n)
    BY <1>1, <1>12
  <2> QED
    BY <1>11, <2>1, <2>4, <2>6, <2>7 DEF Enough
<1>13. ASSUME r = it, it # n PROVE Enough
  <2>1. it \in 1 .. n - 1 /\ it + 1 \in 1 .. n /\ r < n /\ ~v[it + 1].file
    BY <1>1, <1>3, <1>13
  <2>2. v[it].pipe_out
    BY <1>1, <1>4, <2>1, SMTT(30) DEF Joined, Entry
  <2>3. Taken(v, r) /\ P(it) = P(it - 1) + 1
    BY <1>10, <1>13, <2>1, <2>2 DEF Taken, Bit, n, v
  <2>4. Owed(v, r) = 2 * P(it - 1) + 1
    <3>1. Owed(v, r) = 2 * P(it) - 1
      BY <1>13, <2>3 DEF Owed, Bit, P, v
    <3> QED
      BY <1>7, <2>3, <3>1
  <2>5. clean => PipesOut
    <3>1. clean => index = it
      BY <1>11, <1>1, <2>1
    <3> QED
      BY <1>2, <1>13, <2>2, <3>1 DEF PipesOut, IsLast, n
  <2>6. Owed(v, r) >= 2 * P(it - 1) + Bit(PipesOut)
    BY <1>7, <1>11, <2>4
  <2>7. clean => Owed(v, r) = 2 * P(it - 1) + Bit(PipesOut)
    BY <2>4, <2>5 DEF Bit
  <2> QED
    BY <1>11, <1>13, <2>1, <2>3, <2>5, <2>6, <2>7 DEF Enough
<1>14. ASSUME r # it, r # n PROVE Enough
  <2>1. /\ it \in 1 .. n - 1 /\ it + 1 \in 1 .. n /\ r \in 1 .. n - 1 /\ r - 1 \in it .. n /\ r < n
        /\ v[it + 1].file /\ v[r].file /\ ~v[r + 1].file /\ r \in it + 1 .. n
        /\ r - 1 \in 0 .. n /\ it \in 0 .. n /\ r \in 1 .. n
    BY <1>1, <1>3, <1>14
  <2>2. ~v[it].pipe_out /\ v[r].pipe_out
    <3>1. Joined(v, it) /\ Joined(v, r)
      BY <1>1, <1>4, <2>1
    <3>2. v[it].pipe_out \in BOOLEAN /\ v[r].pipe_out \in BOOLEAN
      BY <1>1, <2>1 DEF Entry
    <3> QED
      BY <2>1, <3>1, <3>2 DEF Joined
  <2>3. P(it) = P(it - 1)
    BY <1>7, <1>10, <2>2 DEF Bit
  <2>4. P(r) = P(r - 1) + 1 /\ P(r - 1) >= P(it) /\ P(r - 1) \in Nat /\ P(it) \in Nat
    BY <1>5, <2>1, <2>2 DEF Bit
  <2>5. Owed(v, r) = 2 * P(r) - 1
    BY <2>1, <2>2 DEF Owed, Taken, Bit, P, n, v
  <2>6. Owed(v, r) >= 2 * P(it - 1) + Bit(PipesOut)
    BY <1>11, <2>3, <2>4, <2>5
  <2>7. ASSUME clean PROVE r = it + 1 /\ PipesOut
    <3>1. r = it + 1
      <4>1. SUFFICES ASSUME r # it + 1 PROVE FALSE
        OBVIOUS
      <4>2. r - 1 \in it + 1 .. r
        BY <1>1, <2>1, <4>1
      <4>3. v[r - 1].file
        BY <1>3, <4>2
      <4>4. PlainFile(v, r)
        BY <1>11, <2>1, <2>7
      <4> QED
        BY <2>1, <4>3, <4>4 DEF PlainFile
    <3>2. index = it
      BY <1>11, <1>1, <2>1, <2>7
    <3>3. PlainFile(v, it + 1) /\ (it + 1) - 1 = it /\ it + 1 # n
      BY <1>1, <1>11, <1>14, <2>1, <2>7, <3>1
    <3>4. ~v[it].redirection_out
      BY <2>1, <3>3 DEF PlainFile, n, v
    <3>5. v[it].redirection_in
      BY <1>1, <1>2, <1>4, <2>1, <3>4
    <3>6. index + 1 = r /\ n > index + 1 /\ index # n
      BY <1>1, <2>1, <3>1, <3>2
    <3>7. v[index + 1].pipe_out /\ Typed.redirection_in
      BY <1>2, <2>2, <3>5, <3>6
    <3> QED
      BY <3>1, <3>6, <3>7 DEF PipesOut, IsLast, n, v
  <2>8. clean => P(r) = P(it - 1) + 1
    <3>1. clean => r - 1 = it
      BY <1>1, <2>7
    <3> QED
      BY <2>3, <2>4, <3>1
  <2>9. clean => Owed(v, r) = 2 * P(it - 1) + Bit(PipesOut)
    BY <1>7, <2>5, <2>7, <2>8 DEF Bit
  <2> QED
    BY <1>11, <2>1, <2>6, <2>7, <2>8, <2>9 DEF Enough
<1>15. ASSUME r # it, r = n PROVE Enough
  <2>1. /\ it \in 1 .. n - 1 /\ it + 1 \in 1 .. n /\ v[it + 1].file /\ n \in 1 .. n
        /\ it \in 0 .. n /\ n \in 0 .. n /\ it - 1 <= n
    BY <1>1, <1>3, <1>15
  <2>2. ~v[it].pipe_out
    <3>1. Joined(v, it)
      BY <1>1, <1>4, <2>1
    <3>2. v[it].pipe_out \in BOOLEAN
      BY <1>1, <2>1 DEF Entry
    <3> QED
      BY <2>1, <3>1, <3>2 DEF Joined
  <2>3. ~PipesOut
    <3>1. SUFFICES ASSUME n > index + 1 PROVE ~v[index + 1].pipe_out
      BY <1>2, <2>2 DEF PipesOut, n, v
    <3>2. index + 1 \in it + 1 .. r /\ index + 2 \in it + 1 .. r /\ index + 1 \in 1 .. n - 1
          /\ (index + 1) + 1 = index + 2
      BY <1>1, <1>15, <3>1
    <3>3. v[index + 1].file /\ v[index + 2].file
      BY <1>3, <3>2
    <3>4. Joined(v, index + 1)
      BY <1>4, <3>2, <3>3
    <3>5. v[index + 1].pipe_out \in BOOLEAN
      BY <1>1, <3>2 DEF Entry
    <3> QED
      BY <3>2, <3>3, <3>4, <3>5 DEF Joined
  <2>4. Owed(v, r) = 2 * P(n)
    <3>0. r \notin 1 .. n - 1
      BY <1>1, <1>15
    <3>1. ~Taken(v, r)
      BY <3>0 DEF Taken, n, v
    <3>2. Owed(v, r) = 2 * P(r) - 0
      BY <3>1 DEF Owed, Bit, P, v
    <3>3. P(r) \in Nat
      BY <1>5, <1>15, <2>1
    <3> QED
      BY <1>15, <3>2, <3>3
  <2>5. P(n) >= P(it - 1) /\ P(n) \in Nat
    BY <1>5, <1>7, <2>1
  <2>6. Owed(v, r) >= 2 * P(it - 1) + Bit(PipesOut)
    BY <1>7, <2>3, <2>4, <2>5 DEF Bit
  <2>7. ASSUME clean PROVE P(n) = P(it - 1)
    <3>1. n = it + 1
      <4>1. SUFFICES ASSUME n # it + 1 PROVE FALSE
        OBVIOUS
      <4>2. n - 1 \in it + 1 .. r
        BY <1>1, <1>15, <2>1, <4>1
      <4>3. v[n - 1].file /\ v[n].file
        BY <1>1, <1>3, <1>15, <2>1, <4>2
      <4>4. PlainFile(v, n)
        BY <1>11, <2>1, <2>7
      <4> QED
        BY <2>1, <4>3, <4>4 DEF PlainFile
    <3>2. P(n) = P(n - 1) + Bit(v[n].pipe_out)
      BY <1>5, <2>1
    <3>3. n - 1 = it
      BY <1>1, <3>1
    <3>4. P(it) = P(it - 1)
      BY <1>7, <1>10, <2>2 DEF Bit
    <3>5. Bit(v[n].pipe_out) = 0
      BY <1>11, <2>7 DEF Bit
    <3>6. P(n) = P(it) + 0
      BY <3>2, <3>3, <3>5
    <3> QED
      BY <1>7, <3>4, <3>6
  <2>8. clean => Owed(v, r) = 2 * P(it - 1) + Bit(PipesOut)
    BY <1>7, <2>3, <2>4, <2>7 DEF Bit
  <2>9. ~(r < n)
    BY <1>1, <1>15
  <2> QED
    BY <1>11, <2>3, <2>6, <2>8, <2>9 DEF Enough
<1>16. Enough
  BY <1>12, <1>13, <1>14, <1>15
<1> QED
  BY <1>3, <1>7, <1>8, <1>9, <1>16 DEF Enough, P, n, v

(* A program that is started takes one or two handles from the stack, and  *)
(* changes its own entry only.                                             *)
LEMMA ProgramStarts ==
    ASSUME HandlesInv, CreateProcess, Created(Wired)
    PROVE  /\ program_vector' \in Seq(Entry) /\ AsBefore(program_vector', program_vector)
           /\ \A j \in 1 .. Len(program_vector) :
                 program_vector'[j].pipe_out =
                    IF j = it THEN Typed.pipe_out \/ PipesOut ELSE program_vector[j].pipe_out
           /\ it \in 1 .. Len(program_vector) /\ it' = it - 1 /\ index' = index - 1
           /\ Pops \in 0 .. 2 /\ Len(pipes) \in Nat /\ Len(pipes') = Len(pipes) - Pops
           /\ \A k \in 1 .. Len(pipes') : pipes'[k] = pipes[k]
           /\ pc = "start" /\ pc' = "start" /\ clean' = clean
<1>0. AtProgram /\ Pops <= Len(pipes)
  BY DEF CreateProcess
<1>1. PICK p, n : p = Wired /\ n = Len(programs) + 1
  OBVIOUS
<1>2. PICK e : e = [p EXCEPT !.handle = n]
  OBVIOUS
<1>3. /\ program_vector' = [program_vector EXCEPT ![it] = e]
      /\ pipes' = SubSeq(pipes, 1, Len(pipes) - Pops)
      /\ index' = index - 1 /\ it' = it - 1 /\ pc = "start" /\ pc' = "start" /\ clean' = clean
  BY <1>1, <1>2 DEF CreateProcess, Created, AtProgram
<1>4. p \in Entry /\ it \in 1 .. Len(program_vector) /\ Pops \in 0 .. 2 /\ Len(pipes) \in Nat
  BY <1>0, <1>1, WiredEntry
<1>5. /\ Len(program_vector) \in Nat /\ DOMAIN program_vector = 1 .. Len(program_vector)
      /\ Typed = program_vector[it] /\ Typed \in Entry /\ n \in Int
  BY <1>1, <1>4, LenProperties, ElementOfSeq DEF HandlesInv, Types, Typed
<1>6. /\ p.command = Typed.command /\ p.argument = Typed.argument /\ p.file = Typed.file
      /\ p.pipe_in = Typed.pipe_in /\ p.pipe_out = (Typed.pipe_out \/ PipesOut)
      /\ p.redirection_in = Typed.redirection_in /\ p.redirection_out = Typed.redirection_out
  <2> DEFINE out == Typed.pipe_out \/ PipesOut
             file == IF Redirects THEN FirstFree(openedHandles) ELSE NoHandle
             ri == IF Typed.redirection_in THEN file ELSE NoHandle
             ro == IF Typed.redirection_out THEN file ELSE NoHandle
             po == IF PipesOut THEN Last(pipes) ELSE NoHandle
             pi == IF Typed.pipe_in THEN pipes[Len(pipes) + 1 - Pops] ELSE NoHandle
  <2>1. p = [Typed EXCEPT !.pipe_out = out, !.redirection_in_handle = ri,
                         !.redirection_out_handle = ro, !.pipe_out_handle = po,
                         !.pipe_in_handle = pi]
    BY <1>1 DEF Wired
  <2> HIDE DEF out, file, ri, ro, po, pi
  <2>2. /\ p.command = Typed.command /\ p.argument = Typed.argument /\ p.file = Typed.file
        /\ p.pipe_in = Typed.pipe_in /\ p.pipe_out = out
        /\ p.redirection_in = Typed.redirection_in /\ p.redirection_out = Typed.redirection_out
    BY <1>5, <2>1 DEF Entry
  <2> QED
    BY <2>2 DEF out
<1>7. /\ e \in Entry /\ e.command = p.command /\ e.argument = p.argument /\ e.file = p.file
      /\ e.pipe_in = p.pipe_in /\ e.pipe_out = p.pipe_out
      /\ e.redirection_in = p.redirection_in /\ e.redirection_out = p.redirection_out
  BY <1>2, <1>4, <1>5 DEF Entry
<1>8. /\ program_vector' \in Seq(Entry) /\ Len(program_vector') = Len(program_vector)
      /\ program_vector'[it] = e
      /\ \A j \in DOMAIN program_vector : j # it => program_vector'[j] = program_vector[j]
  BY <1>3, <1>4, <1>7, EntrySet
<1>9. AsBefore(program_vector', program_vector)
  <2>1. ASSUME NEW i \in 1 .. Len(program_vector)
        PROVE /\ program_vector'[i].command = program_vector[i].command
              /\ program_vector'[i].argument = program_vector[i].argument
              /\ program_vector'[i].file = program_vector[i].file
              /\ program_vector'[i].pipe_in = program_vector[i].pipe_in
              /\ program_vector'[i].redirection_in = program_vector[i].redirection_in
              /\ program_vector'[i].redirection_out = program_vector[i].redirection_out
    <3>1. CASE i = it
      BY <1>5, <1>6, <1>7, <1>8, <3>1
    <3>2. CASE i # it
      BY <1>5, <1>8, <3>2
    <3> QED
      BY <3>1, <3>2
  <2>2. ASSUME NEW i \in 1 .. Len(program_vector)
        PROVE HandledInShell(program_vector'[i]) = HandledInShell(program_vector[i])
    BY <2>1 DEF HandledInShell, IsCd, IsEchoSwitch
  <2> QED
    BY <1>8, <2>1, <2>2 DEF AsBefore
<1>10. \A j \in 1 .. Len(program_vector) :
          program_vector'[j].pipe_out =
             IF j = it THEN Typed.pipe_out \/ PipesOut ELSE program_vector[j].pipe_out
  BY <1>5, <1>6, <1>7, <1>8
<1>11. /\ Len(pipes') = Len(pipes) - Pops
       /\ \A k \in 1 .. Len(pipes') : pipes'[k] = pipes[k]
  <2>1. PICK k : k = Len(pipes) - Pops
    OBVIOUS
  <2>2. k \in 0 .. Len(pipes) /\ pipes' = SubSeq(pipes, 1, k)
    BY <1>0, <1>3, <1>4, <2>1
  <2>3. Len(SubSeq(pipes, 1, k)) = k /\ \A j \in 1 .. k : SubSeq(pipes, 1, k)[j] = pipes[j]
    BY <2>2, StackPopped
  <2> QED
    BY <2>1, <2>2, <2>3
<1> QED
  BY <1>3, <1>4, <1>8, <1>9, <1>10, <1>11

LEMMA EchoChanges ==
    ASSUME HandlesInv, Echo
    PROVE  /\ program_vector' \in Seq(Entry) /\ AsBefore(program_vector', program_vector)
           /\ \A j \in 1 .. Len(program_vector) :
                 program_vector'[j].pipe_out = program_vector[j].pipe_out
           /\ pc = "special" /\ pc' = "special" /\ clean' = clean
<1>1. HandlesInv' /\ pc = "special" /\ pc' = "special" /\ clean' = clean /\ AtCommand("echo")
  BY EchoKeeps DEF Echo, AtCommand, Special, histVars
<1>2. program_vector' \in Seq(Entry)
  BY <1>1 DEF HandlesInv, Types
<1>3. /\ program_vector \in Seq(Entry) /\ Len(program_vector) \in Nat
      /\ DOMAIN program_vector = 1 .. Len(program_vector) /\ it \in 1 .. Len(program_vector)
      /\ \A i \in 1 .. Len(program_vector) : program_vector[i] \in Entry
  BY <1>1, LenProperties, ElementOfSeq, SMTT(30) DEF HandlesInv, Types, Loops, Closing, AtCommand
<1>4. CASE program_vector' = program_vector
  BY <1>1, <1>2, <1>4 DEF AsBefore
<1>5. CASE program_vector' # program_vector
  <2>1. PICK text : text = <<"ECHO is", IF echo_on THEN "on" ELSE "off">>
    OBVIOUS
  <2>2. PICK e : e = [program_vector[it] EXCEPT !.argument = text]
    OBVIOUS
  <2>3. Typed.argument = <<>> /\ program_vector' = [program_vector EXCEPT ![it] = e]
    BY <1>5, <2>1, <2>2 DEF Echo
  <2>4. program_vector[it] \in Entry /\ program_vector[it] = Typed
    BY <1>3 DEF Typed
  <2>5. /\ e.command = Typed.command /\ e.file = Typed.file
        /\ e.pipe_in = Typed.pipe_in /\ e.pipe_out = Typed.pipe_out
        /\ e.redirection_in = Typed.redirection_in /\ e.redirection_out = Typed.redirection_out
        /\ e.argument = text
    BY <2>2, <2>4 DEF Entry
  <2>6. /\ program_vector'[it] = e /\ Len(program_vector') = Len(program_vector)
        /\ \A j \in 1 .. Len(program_vector) : j # it => program_vector'[j] = program_vector[j]
    BY <1>2, <1>3, <2>3, LenProperties
  <2>7. HandledInShell(e) = HandledInShell(Typed)
    <3>1. \A a : <<>> # <<a>>
      OBVIOUS
    <3>2. \A a, b, c : <<a, b>> # <<c>>
      OBVIOUS
    <3>3. text \notin {<<"on">>, <<"off">>}
      BY <2>1, <3>2
    <3>4. <<>> \notin {<<"on">>, <<"off">>}
      BY <3>1
    <3> QED
      BY <2>3, <2>5, <3>3, <3>4 DEF HandledInShell, IsCd, IsEchoSwitch
  <2>8. \A i \in 1 .. Len(program_vector) :
          /\ program_vector'[i].command = program_vector[i].command
          /\ program_vector'[i].file = program_vector[i].file
          /\ program_vector'[i].pipe_in = program_vector[i].pipe_in
          /\ program_vector'[i].pipe_out = program_vector[i].pipe_out
          /\ program_vector'[i].redirection_in = program_vector[i].redirection_in
          /\ program_vector'[i].redirection_out = program_vector[i].redirection_out
          /\ HandledInShell(program_vector'[i]) = HandledInShell(program_vector[i])
    BY <2>4, <2>5, <2>6, <2>7
  <2> QED
    BY <1>1, <1>2, <2>6, <2>8 DEF AsBefore
<1> QED
  BY <1>4, <1>5

(* What most steps do to a line. *)
LineStays ==
    /\ UNCHANGED <<program_vector, clean>>
    /\ \/ pc' \notin {"special", "newline", "pipes", "start"}
       \/ pc \in {"special", "newline", "pipes"} /\ pc' \in {"special", "newline", "pipes"}
       \/ UNCHANGED <<pc, it, index>>

LEMMA StepsOnTheLine ==
    ASSUME HandlesInv, [Next]_vars
    PROVE  \/ ReadLine \/ Echo \/ PipesCreated \/ SkipSpecial \/ SkipFile
           \/ CreateProcess /\ Created(Wired)
           \/ LineStays
           \/ pc' \notin {"special", "newline", "pipes", "start"}
<1>1. ASSUME Next
      PROVE  \/ ReadLine \/ Echo \/ PipesCreated \/ SkipSpecial \/ SkipFile
             \/ CreateProcess /\ Created(Wired)
             \/ LineStays
             \/ pc' \notin {"special", "newline", "pipes", "start"}
  <2>1. CASE Leave \/ Exit \/ OpenFails \/ PopsTooMuch \/ AllStarted \/ WaitFor \/ EraseProgram
             \/ ExecuteReturns \/ CloseEnd
    <3>1. WaitFor => pc' \notin {"special", "newline", "pipes", "start"}
      BY WaitForKeeps
    <3>2. CloseEnd => pc' = "close"
      BY DEF CloseEnd
    <3> QED
      BY <2>1, <3>1, <3>2 DEF Leave, Exit, OpenFails, PopsTooMuch, AllStarted, EraseProgram,
         ExecuteReturns
  <2>2. CASE ChangeDirectory \/ NotSpecial
    BY <2>2 DEF ChangeDirectory, NotSpecial, AtCommand, Special, histVars, LineStays
  <2>3. CASE SpecialDone
    BY <2>3 DEF SpecialDone, Special, histVars, LineStays
  <2>4. CASE Execute
    BY <2>4 DEF Execute, histVars, LineStays
  <2>5. CASE CreatePipe
    BY <2>5 DEF CreatePipe, PipesWanted, histVars, LineStays
  <2>6. CASE \E n \in Numbers : ProgramOpens(n) \/ ProgramCloses(n) \/ ProgramEnds(n)
    BY <2>6 DEF ProgramOpens, ProgramCloses, ProgramEnds, Alone, histVars, execVars, LineStays
  <2>7. CASE CreateProcess /\ ~Created(Wired)
    <3>1. pc' = "wait"
      BY <2>7 DEF CreateProcess, Created
    <3> QED
      BY <3>1
  <2> QED
    BY <1>1, <2>1, <2>2, <2>3, <2>4, <2>5, <2>6, <2>7, GivenUp DEF Next, ShellStep
<1>2. UNCHANGED vars => LineStays
  BY DEF vars, execVars, histVars, LineStays
<1> QED
  BY <1>1, <1>2

LEMMA LineKeeps == ASSUME HandlesInv, LineInv, [Next]_vars PROVE LineInv'
<1> DEFINE v == program_vector
           n == Len(program_vector)
<1>0. Types /\ Loops
  BY DEF HandlesInv
<1>1. /\ n \in Nat /\ DOMAIN v = 1 .. n /\ v \in Seq(Entry)
      /\ \A i \in 1 .. n : v[i] \in Entry
  BY <1>0, LenProperties, ElementOfSeq DEF Types
<1>2. CASE ReadLine
  <2>1. PICK line \in Lines : v' = ProcessLine(line) /\ clean' = CleanLine(ProcessLine(line))
    BY <1>2 DEF ReadLine
  <2>2. pc' \in {"special", "aborted"}
    BY <1>2 DEF ReadLine
  <2>3. Linked(ProcessLine(line))
    <3>1. line \in Text
      <4>1. line \in Seq(STRING)
        BY ShellAssumption
      <4>2. \A i \in 1 .. Len(line) : line[i] \in Tokens
        BY <4>1, ElementOfSeq DEF Tokens
      <4>3. Len(line) \in Nat /\ line \in [1 .. Len(line) -> Tokens]
        BY <4>1, <4>2, LenProperties
      <4> QED
        BY <4>1, <4>3, SeqDef DEF Text
    <3> QED
      BY <3>1, LineType
  <2>4. Linked(v')
    BY <2>1, <2>3
  <2>5. Whole(v') => Between2(v') /\ \A i \in 1 .. Len(v') - 1 : Joined(v', i)
    BY <2>4 DEF Linked, Whole, Between2, Joined
  <2>6. clean' => CleanLine(v')
    BY <2>1
  <2> QED
    BY <2>2, <2>5, <2>6 DEF LineInv
<1>3. ASSUME NEW u, u = v', AsBefore(u, v), u \in Seq(Entry), clean' = clean,
             pc \in {"special", "newline", "pipes", "start"},
             pc' \in {"special", "newline", "pipes", "start"},
             \A j \in 1 .. n : u[j].pipe_out # v[j].pipe_out =>
                 pc = "start" /\ pc' = "start" /\ it' < j /\ ~v[j].file,
             pc # "start" \/ (pc' = "start" /\ \A j \in 1 .. n : j <= it' => j <= it),
             clean => u[n].pipe_out = v[n].pipe_out /\ (pc' = "start" => index' = it' \/ n = 1)
      PROVE  LineInv'
  <2>1. /\ Whole(u) = Whole(v) /\ DOMAIN u = DOMAIN v
        /\ (v # <<>> => u[n].pipe_out = v[n].pipe_out) => (CleanLine(v) => CleanLine(u))
        /\ Len(u) = n
    BY <1>1, <1>3, CleanKeeps DEF AsBefore
  <2>2. ASSUME Whole(u)
        PROVE  /\ Between2(u)
               /\ \A i \in 1 .. n - 1 : pc' # "start" \/ i <= it' \/ u[i].file => Joined(u, i)
    <3>1. /\ Between2(v)
          /\ \A i \in 1 .. n - 1 : pc # "start" \/ i <= it \/ v[i].file => Joined(v, i)
      BY <1>3, <2>1, <2>2 DEF LineInv
    <3>2. Between2(u)
      <4>1. u # <<>> => ~u[1].pipe_in /\ ~u[1].file
        <5>1. SUFFICES ASSUME u # <<>> PROVE ~u[1].pipe_in /\ ~u[1].file
          OBVIOUS
        <5>2. v # <<>> /\ 1 \in 1 .. n
          BY <1>1, <1>3, <2>1, <5>1, EmptySeq
        <5> QED
          BY <1>3, <3>1, <5>2 DEF Between2, AsBefore
      <4>2. ASSUME NEW i \in 1 .. Len(u) - 1, ~u[i].file
            PROVE  u[i + 1].file = (u[i].redirection_in \/ u[i].redirection_out)
        <5>1. i \in 1 .. n - 1 /\ i \in 1 .. n /\ i + 1 \in 1 .. n
          BY <1>1, <2>1
        <5>2. ~v[i].file
          BY <1>3, <4>2, <5>1 DEF AsBefore
        <5> QED
          BY <1>3, <3>1, <5>1, <5>2 DEF Between2, AsBefore
      <4> QED
        BY <4>1, <4>2 DEF Between2
    <3>3. ASSUME NEW i \in 1 .. n - 1, pc' # "start" \/ i <= it' \/ u[i].file
          PROVE  Joined(u, i)
      <4>1. i \in 1 .. n /\ i + 1 \in 1 .. n
        BY <1>1
      <4>2. it' \in Nat \/ pc' # "start"
        <5>1. HandlesInv'
          BY StepKeepsHandles
        <5> QED
          BY <5>1 DEF HandlesInv, Types
      <4>3. u[i].pipe_out = v[i].pipe_out
        <5>1. ASSUME u[i].pipe_out # v[i].pipe_out PROVE FALSE
          <6>1. pc' = "start" /\ it' < i /\ ~v[i].file
            BY <1>3, <4>1, <5>1
          <6>2. ~u[i].file
            BY <1>3, <4>1, <6>1 DEF AsBefore
          <6>3. ~(i <= it')
            BY <4>1, <4>2, <6>1
          <6> QED
            BY <3>3, <6>1, <6>2, <6>3
        <5> QED
          BY <5>1
      <4>4. pc # "start" \/ i <= it \/ v[i].file
        BY <1>3, <3>3, <4>1 DEF AsBefore
      <4>5. Joined(v, i)
        BY <3>1, <4>4
      <4> QED
        BY <1>3, <4>1, <4>3, <4>5 DEF Joined, AsBefore
    <3> QED
      BY <3>2, <3>3
  <2>3. clean' => CleanLine(u) /\ (pc' = "start" => index' = it' \/ Len(u) = 1)
    BY <1>3, <2>1 DEF LineInv
  <2>4. pc' \in {"special", "newline", "pipes", "start"} =>
          /\ Whole(u) => /\ Between2(u)
                         /\ \A i \in 1 .. Len(u) - 1 :
                               pc' # "start" \/ i <= it' \/ u[i].file => Joined(u, i)
          /\ clean' => CleanLine(u) /\ (pc' = "start" => index' = it' \/ Len(u) = 1)
    BY <2>1, <2>2, <2>3
  <2> HIDE <1>3
  <2>5. u = v'
    BY <1>3
  <2> QED
    BY <2>4, <2>5 DEF LineInv
<1>4. CASE Echo
  <2>1. PICK u : u = v'
    OBVIOUS
  <2>2. /\ u \in Seq(Entry) /\ AsBefore(u, v) /\ pc = "special" /\ pc' = "special"
        /\ clean' = clean /\ \A j \in 1 .. n : u[j].pipe_out = v[j].pipe_out
    BY <1>4, <2>1, EchoChanges
  <2>3. n \in 1 .. n
    <3>1. pc = "special" /\ it <= n
      BY <1>4 DEF Echo, AtCommand
    <3>2. it \in 1 .. n + 1
      BY <1>0, <3>1 DEF Loops, Closing
    <3> QED
      BY <1>1, <3>1, <3>2
  <2> QED
    BY <1>3, <2>1, <2>2, <2>3
<1>5. CASE PipesCreated
  <2>1. /\ v' = v /\ clean' = clean /\ pc = "pipes" /\ pc' = "start"
        /\ it' = it /\ index' = index /\ it = n /\ index = n
    BY <1>0, <1>5 DEF PipesCreated, histVars, execVars, Loops, Closing
  <2>2. ASSUME Whole(v)
        PROVE  Between2(v) /\ \A i \in 1 .. n - 1 : Joined(v, i)
    BY <2>1, <2>2 DEF LineInv
  <2> QED
    BY <2>1, <2>2 DEF LineInv
<1>6. CASE SkipSpecial \/ SkipFile
  <2>1. /\ v' = v /\ clean' = clean /\ pc = "start" /\ pc' = "start"
        /\ it' = it - 1 /\ it \in 1 .. n
    BY <1>0, <1>1, <1>6 DEF SkipSpecial, SkipFile, histVars, execVars, Loops, Closing
  <2>2. clean => index' = it' \/ n = 1
    <3>1. CASE SkipSpecial
      <4>1. clean => CleanLine(v) /\ HandledInShell(v[it])
        BY <2>1, <3>1 DEF LineInv, SkipSpecial, Typed
      <4> QED
        BY <1>1, <2>1, <4>1 DEF CleanLine
    <3>2. CASE SkipFile
      BY <2>1, <3>2 DEF LineInv, SkipFile
    <3> QED
      BY <1>6, <3>1, <3>2
  <2>3. \A i \in 1 .. n : i <= it' => i <= it
    BY <2>1
  <2>4. ASSUME Whole(v)
        PROVE  /\ Between2(v)
               /\ \A i \in 1 .. n - 1 : i <= it' \/ v[i].file => Joined(v, i)
    <3>1. /\ Between2(v) /\ \A i \in 1 .. n - 1 : i <= it \/ v[i].file => Joined(v, i)
      BY <2>1, <2>4 DEF LineInv
    <3>2. \A i \in 1 .. n - 1 : i \in 1 .. n
      BY <1>1
    <3> QED
      BY <2>3, <3>1, <3>2
  <2>5. clean => CleanLine(v)
    BY <2>1 DEF LineInv
  <2> QED
    BY <2>1, <2>2, <2>4, <2>5 DEF LineInv
<1>7. CASE CreateProcess /\ Created(Wired)
  <2>1. PICK u : u = v'
    OBVIOUS
  <2>2. /\ u \in Seq(Entry) /\ AsBefore(u, v) /\ pc = "start" /\ pc' = "start"
        /\ clean' = clean /\ it \in 1 .. n /\ it' = it - 1 /\ index' = index - 1
        /\ \A j \in 1 .. n : u[j].pipe_out =
              IF j = it THEN Typed.pipe_out \/ PipesOut ELSE v[j].pipe_out
    BY <1>7, <2>1, ProgramStarts
  <2>3. AtProgram /\ Typed = v[it] /\ v[it].pipe_out \in BOOLEAN
    BY <1>1, <1>7, <2>2 DEF CreateProcess, Typed, Entry
  <2>4. ASSUME NEW j \in 1 .. n, u[j].pipe_out # v[j].pipe_out
        PROVE  it' < j /\ ~v[j].file
    <3>1. j = it
      BY <2>2, <2>4
    <3> QED
      BY <2>2, <2>3, <3>1 DEF AtProgram
  <2>5. \A j \in 1 .. n : j <= it' => j <= it
    BY <2>2
  <2>6. ASSUME clean
        PROVE  u[n].pipe_out = v[n].pipe_out /\ (index' = it' \/ n = 1)
    <3>1. index = it \/ n = 1
      BY <2>2, <2>6 DEF LineInv
    <3>2. index' = it' \/ n = 1
      BY <2>2, <3>1
    <3>3. CASE it # n
      <4>1. n \in 1 .. n
        BY <1>1, <2>2
      <4>2. u[n].pipe_out = v[n].pipe_out
        BY <2>2, <3>3, <4>1
      <4> QED
        BY <3>2, <4>2
    <3>4. CASE it = n
      <4>1. index = n
        BY <1>0, <1>1, <2>2, <3>4 DEF Loops, Closing
      <4>2. ~PipesOut
        BY <4>1 DEF PipesOut, IsLast
      <4> QED
        BY <1>1, <2>2, <2>3, <3>2, <3>4, <4>2
    <3> QED
      BY <3>3, <3>4
  <2> QED
    BY <1>3, <2>1, <2>2, <2>4, <2>5, <2>6
<1>8. CASE LineStays
  <2>1. v' = v /\ clean' = clean
    BY <1>8 DEF LineStays
  <2> QED
    BY <1>8, <2>1 DEF LineStays, LineInv
<1>9. CASE pc' \notin {"special", "newline", "pipes", "start"}
  BY <1>9 DEF LineInv
<1> QED
  BY <1>2, <1>4, <1>5, <1>6, <1>7, <1>8, <1>9, StepsOnTheLine

LEMMA AheadOfFile ==
    ASSUME NEW v, Len(v) \in Nat, NEW i \in 1 .. Len(v), v[i].file, NEW r, Ahead(v, i, r)
    PROVE  Ahead(v, i - 1, r)
<1>1. r \in i .. Len(v) /\ \A j \in i + 1 .. r : v[j].file
  BY DEF Ahead
<1>2. r \in i - 1 .. Len(v)
  BY <1>1
<1>3. ASSUME NEW j \in (i - 1) + 1 .. r PROVE v[j].file
  <2>1. j = i \/ j \in i + 1 .. r
    BY <1>1, <1>3
  <2> QED
    BY <1>1, <2>1
<1> QED
  BY <1>2, <1>3 DEF Ahead

LEMMA AheadOfProgram ==
    ASSUME NEW v, Len(v) \in Nat, NEW i \in 1 .. Len(v), ~v[i].file
    PROVE  Ahead(v, i - 1, i - 1)
<1>1. i - 1 \in i - 1 .. Len(v) /\ (i - 1) + 1 = i
  OBVIOUS
<1>2. \A j \in (i - 1) + 1 .. i - 1 : v[j].file
  OBVIOUS
<1> QED
  BY <1>1, <1>2 DEF Ahead

(* The new pipe is on top of the stack, and nothing else has changed. *)
LEMMA PipeCreated ==
    ASSUME HandlesInv, CreatePipe
    PROVE  LET m == Len(pipes)
               k == pipesMade + 1
               t == openedHandles' IN
           /\ m \in Nat /\ Len(pipes') = m + 2 /\ DOMAIN pipes' = 1 .. m + 2
           /\ \A i \in 1 .. m : pipes'[i] = pipes[i]
           /\ t[pipes'[m + 1]] = <<"write", k>> /\ t[pipes'[m + 2]] = <<"read", k>>
           /\ DOMAIN t = DOMAIN openedHandles \cup {pipes'[m + 1], pipes'[m + 2]}
           /\ \A h \in DOMAIN openedHandles : t[h] = openedHandles[h]
           /\ pipesMade' = k
<1> DEFINE m == Len(pipes)
           k == pipesMade + 1
           t == With(openedHandles, <<"read", k>>)
           r == FirstFree(openedHandles)
           w == FirstFree(t)
           u == With(t, <<"write", k>>)
           two == <<w, r>>
<1>0. Types
  BY DEF HandlesInv
<1>1. k \in Int /\ <<"read", k>> \in Objects /\ <<"write", k>> \in Objects
  <2>1. k \in Int
    BY <1>0 DEF Types
  <2> HIDE DEF k
  <2> QED
    BY <2>1, Objects0
<1>2. pipesMade' = k /\ openedHandles' = u /\ pipes' = pipes \o two
  BY DEF CreatePipe
<1> HIDE DEF k
<1>3. /\ Table(t) /\ DOMAIN t = DOMAIN openedHandles \cup {r}
      /\ \A h \in DOMAIN openedHandles : t[h] = openedHandles[h]
      /\ t[r] = <<"read", k>> /\ r \in Nat /\ r \notin DOMAIN openedHandles
  BY <1>0, <1>1, WithIt DEF Types
<1> HIDE DEF t
<1>4. /\ Table(u) /\ DOMAIN u = DOMAIN t \cup {w} /\ \A h \in DOMAIN t : u[h] = t[h]
      /\ u[w] = <<"write", k>> /\ w \in Nat
  BY <1>1, <1>3, WithIt
<1> HIDE DEF u, w, r
<1>5. two \in Seq(Nat) /\ Len(two) = 2 /\ two[1] = w /\ two[2] = r
  BY <1>3, <1>4
<1> HIDE DEF two
<1>6. pipes \in Seq(Nat) /\ m \in Nat
  BY <1>0, LenProperties DEF Types
<1>7. /\ pipes \o two \in Seq(Nat) /\ Len(pipes \o two) = m + 2
      /\ \A i \in 1 .. m + 2 : (pipes \o two)[i] = IF i <= m THEN pipes[i] ELSE two[i - m]
  <2>1. /\ pipes \o two \in Seq(Nat) /\ Len(pipes \o two) = Len(pipes) + Len(two)
        /\ \A i \in 1 .. Len(pipes) + Len(two) :
              (pipes \o two)[i] = IF i <= Len(pipes) THEN pipes[i] ELSE two[i - Len(pipes)]
    BY <1>5, <1>6, ConcatProperties
  <2> QED
    BY <1>5, <2>1
<1> HIDE DEF m
<1>8. (m + 1) - m = 1 /\ (m + 2) - m = 2 /\ ~(m + 1 <= m) /\ ~(m + 2 <= m)
      /\ m + 1 \in 1 .. m + 2 /\ m + 2 \in 1 .. m + 2
      /\ \A i \in 1 .. m : i \in 1 .. m + 2 /\ i <= m
  BY <1>6
<1>9. pipes'[m + 1] = w /\ pipes'[m + 2] = r
  BY <1>2, <1>5, <1>7, <1>8
<1>10. \A i \in 1 .. m : pipes'[i] = pipes[i]
  BY <1>2, <1>7, <1>8
<1>11. Len(pipes') = m + 2 /\ DOMAIN pipes' = 1 .. m + 2
  BY <1>2, <1>7, LenProperties
<1>12. DOMAIN openedHandles' = DOMAIN openedHandles \cup {pipes'[m + 1], pipes'[m + 2]}
  BY <1>2, <1>3, <1>4, <1>9
<1>13. openedHandles'[w] = <<"write", k>> /\ openedHandles'[r] = <<"read", k>>
  BY <1>2, <1>3, <1>4
<1>14. \A h \in DOMAIN openedHandles : openedHandles'[h] = openedHandles[h]
  BY <1>2, <1>3, <1>4
<1> QED
  BY <1>2, <1>6, <1>9, <1>10, <1>11, <1>12, <1>13, <1>14 DEF m, k

(* What most steps do to the stack while the programs are started. *)
LEMMA StepsOnTheStack ==
    ASSUME HandlesInv, [Next]_vars
    PROVE  /\ pc' = "crashed" => PopsTooMuch \/ UNCHANGED <<pc, program_vector>>
           /\ pc' = "pipes" => Execute \/ CreatePipe \/ UNCHANGED <<pc, program_vector, pipes>>
           /\ pc' = "start" => \/ PipesCreated \/ SkipSpecial \/ SkipFile
                               \/ CreateProcess /\ Created(Wired)
                               \/ UNCHANGED <<pc, it, program_vector, pipes, clean>>
<1>1. CASE Leave \/ Exit \/ OpenFails \/ AllStarted \/ WaitFor \/ EraseProgram
             \/ ExecuteReturns \/ CloseEnd \/ ReadLine \/ Echo \/ ChangeDirectory \/ NotSpecial
             \/ SpecialDone \/ GivesUp
  <2>1. WaitFor => pc' = "close"
    BY WaitForKeeps
  <2> QED
    BY <1>1, <2>1, GivenUp DEF Leave, Exit, OpenFails, AllStarted, EraseProgram, CloseEnd,
       ReadLine, Echo,
       ChangeDirectory, NotSpecial, SpecialDone, ExecuteReturns, AtCommand
<1>2. CASE Execute \/ CreatePipe \/ PopsTooMuch \/ PipesCreated
  BY <1>2 DEF Execute, CreatePipe, PipesWanted, PopsTooMuch, PipesCreated
<1>3. CASE SkipSpecial \/ SkipFile
  BY <1>3 DEF SkipSpecial, SkipFile
<1>4. CASE CreateProcess
  BY <1>4 DEF CreateProcess, Created, AtProgram
<1>5. CASE \E n \in Numbers : ProgramOpens(n) \/ ProgramCloses(n) \/ ProgramEnds(n)
  BY <1>5 DEF ProgramOpens, ProgramCloses, ProgramEnds, Alone, histVars, execVars
<1>6. CASE UNCHANGED vars
  BY <1>6 DEF vars, execVars, histVars
<1> QED
  BY <1>1, <1>2, <1>3, <1>4, <1>5, <1>6 DEF Next, ShellStep

LEMMA StackKeeps ==
    ASSUME HandlesInv, LineInv, StackInv, [Next]_vars PROVE StackInv'
<1> DEFINE v == program_vector
           n == Len(program_vector)
<1>0. Types /\ Loops /\ Len(pipes) \in Nat
  BY LenProperties DEF HandlesInv, Types
<1>1. /\ n \in Nat /\ DOMAIN v = 1 .. n /\ v \in Seq(Entry)
      /\ \A i \in 1 .. n : v[i] \in Entry
  BY <1>0, LenProperties, ElementOfSeq DEF Types
<1>2. /\ CountPipes(v) = PipesTo(v, n) /\ CountPipes(v) \in Nat
      /\ \A i \in 0 .. n : PipesTo(v, i) \in Nat
      /\ \A i \in 1 .. n : PipesTo(v, i) = PipesTo(v, i - 1) + Bit(v[i].pipe_out)
      /\ PipesTo(v, 0) = 0
  <2>1. n \in 0 .. n
    BY <1>1
  <2> QED
    BY <1>1, <2>1, PipesCount
<1>3. ASSUME pc' = "crashed" PROVE ~Whole(v')
  <2>1. CASE UNCHANGED <<pc, v>>
    BY <1>3, <2>1 DEF StackInv
  <2>2. CASE PopsTooMuch
    <3>1. AtProgram /\ Pops > Len(pipes) /\ v' = v /\ pc = "start"
      BY <2>2 DEF PopsTooMuch, AtProgram
    <3>2. SUFFICES ASSUME Whole(v) PROVE FALSE
      BY <3>1
    <3>3. PICK r : Ahead(v, it, r) /\ Len(pipes) >= Owed(v, r)
      BY <3>1, <3>2 DEF StackInv
    <3>4. /\ PipesTo(v, it - 1) \in Nat /\ PipesTo(v, it - 1) >= Bit(Typed.pipe_in)
          /\ Owed(v, r) >= 2 * PipesTo(v, it - 1) + Bit(PipesOut)
      BY <3>1, <3>2, <3>3, StackSuffices
    <3>5. Pops = Bit(PipesOut) + Bit(Typed.pipe_in)
      BY DEF Pops, Bit
    <3>6. /\ Bit(PipesOut) \in Nat /\ Bit(Typed.pipe_in) \in Nat
          /\ PipesTo(v, r) \in Nat /\ Bit(Taken(v, r)) \in Nat
      <4>1. r \in it .. n
        BY <3>1, <3>2, <3>3, StackSuffices
      <4>2. r \in 0 .. n
        BY <1>0, <1>1, <3>1, <4>1 DEF Types
      <4> QED
        BY <1>2, <4>2 DEF Bit
    <3>7. Owed(v, r) \in Int
      BY <3>6 DEF Owed
    <3> QED
      BY <1>0, <3>1, <3>3, <3>4, <3>5, <3>6, <3>7
  <2> QED
    BY <1>3, <2>1, <2>2, StepsOnTheStack
<1>4. ASSUME pc' = "pipes" PROVE \E j \in 0 .. CountPipes(v') : Len(pipes') = 2 * j
  <2>1. CASE UNCHANGED <<pc, v, pipes>>
    BY <1>4, <2>1 DEF StackInv
  <2>2. CASE Execute
    <3>1. pipes' = <<>> /\ v' = v
      BY <1>4, <2>2 DEF Execute
    <3>2. Len(pipes') = 2 * 0 /\ 0 \in 0 .. CountPipes(v')
      BY <1>2, <3>1, EmptySeq
    <3> QED
      BY <3>2
  <2>3. CASE CreatePipe
    <3>1. v' = v /\ pc = "pipes" /\ Len(pipes) < 2 * CountPipes(v)
      BY <2>3 DEF CreatePipe, PipesWanted
    <3>2. Len(pipes') = Len(pipes) + 2
      BY <2>3, PipeCreated
    <3>3. PICK j \in 0 .. CountPipes(v) : Len(pipes) = 2 * j
      BY <3>1 DEF StackInv
    <3>4. j + 1 \in 0 .. CountPipes(v) /\ Len(pipes') = 2 * (j + 1)
      BY <1>2, <3>1, <3>2, <3>3
    <3> QED
      BY <3>1, <3>4
  <2> QED
    BY <1>4, <2>1, <2>2, <2>3, StepsOnTheStack
<1>5. ASSUME pc' = "start", Whole(v')
      PROVE  \E r : /\ Ahead(v', it', r) /\ Len(pipes') >= Owed(v', r)
                    /\ clean' => Len(pipes') = Owed(v', r)
  <2>1. CASE UNCHANGED <<pc, it, v, pipes, clean>>
    <3>1. pc = "start" /\ Whole(v)
      BY <1>5, <2>1
    <3>2. PICK r : /\ Ahead(v, it, r) /\ Len(pipes) >= Owed(v, r)
                   /\ clean => Len(pipes) = Owed(v, r)
      BY <3>1 DEF StackInv
    <3> QED
      BY <2>1, <3>2
  <2>2. CASE PipesCreated
    <3>1. /\ v' = v /\ pipes' = pipes /\ pc = "pipes" /\ it' = it /\ it = n
          /\ ~(Len(pipes) < 2 * CountPipes(v))
      BY <1>0, <2>2 DEF PipesCreated, PipesWanted, execVars, Loops, Closing
    <3>2. PICK j \in 0 .. CountPipes(v) : Len(pipes) = 2 * j
      BY <3>1 DEF StackInv
    <3>3. Len(pipes) = 2 * CountPipes(v)
      BY <1>2, <3>1, <3>2
    <3>4. Owed(v, n) = 2 * CountPipes(v)
      <4>1. n \notin 1 .. n - 1
        BY <1>1
      <4>2. ~Taken(v, n)
        BY <4>1 DEF Taken
      <4> QED
        BY <1>2, <4>2 DEF Owed, Bit
    <3>5. Ahead(v, n, n)
      <4>1. n \in n .. n /\ ~(n < n) /\ \A i \in n + 1 .. n : v[i].file
        BY <1>1
      <4> QED
        BY <4>1 DEF Ahead
    <3> QED
      BY <1>0, <3>1, <3>3, <3>4, <3>5
  <2>3. CASE SkipFile
    <3>1. /\ v' = v /\ pipes' = pipes /\ pc = "start" /\ it' = it - 1 /\ clean' = clean
          /\ it \in 1 .. n /\ v[it].file
      BY <1>0, <1>1, <2>3 DEF SkipFile, Loops, Closing, Typed, histVars
    <3>2. PICK r : /\ Ahead(v, it, r) /\ Len(pipes) >= Owed(v, r)
                   /\ clean => Len(pipes) = Owed(v, r)
      BY <1>5, <3>1 DEF StackInv
    <3>3. Ahead(v, it - 1, r)
      BY <1>1, <3>1, <3>2, AheadOfFile
    <3> QED
      BY <3>1, <3>2, <3>3
  <2>4. CASE SkipSpecial
    <3>1. /\ v' = v /\ pipes' = pipes /\ pc = "start" /\ it' = it - 1 /\ clean' = clean
          /\ it \in 1 .. n /\ HandledInShell(v[it])
      BY <1>0, <1>1, <2>4 DEF SkipSpecial, Loops, Closing, Typed, histVars, execVars
    <3>2. PICK r : /\ Ahead(v, it, r) /\ Len(pipes) >= Owed(v, r)
                   /\ clean => Len(pipes) = Owed(v, r)
      BY <1>5, <3>1 DEF StackInv
    <3>3. CASE v[it].file
      <4>1. Ahead(v, it - 1, r)
        BY <1>1, <3>1, <3>2, <3>3, AheadOfFile
      <4> QED
        BY <3>1, <3>2, <4>1
    <3>4. CASE ~v[it].file
      <4>1. Ahead(v, it - 1, it - 1)
        BY <1>1, <3>1, <3>4, AheadOfProgram
      <4>2. /\ r \in 1 .. n /\ it - 1 \in 0 .. n /\ r - 1 \in 0 .. n /\ it - 1 <= r - 1
            /\ r \in 0 .. n
        BY <1>1, <3>1, <3>2 DEF Ahead
      <4>3. PipesTo(v, it - 1) <= PipesTo(v, r - 1)
        BY <1>1, <4>2, PipesCount
      <4>4. PipesTo(v, r) = PipesTo(v, r - 1) + Bit(v[r].pipe_out)
        BY <1>2, <4>2
      <4>5. Bit(Taken(v, r)) <= Bit(v[r].pipe_out)
        BY DEF Taken, Bit
      <4>6. /\ Bit(Taken(v, r)) \in {0, 1} /\ Bit(Taken(v, it - 1)) \in {0, 1}
            /\ Bit(v[r].pipe_out) \in {0, 1}
            /\ PipesTo(v, it - 1) \in Nat /\ PipesTo(v, r - 1) \in Nat /\ PipesTo(v, r) \in Nat
        BY <1>2, <4>2 DEF Bit
      <4>7. Owed(v, r) >= Owed(v, it - 1) /\ Owed(v, r) \in Int /\ Owed(v, it - 1) \in Int
        BY <4>3, <4>4, <4>5, <4>6 DEF Owed
      <4>8. Len(pipes) >= Owed(v, it - 1)
        BY <1>0, <3>2, <4>7
      <4>9. ASSUME clean PROVE Len(pipes) = Owed(v, it - 1)
        <5>1. CleanLine(v)
          BY <3>1, <4>9 DEF LineInv
        <5>2. n = 1 /\ v # <<>>
          <6>1. n = 1
            BY <1>1, <3>1, <5>1 DEF CleanLine
          <6> QED
            BY <6>1, EmptySeq
        <5>3. ~v[1].pipe_out
          BY <1>1, <5>1, <5>2 DEF CleanLine, Last
        <5>4. it = 1 /\ r = 1
          BY <3>1, <4>2, <5>2
        <5>5. 1 \in 1 .. n /\ 1 - 1 = 0
          BY <5>2
        <5>6. PipesTo(v, 1) = 0 /\ PipesTo(v, 0) = 0
          BY <1>2, <5>3, <5>5 DEF Bit
        <5>7. ~Taken(v, 1) /\ ~Taken(v, 0)
          BY <5>2 DEF Taken
        <5>8. Owed(v, 1) = 0 /\ Owed(v, 0) = 0
          BY <5>6, <5>7 DEF Owed, Bit
        <5> QED
          BY <3>2, <4>9, <5>4, <5>5, <5>8
      <4> QED
        BY <3>1, <4>1, <4>8, <4>9
    <3> QED
      BY <3>3, <3>4
  <2>5. CASE CreateProcess /\ Created(Wired)
    <3>1. PICK u : u = v'
      OBVIOUS
    <3>2. /\ u \in Seq(Entry) /\ AsBefore(u, v) /\ pc = "start" /\ clean' = clean
          /\ it \in 1 .. n /\ it' = it - 1 /\ Len(pipes') = Len(pipes) - Pops
          /\ \A j \in 1 .. n : u[j].pipe_out =
                IF j = it THEN Typed.pipe_out \/ PipesOut ELSE v[j].pipe_out
      BY <2>5, <3>1, ProgramStarts
    <3>3. Whole(v) /\ AtProgram /\ ~v[it].file
      <4>1. Whole(u) = Whole(v)
        BY <1>1, <3>2, CleanKeeps
      <4> QED
        BY <1>5, <2>5, <3>1, <4>1 DEF CreateProcess, AtProgram, Typed
    <3>4. PICK r : /\ Ahead(v, it, r) /\ Len(pipes) >= Owed(v, r)
                   /\ clean => Len(pipes) = Owed(v, r)
      BY <3>2, <3>3 DEF StackInv
    <3>5. /\ PipesTo(v, it - 1) \in Nat
          /\ Typed.pipe_in <=> Taken(v, it - 1)
          /\ Owed(v, r) >= 2 * PipesTo(v, it - 1) + Bit(PipesOut)
          /\ clean => Owed(v, r) = 2 * PipesTo(v, it - 1) + Bit(PipesOut)
          /\ r \in it .. n
      BY <3>2, <3>3, <3>4, StackSuffices
    <3>6. Pops = Bit(PipesOut) + Bit(Typed.pipe_in)
      BY DEF Pops, Bit
    <3>7. Bit(Typed.pipe_in) = Bit(Taken(v, it - 1))
      BY <3>5 DEF Bit
    <3>8. /\ Bit(PipesOut) \in {0, 1} /\ Bit(Taken(v, it - 1)) \in {0, 1}
          /\ Owed(v, r) \in Int
      <4>1. PipesTo(v, r) \in Nat /\ Bit(Taken(v, r)) \in {0, 1}
        BY <1>1, <1>2, <3>2, <3>5 DEF Bit
      <4> QED
        BY <4>1 DEF Bit, Owed
    <3>9. /\ Len(pipes') >= Owed(v, it - 1)
          /\ clean => Len(pipes') = Owed(v, it - 1)
      BY <1>0, <3>2, <3>4, <3>5, <3>6, <3>7, <3>8, SMTT(30) DEF Owed
    <3>10. Owed(u, it - 1) = Owed(v, it - 1)
      <4>1. it - 1 \in Nat /\ Len(u) = n /\ \A j \in 1 .. it - 1 : j \in 1 .. n /\ j # it
        BY <1>1, <3>2 DEF AsBefore
      <4>2. \A j \in 1 .. it - 1 : u[j].pipe_out = v[j].pipe_out
        BY <3>2, <4>1
      <4>3. PipesTo(u, it - 1) = PipesTo(v, it - 1)
        BY <4>1, <4>2, PipesSame
      <4>4. Taken(u, it - 1) <=> Taken(v, it - 1)
        <5>1. it - 1 \in 1 .. n - 1 => it - 1 \in 1 .. it - 1
          BY <1>1, <3>2
        <5> QED
          BY <4>1, <4>2, <5>1 DEF Taken
      <4> QED
        BY <4>3, <4>4 DEF Owed, Bit
    <3>11. Ahead(u, it - 1, it - 1)
      <4>1. Len(u) = n /\ ~u[it].file
        BY <3>2, <3>3 DEF AsBefore
      <4> QED
        BY <1>1, <3>2, <4>1, AheadOfProgram
    <3>12. Ahead(v', it', it - 1) /\ Owed(v', it - 1) = Owed(v, it - 1)
      BY <3>1, <3>2, <3>10, <3>11
    <3> QED
      BY <3>2, <3>9, <3>12
  <2> QED
    BY <1>5, <2>1, <2>2, <2>3, <2>4, <2>5, StepsOnTheStack
<1> QED
  BY <1>3, <1>4, <1>5 DEF StackInv

PipelineInv == ShellInv /\ LineInv /\ StackInv

THEOREM PipelineInvHolds == Spec => []PipelineInv
<1>1. Init => LineInv /\ StackInv
  BY DEF Init, LineInv, StackInv
<1>2. ShellInv /\ LineInv /\ StackInv /\ [Next]_vars => LineInv' /\ StackInv'
  BY LineKeeps, StackKeeps DEF ShellInv
<1> QED
  BY <1>1, <1>2, ShellInvHolds, PTL DEF Spec, PipelineInv

(* Ill-formed lines mix up the pipes, but the stack of their ends only     *)
(* runs out if a command is missing from the line.                         *)
THEOREM PopsNeedGapHolds == Spec => []PopsNeedGap
<1>1. PipelineInv => PopsNeedGap
  BY DEF PipelineInv, StackInv, Whole, PopsNeedGap
<1> QED
  BY <1>1, PipelineInvHolds, PTL

-----------------------------------------------------------------------------
(* What the programs of a clean line are connected to. *)

(* An object stays behind its handle until the handle is closed. *)
LEMMA ObjectsStay ==
    ASSUME HandlesInv, [Next]_vars
    PROVE  \A h \in DOMAIN openedHandles : h \in DOMAIN openedHandles' =>
              openedHandles'[h] = openedHandles[h]
<1> DEFINE Stay == \A h \in DOMAIN openedHandles : h \in DOMAIN openedHandles' =>
                      openedHandles'[h] = openedHandles[h]
<1>0. Types
  BY DEF HandlesInv
<1>1. ASSUME NEW t, \A h \in DOMAIN openedHandles : h \in DOMAIN t /\ t[h] = openedHandles[h],
             NEW H, openedHandles' = Closed(t, H)
      PROVE  Stay
  BY <1>1 DEF Closed
<1>2. CASE CreatePipe
  <2>1. \A h \in DOMAIN openedHandles : openedHandles'[h] = openedHandles[h]
    BY <1>2, PipeCreated
  <2> QED
    BY <2>1
<1>3. CASE CreateProcess
  <2>1. PICK t : t = IF Redirects THEN With(openedHandles, <<"file", it>>) ELSE openedHandles
    OBVIOUS
  <2>2. \A h \in DOMAIN openedHandles : h \in DOMAIN t /\ t[h] = openedHandles[h]
    BY <1>3, <2>1, TableWithFile DEF CreateProcess
  <2>3. openedHandles' = t \/ \E H : openedHandles' = Closed(t, H)
    BY <1>3, <2>1 DEF CreateProcess
  <2> QED
    BY <1>1, <2>2, <2>3
<1>4. CASE CloseEnd
  BY <1>1, <1>4 DEF CloseEnd
<1>5. ASSUME NEW n \in Numbers, ProgramOpens(n) PROVE Stay
  <2>1. PICK o : o = <<"own", n>>
    OBVIOUS
  <2>2. n \in Int
    <3>1. Running(n)
      BY <1>5 DEF ProgramOpens
    <3> QED
      BY <1>0, <3>1, LenProperties DEF Running, Types
  <2>3. o \in Objects
    BY <2>1, <2>2, Objects0
  <2>4. openedHandles' = With(openedHandles, o)
    BY <1>5, <2>1 DEF ProgramOpens
  <2> QED
    BY <1>0, <2>3, <2>4, WithIt, ZenonT(60) DEF Types
<1>6. ASSUME NEW n \in Numbers, ProgramCloses(n) PROVE Stay
  BY <1>1, <1>6 DEF ProgramCloses
<1>7. ASSUME NEW n \in Numbers, ProgramEnds(n) PROVE Stay
  BY <1>7 DEF ProgramEnds
<1>8. UNCHANGED openedHandles => Stay
  OBVIOUS
<1>9. \/ UNCHANGED openedHandles \/ CreatePipe \/ CreateProcess \/ CloseEnd
      \/ \E n \in Numbers : ProgramOpens(n) \/ ProgramCloses(n) \/ ProgramEnds(n)
  BY GivenUp DEF Next, ShellStep, vars, ReadLine, Leave, Exit, Echo, ChangeDirectory, NotSpecial,
         SpecialDone, Execute, PipesCreated, SkipSpecial, SkipFile, OpenFails, PopsTooMuch,
         AllStarted, WaitFor, EraseProgram, ExecuteReturns, Special
<1> QED
  BY <1>2, <1>3, <1>4, <1>5, <1>6, <1>7, <1>8, <1>9

(* The new program, and what its input and its output are if they are      *)
(* pipes.                                                                  *)
LEMMA ProgramWired ==
    ASSUME HandlesInv, CreateProcess, Created(Wired)
    PROVE  LET n == Len(programs) + 1
               l == Len(pipes) IN
           /\ Len(programs) \in Nat /\ l \in Nat /\ DOMAIN pipes = 1 .. l
           /\ Len(programs') = n /\ DOMAIN programs' = 1 .. n
           /\ \A i \in 1 .. Len(programs) : programs'[i] = programs[i]
           /\ PipesOut => programs'[n].to = openedHandles[pipes[l]]
           /\ Typed.pipe_in => programs'[n].from = openedHandles[pipes[l + 1 - Pops]]
<1>0. Types /\ AtProgram /\ Pops <= Len(pipes)
  BY DEF HandlesInv, CreateProcess
<1>1. PICK owner : Owns(owner)
  BY DEF HandlesInv
<1>2. PICK p, t, n, l :
         /\ p = Wired /\ n = Len(programs) + 1 /\ l = Len(pipes)
         /\ t = IF Redirects THEN With(openedHandles, <<"file", it>>) ELSE openedHandles
  OBVIOUS
<1>3. PICK r : r = [name |-> p.command[1], in |-> InOf(p), out |-> OutOf(p),
                    from |-> ObjectOf(t, InOf(p)), to |-> ObjectOf(t, OutOf(p)),
                    own |-> NoHandle, ended |-> FALSE]
  OBVIOUS
<1>4. programs' = Append(programs, r)
  BY <1>2, <1>3 DEF CreateProcess, Created
<1>5. /\ Len(programs) \in Nat /\ l \in Nat /\ DOMAIN pipes = 1 .. l /\ programs \in Seq(Started)
      /\ \A k \in 1 .. l : pipes[k] \in Nat
  BY <1>0, <1>2, LenProperties, ElementOfSeq DEF Types
<1>6. HandlesInv'
  BY StepKeepsHandles DEF Next, ShellStep
<1>7. /\ Len(programs') = n /\ DOMAIN programs' = 1 .. n
      /\ \A i \in 1 .. Len(programs) : programs'[i] = programs[i]
      /\ programs'[n] = r
  <2>1. programs' \in Seq(Started) /\ DOMAIN programs' = 1 .. Len(programs')
    BY <1>6, LenProperties DEF HandlesInv, Types
  <2>2. PICK s : s = programs
    OBVIOUS
  <2>3. PICK X : X = Started \cup {r}
    OBVIOUS
  <2>4. s \in Seq(X) /\ r \in X
    <3>1. s \in [1 .. Len(s) -> Started] /\ Len(s) \in Nat
      BY <1>5, <2>2, LenProperties
    <3>2. s \in [1 .. Len(s) -> X]
      BY <2>3, <3>1
    <3> QED
      BY <2>3, <3>1, <3>2, SeqDef
  <2>5. /\ Len(Append(s, r)) = Len(s) + 1
        /\ \A i \in 1 .. Len(s) : Append(s, r)[i] = s[i]
        /\ Append(s, r)[Len(s) + 1] = r
    BY <2>4, AppendProperties
  <2> QED
    BY <1>2, <1>4, <2>1, <2>2, <2>5
<1>8. /\ p.pipe_in_handle = IF Typed.pipe_in THEN pipes[l + 1 - Pops] ELSE NoHandle
      /\ p.pipe_out_handle = IF PipesOut THEN pipes[l] ELSE NoHandle
      /\ Pops = (IF PipesOut THEN 1 ELSE 0) + (IF Typed.pipe_in THEN 1 ELSE 0)
      /\ Pops \in 0 .. 2
  BY <1>0, <1>2, WiredEntry
<1>9. /\ \A h \in DOMAIN openedHandles : h \in DOMAIN t /\ t[h] = openedHandles[h]
  BY <1>0, <1>2, TableWithFile
<1>10. \A k \in 1 .. l : /\ pipes[k] # NoHandle
                         /\ ObjectOf(t, pipes[k]) = openedHandles[pipes[k]]
  <2> TAKE k \in 1 .. l
  <2>1. pipes[k] \in DOMAIN openedHandles /\ pipes[k] \in Nat
    BY <1>1, <1>5 DEF Owns, Owned
  <2> QED
    BY <1>9, <2>1 DEF ObjectOf, NoHandle
<1>11. ASSUME PipesOut PROVE r.to = openedHandles[pipes[l]]
  <2>1. l \in 1 .. l
    BY <1>0, <1>2, <1>5, <1>8, <1>11
  <2>2. p.pipe_out_handle = pipes[l] /\ pipes[l] # NoHandle
    BY <1>8, <1>10, <1>11, <2>1
  <2>3. OutOf(p) = pipes[l]
    BY <2>2 DEF OutOf, FirstOf
  <2> QED
    BY <1>3, <1>10, <2>1, <2>3
<1>12. ASSUME Typed.pipe_in PROVE r.from = openedHandles[pipes[l + 1 - Pops]]
  <2>1. l + 1 - Pops \in 1 .. l
    BY <1>0, <1>2, <1>5, <1>8, <1>12
  <2>2. PICK k : k = l + 1 - Pops
    OBVIOUS
  <2>3. p.pipe_in_handle = pipes[k] /\ pipes[k] # NoHandle /\ k \in 1 .. l
    BY <1>8, <1>10, <1>12, <2>1, <2>2
  <2>4. InOf(p) = pipes[k]
    BY <2>3 DEF InOf, FirstOf
  <2> QED
    BY <1>3, <1>10, <2>2, <2>3, <2>4
<1> QED
  BY <1>2, <1>5, <1>7, <1>11, <1>12

(* The ends of the pipes on the stack: the pipes of a line have numbers    *)
(* that follow each other, and the write end of each lies below its read   *)
(* end.                                                                    *)
Numbered(base) ==
    \A j \in Nat \ {0} :
        /\ 2 * j - 1 \in DOMAIN pipes => openedHandles[pipes[2 * j - 1]] = <<"write", base + j>>
        /\ 2 * j \in DOMAIN pipes => openedHandles[pipes[2 * j]] = <<"read", base + j>>

(* The program that was started last reads from the pipe behind the        *)
(* entries in front of it, if there are such entries.                      *)
LastReads(base) ==
    \A r : Ahead(program_vector, it, r) =>
        IF r = Len(program_vector) THEN programs = <<>>
        ELSE r # 0 => /\ programs # <<>>
                      /\ programs[Len(programs)].from =
                            <<"read", base + PipesTo(program_vector, r)>>

LinkInv ==
    /\ pc \in {"special", "newline", "pipes"} => programs = <<>>
    /\ pc \in {"pipes", "start"} =>
          \E base \in Int : /\ Numbered(base)
                            /\ pc = "pipes" => Len(pipes) = 2 * (pipesMade - base)
                            /\ pc = "start" /\ clean => LastReads(base)
    /\ NeighboursShareAPipe

(* The numbers of what is left of the stack stay as they are. *)
LEMMA StackIsNumbered ==
    ASSUME HandlesInv, [Next]_vars, NEW base, Numbered(base),
           Len(pipes') <= Len(pipes), \A k \in 1 .. Len(pipes') : pipes'[k] = pipes[k]
    PROVE  Numbered(base)'
<1>1. HandlesInv'
  BY StepKeepsHandles
<1>2. /\ Len(pipes) \in Nat /\ DOMAIN pipes = 1 .. Len(pipes)
      /\ Len(pipes') \in Nat /\ DOMAIN pipes' = 1 .. Len(pipes')
  BY <1>1, LenProperties DEF HandlesInv, Types
<1>3. ASSUME NEW k \in DOMAIN pipes'
      PROVE  /\ k \in DOMAIN pipes
             /\ openedHandles'[pipes'[k]] = openedHandles[pipes[k]]
  <2>1. k \in DOMAIN pipes /\ pipes'[k] = pipes[k]
    BY <1>2
  <2>2. PICK h : h = pipes[k]
    OBVIOUS
  <2>3. h \in DOMAIN openedHandles
    BY <2>1, <2>2 DEF HandlesInv, Owns, Owned
  <2>4. PICK t, s : t = openedHandles' /\ s = pipes'
    OBVIOUS
  <2>5. \E owner : \A i \in DOMAIN s : Owned(t, owner, s[i], Stacked(i))
    BY <1>1, <2>4 DEF HandlesInv, Owns
  <2>6. s[k] \in DOMAIN t
    BY <2>4, <2>5 DEF Owned
  <2> QED
    BY <2>1, <2>2, <2>3, <2>4, <2>6, ObjectsStay
<1> QED
  BY <1>3 DEF Numbered

(* What most steps leave alone. *)
LEMMA StepsOnTheLinks ==
    ASSUME HandlesInv, [Next]_vars
    PROVE  \/ ReadLine
           \/ CreateProcess /\ Created(Wired)
           \/ /\ programs' = programs /\ clean' = clean
           \/ /\ \E n \in Numbers : ProgramOpens(n) \/ ProgramCloses(n) \/ ProgramEnds(n)
              /\ UNCHANGED <<pc, it, program_vector, pipes, pipesMade, clean>>
<1>1. CASE \E n \in Numbers : ProgramOpens(n) \/ ProgramCloses(n) \/ ProgramEnds(n)
  <2>1. UNCHANGED <<pc, it, program_vector, pipes, pipesMade, clean>>
    BY <1>1 DEF ProgramOpens, ProgramCloses, ProgramEnds, Alone, histVars, execVars
  <2> QED
    BY <1>1, <2>1
<1>2. CASE CreateProcess /\ ~Created(Wired)
  BY <1>2 DEF CreateProcess, Created
<1>3. CASE Leave \/ Exit \/ Echo \/ ChangeDirectory \/ NotSpecial \/ SpecialDone
  BY <1>3 DEF Leave, Exit, Echo, ChangeDirectory, NotSpecial, SpecialDone, Special, histVars
<1>4. CASE Execute \/ CreatePipe \/ PipesCreated \/ SkipSpecial \/ SkipFile \/ OpenFails
             \/ PopsTooMuch \/ AllStarted
  BY <1>4 DEF Execute, CreatePipe, PipesCreated, SkipSpecial, SkipFile, OpenFails,
     PopsTooMuch, AllStarted, histVars
<1>5. CASE WaitFor \/ CloseEnd \/ EraseProgram \/ ExecuteReturns
  BY <1>5 DEF WaitFor, CloseEnd, EraseProgram, ExecuteReturns, Same
<1>6. CASE UNCHANGED vars
  BY <1>6 DEF vars, histVars
<1>7. CASE ReadLine
  BY <1>7
<1>8. CASE CreateProcess /\ Created(Wired)
  BY <1>8
<1> QED
  BY <1>1, <1>2, <1>3, <1>4, <1>5, <1>6, <1>7, <1>8, GivenUp DEF Next, ShellStep

(* A program event changes neither where a program reads nor where it      *)
(* writes.                                                                 *)
LEMMA EventsKeepLinks ==
    ASSUME HandlesInv, NEW n \in Numbers, ProgramOpens(n) \/ ProgramCloses(n) \/ ProgramEnds(n)
    PROVE  /\ Len(programs) \in Nat /\ DOMAIN programs = 1 .. Len(programs)
           /\ Len(programs') = Len(programs) /\ DOMAIN programs' = DOMAIN programs
           /\ \A i \in DOMAIN programs : /\ programs'[i].from = programs[i].from
                                         /\ programs'[i].to = programs[i].to
           /\ (programs' = <<>>) <=> (programs = <<>>)
<1>0. /\ programs \in Seq(Started) /\ DOMAIN programs = 1 .. Len(programs)
      /\ Len(programs) \in Nat /\ \A i \in 1 .. Len(programs) : programs[i] \in Started
  BY LenProperties, ElementOfSeq DEF HandlesInv, Types
<1>1. n \in DOMAIN programs
  BY DEF ProgramOpens, ProgramCloses, ProgramEnds, Running
<1>2. PICK own, ended : programs' = [programs EXCEPT ![n] =
                            [programs[n] EXCEPT !.own = own, !.ended = ended]]
  <2>1. programs[n] \in Started
    BY <1>0, <1>1
  <2>2. programs[n].own = programs[n].own /\ programs[n].ended = programs[n].ended
    OBVIOUS
  <2>3. CASE ProgramOpens(n)
    <3>1. PICK f : f = FirstFree(openedHandles)
      OBVIOUS
    <3>2. programs' = [programs EXCEPT ![n] = [programs[n] EXCEPT !.own = f]]
      BY <2>3, <3>1 DEF ProgramOpens
    <3>3. [programs[n] EXCEPT !.own = f] = [programs[n] EXCEPT !.own = f,
                                                 !.ended = programs[n].ended]
      BY <2>1 DEF Started
    <3> QED
      BY <3>2, <3>3
  <2>4. CASE ProgramCloses(n)
    <3>1. programs' = [programs EXCEPT ![n] = [programs[n] EXCEPT !.own = Spent]]
      BY <2>4 DEF ProgramCloses
    <3>2. [programs[n] EXCEPT !.own = Spent] = [programs[n] EXCEPT !.own = Spent,
                                                 !.ended = programs[n].ended]
      BY <2>1 DEF Started
    <3> QED
      BY <3>1, <3>2
  <2>5. CASE ProgramEnds(n)
    <3>1. programs' = [programs EXCEPT ![n] = [programs[n] EXCEPT !.ended = TRUE]]
      BY <2>5 DEF ProgramEnds
    <3>2. [programs[n] EXCEPT !.ended = TRUE] = [programs[n] EXCEPT !.own = programs[n].own,
                                                 !.ended = TRUE]
      BY <2>1 DEF Started
    <3> QED
      BY <3>1, <3>2
  <2> QED
    BY <2>3, <2>4, <2>5
<1>3. PICK e : e = [programs[n] EXCEPT !.own = own, !.ended = ended]
  OBVIOUS
<1>4. e.from = programs[n].from /\ e.to = programs[n].to
  BY <1>0, <1>1, <1>3 DEF Started
<1>5. programs' = [programs EXCEPT ![n] = e]
  BY <1>2, <1>3
<1>6. programs' \in Seq(Started)
  <2>1. HandlesInv'
    BY StepKeepsHandles DEF Next
  <2> QED
    BY <2>1 DEF HandlesInv, Types
<1>7. DOMAIN programs' = DOMAIN programs /\ Len(programs') = Len(programs)
  BY <1>0, <1>5, <1>6, LenProperties
<1>8. (programs' = <<>>) <=> (programs = <<>>)
  BY <1>0, <1>6, <1>7, EmptySeq
<1> QED
  BY <1>0, <1>1, <1>4, <1>5, <1>7, <1>8

LEMMA StartKeepsLinks ==
    ASSUME HandlesInv, LineInv, StackInv, LinkInv, CreateProcess, Created(Wired)
    PROVE  LinkInv'
<1> DEFINE v == program_vector
           n == Len(program_vector)
           m == Len(programs)
           l == Len(pipes)
           P(i) == PipesTo(program_vector, i)
<1>0. /\ [Next]_vars /\ AtProgram /\ pc = "start"
  BY DEF Next, ShellStep, CreateProcess, AtProgram
<1>1. /\ n \in Nat /\ v \in Seq(Entry) /\ DOMAIN v = 1 .. n
      /\ \A i \in 1 .. n : v[i] \in Entry
  BY LenProperties, ElementOfSeq DEF HandlesInv, Types
<1>2. /\ v' \in Seq(Entry) /\ AsBefore(v', v) /\ pc' = "start" /\ clean' = clean
      /\ it \in 1 .. n /\ it' = it - 1 /\ Len(pipes') = l - Pops
      /\ \A j \in 1 .. n : v'[j].pipe_out =
            IF j = it THEN Typed.pipe_out \/ PipesOut ELSE v[j].pipe_out
      /\ \A k \in 1 .. Len(pipes') : pipes'[k] = pipes[k]
      /\ Pops \in 0 .. 2
  BY ProgramStarts
<1>3. /\ m \in Nat /\ l \in Nat /\ DOMAIN pipes = 1 .. l
      /\ Len(programs') = m + 1 /\ DOMAIN programs' = 1 .. m + 1
      /\ \A i \in 1 .. m : programs'[i] = programs[i]
      /\ PipesOut => programs'[m + 1].to = openedHandles[pipes[l]]
      /\ Typed.pipe_in => programs'[m + 1].from = openedHandles[pipes[l + 1 - Pops]]
  BY ProgramWired
<1>4. PICK base \in Int : Numbered(base) /\ (clean => LastReads(base))
  BY <1>0 DEF LinkInv
<1>5. Numbered(base)'
  <2>1. Len(pipes') <= Len(pipes)
    BY <1>2, <1>3
  <2> QED
    BY <1>0, <1>2, <1>4, <2>1, StackIsNumbered
<1>6. ASSUME clean
      PROVE  /\ m >= 1 => /\ programs'[m + 1].to[1] = "write"
                          /\ programs[m].from = <<"read", programs'[m + 1].to[2]>>
             /\ it - 1 # 0 => programs'[m + 1].from = <<"read", base + P(it - 1)>>
  <2>1. CleanLine(v) /\ Whole(v)
    BY <1>0, <1>6, CleanIsWhole DEF LineInv
  <2>2. PICK r : Ahead(v, it, r) /\ l = Owed(v, r)
    BY <1>0, <1>6, <2>1 DEF StackInv
  <2>3. /\ r \in it .. n /\ (Typed.pipe_in <=> Taken(v, it - 1))
        /\ P(it - 1) \in Nat /\ P(it - 1) >= Bit(Typed.pipe_in)
        /\ l = 2 * P(it - 1) + Bit(PipesOut)
        /\ PipesOut <=> r < n
        /\ r < n => P(r) = P(it - 1) + 1
    BY <1>0, <1>6, <2>1, <2>2, StackSuffices
  <2>4. Pops = Bit(PipesOut) + Bit(Typed.pipe_in)
    BY DEF Pops, Bit
  <2>5. ASSUME m >= 1
        PROVE  /\ programs'[m + 1].to[1] = "write"
               /\ programs[m].from = <<"read", programs'[m + 1].to[2]>>
    <3>1. programs # <<>>
      BY <1>3, <2>5, EmptySeq
    <3>2. r # n
      BY <1>4, <1>6, <2>2, <3>1 DEF LastReads
    <3>a. r \in it .. n /\ it \in 1 .. n /\ n \in Nat /\ r # n
      BY <1>1, <1>2, <2>3, <3>2
    <3>3. r # 0 /\ r < n
      BY <3>a
    <3>4. programs[m].from = <<"read", base + P(r)>>
      BY <1>4, <1>6, <2>2, <3>2, <3>3 DEF LastReads
    <3>5. PipesOut /\ Bit(PipesOut) = 1
      BY <2>3, <3>3 DEF Bit
    <3>b. PICK k : k = P(it - 1)
      OBVIOUS
    <3>c. k \in Nat /\ l = 2 * k + 1 /\ P(r) = k + 1
      BY <2>3, <3>3, <3>5, <3>b
    <3>6. P(r) \in Nat \ {0} /\ l = 2 * P(r) - 1
      BY <3>c
    <3>7. 2 * P(r) - 1 \in DOMAIN pipes
      BY <1>3, <3>6
    <3>8. openedHandles[pipes[2 * P(r) - 1]] = <<"write", base + P(r)>>
      BY <1>4, <3>6, <3>7 DEF Numbered
    <3>9. programs'[m + 1].to = <<"write", base + P(r)>>
      BY <1>3, <3>5, <3>6, <3>8
    <3> QED
      BY <3>4, <3>9
  <2>6. ASSUME it - 1 # 0
        PROVE  programs'[m + 1].from = <<"read", base + P(it - 1)>>
    <3>1. it - 1 \in 1 .. n - 1 /\ it - 1 \in 1 .. n /\ it - 1 <= it /\ (it - 1) + 1 = it
      BY <1>1, <1>2, <2>6
    <3>2. Joined(v, it - 1)
      BY <1>0, <2>1, <3>1 DEF LineInv
    <3>3. ~v[it].file
      BY <1>0 DEF AtProgram, Typed
    <3>4. v[it - 1].pipe_out
      BY <1>1, <3>1, <3>2, <3>3 DEF Joined, Entry
    <3>5. Taken(v, it - 1)
      BY <3>1, <3>4 DEF Taken
    <3>6. Typed.pipe_in /\ Bit(Typed.pipe_in) = 1
      BY <2>3, <3>5 DEF Bit
    <3>7. PICK k : k = P(it - 1)
      OBVIOUS
    <3>8. Bit(PipesOut) \in Nat
      BY DEF Bit
    <3>a. k \in Nat /\ k >= 1 /\ l = 2 * k + Bit(PipesOut)
      BY <2>3, <3>6, <3>7
    <3>b. Pops = Bit(PipesOut) + 1
      BY <2>4, <3>6
    <3>9. k \in Nat \ {0} /\ l + 1 - Pops = 2 * k /\ 2 * k \in 1 .. l
      BY <3>8, <3>a, <3>b
    <3>10. openedHandles[pipes[2 * k]] = <<"read", base + k>>
      BY <1>3, <1>4, <3>9 DEF Numbered
    <3> QED
      BY <1>3, <3>6, <3>7, <3>9, <3>10
  <2> QED
    BY <2>5, <2>6
<1>7. clean' => LastReads(base)'
  <2>1. SUFFICES ASSUME clean PROVE LastReads(base)'
    BY <1>2
  <2>2. PICK u, i, q : u = v' /\ i = it - 1 /\ q = programs'
    OBVIOUS
  <2>3. Len(u) = n /\ ~u[it].file
    BY <1>0, <1>2, <2>2 DEF AsBefore, AtProgram, Typed
  <2>4. Ahead(u, i, i)
    BY <1>1, <1>2, <2>2, <2>3, AheadOfProgram
  <2>5. i \in Nat /\ i # n /\ Len(u) \in Nat
    BY <1>1, <1>2, <2>2, <2>3
  <2>6. PipesTo(u, i) = P(i)
    <3>1. \A j \in 1 .. i : j \in 1 .. n /\ j # it
      BY <1>1, <1>2, <2>2
    <3>2. \A j \in 1 .. i : u[j].pipe_out = v[j].pipe_out
      BY <1>2, <2>2, <3>1
    <3> QED
      BY <2>5, <3>2, PipesSame
  <2>7. q # <<>>
    BY <1>3, <2>2, EmptySeq
  <2>8. Len(q) = m + 1 /\ (i # 0 => q[Len(q)].from = <<"read", base + P(i)>>)
    BY <1>3, <1>6, <2>1, <2>2
  <2>9. ASSUME NEW r, Ahead(u, i, r)
        PROVE  IF r = Len(u) THEN q = <<>>
               ELSE r # 0 => q # <<>> /\ q[Len(q)].from = <<"read", base + PipesTo(u, r)>>
    <3>1. r = i
      BY <2>4, <2>5, <2>9, OneAhead
    <3> QED
      BY <2>3, <2>5, <2>6, <2>7, <2>8, <3>1
  <2>10. u = v' /\ i = it' /\ q = programs'
    BY <1>2, <2>2
  <2> QED
    BY <2>9, <2>10 DEF LastReads
<1>8. NeighboursShareAPipe'
  <2>1. SUFFICES ASSUME clean, NEW i \in 2 .. m + 1
                 PROVE  /\ programs'[i].to[1] = "write"
                        /\ programs'[i - 1].from = <<"read", programs'[i].to[2]>>
    BY <1>2, <1>3 DEF NeighboursShareAPipe
  <2>2. i - 1 \in 1 .. m /\ programs'[i - 1] = programs[i - 1]
    BY <1>3
  <2>3. CASE i = m + 1
    BY <1>3, <1>6, <2>1, <2>2, <2>3
  <2>4. CASE i # m + 1
    <3>1. i \in 2 .. Len(programs) /\ i \in 1 .. m
      BY <1>3, <2>4
    <3> QED
      BY <1>3, <2>1, <2>2, <3>1 DEF LinkInv, NeighboursShareAPipe
  <2> QED
    BY <2>3, <2>4
<1> QED
  BY <1>2, <1>5, <1>7, <1>8 DEF LinkInv

LEMMA LinkKeeps ==
    ASSUME HandlesInv, LineInv, StackInv, LinkInv, [Next]_vars PROVE LinkInv'
<1> DEFINE v == program_vector
           n == Len(program_vector)
<1>0. Types /\ Loops
  BY DEF HandlesInv
<1>1. n \in Nat /\ DOMAIN v = 1 .. n /\ Len(pipes) \in Nat
  BY <1>0, LenProperties DEF Types
<1>2. CASE CreateProcess /\ Created(Wired)
  BY <1>2, StartKeepsLinks
<1>3. CASE ReadLine
  <2>1. pc' \in {"special", "aborted"} /\ programs' = <<>>
    BY <1>3 DEF ReadLine
  <2>2. Len(programs') = 0
    BY <2>1, EmptySeq
  <2> QED
    BY <2>1, <2>2 DEF LinkInv, NeighboursShareAPipe
<1>4. CASE /\ \E i \in Numbers : ProgramOpens(i) \/ ProgramCloses(i) \/ ProgramEnds(i)
           /\ UNCHANGED <<pc, it, program_vector, pipes, pipesMade, clean>>
  <2>1. PICK i \in Numbers : ProgramOpens(i) \/ ProgramCloses(i) \/ ProgramEnds(i)
    BY <1>4
  <2>2. /\ Len(programs) \in Nat /\ DOMAIN programs = 1 .. Len(programs)
        /\ Len(programs') = Len(programs) /\ DOMAIN programs' = DOMAIN programs
        /\ \A j \in DOMAIN programs : /\ programs'[j].from = programs[j].from
                                      /\ programs'[j].to = programs[j].to
        /\ (programs' = <<>>) <=> (programs = <<>>)
    BY <2>1, EventsKeepLinks
  <2>3. NeighboursShareAPipe'
    <3>1. SUFFICES ASSUME clean, NEW j \in 2 .. Len(programs)
                   PROVE  /\ programs'[j].to[1] = "write"
                          /\ programs'[j - 1].from = <<"read", programs'[j].to[2]>>
      BY <1>4, <2>2 DEF NeighboursShareAPipe
    <3>2. j \in DOMAIN programs /\ j - 1 \in DOMAIN programs
      BY <2>2
    <3> QED
      BY <2>2, <3>1, <3>2 DEF LinkInv, NeighboursShareAPipe
  <2>4. pc' \in {"special", "newline", "pipes"} => programs' = <<>>
    BY <1>4, <2>2 DEF LinkInv
  <2>5. ASSUME pc' \in {"pipes", "start"}
        PROVE  \E base \in Int : /\ Numbered(base)'
                                 /\ pc' = "pipes" => Len(pipes') = 2 * (pipesMade' - base)
                                 /\ pc' = "start" /\ clean' => LastReads(base)'
    <3>1. PICK base \in Int : /\ Numbered(base)
                              /\ pc = "pipes" => Len(pipes) = 2 * (pipesMade - base)
                              /\ pc = "start" /\ clean => LastReads(base)
      BY <1>4, <2>5 DEF LinkInv
    <3>2. Numbered(base)'
      BY <1>1, <1>4, <3>1, StackIsNumbered
    <3>3. ASSUME LastReads(base) PROVE LastReads(base)'
      <4>1. PICK q : q = programs'
        OBVIOUS
      <4>2. /\ Len(q) = Len(programs)
            /\ (q = <<>>) <=> (programs = <<>>)
            /\ programs # <<>> => q[Len(q)].from = programs[Len(programs)].from
        <5>1. programs # <<>> => Len(programs) \in DOMAIN programs
          <6>1. programs \in Seq(Started)
            BY <1>0 DEF Types
          <6>2. programs # <<>> => Len(programs) # 0
            BY <6>1, EmptySeq
          <6> QED
            BY <2>2, <6>2
        <5> QED
          BY <2>2, <4>1, <5>1
      <4>3. ASSUME NEW r, Ahead(v, it, r)
            PROVE  IF r = n THEN q = <<>>
                   ELSE r # 0 => q # <<>> /\ q[Len(q)].from = <<"read", base + PipesTo(v, r)>>
        <5>1. IF r = n THEN programs = <<>>
              ELSE r # 0 => /\ programs # <<>>
                            /\ programs[Len(programs)].from = <<"read", base + PipesTo(v, r)>>
          BY <3>3, <4>3 DEF LastReads
        <5>2. CASE r = n
          BY <4>2, <5>1, <5>2
        <5>3. CASE r # n
          <6>1. ASSUME r # 0
                PROVE  q # <<>> /\ q[Len(q)].from = <<"read", base + PipesTo(v, r)>>
            BY <4>2, <5>1, <5>3, <6>1
          <6> QED
            BY <5>3, <6>1
        <5> QED
          BY <5>2, <5>3
      <4>4. v' = v /\ it' = it /\ q = programs'
        BY <1>4, <4>1
      <4> QED
        BY <4>3, <4>4 DEF LastReads
    <3> QED
      BY <1>4, <3>1, <3>2, <3>3
  <2> QED
    BY <2>3, <2>4, <2>5 DEF LinkInv
<1>5. ASSUME programs' = programs, clean' = clean PROVE LinkInv'
  <2>1. NeighboursShareAPipe'
    BY <1>5 DEF LinkInv, NeighboursShareAPipe
  <2>2. pc' \in {"special", "newline", "pipes"} => programs' = <<>>
    <3>1. pc' \in {"special", "newline", "pipes"} =>
             ReadLine \/ pc \in {"special", "newline", "pipes"}
      <4>1. WaitFor => pc' = "close"
        BY WaitForKeeps
      <4> QED
        BY <4>1, GivenUp DEF Next, ShellStep, vars, Leave, Exit, Echo, ChangeDirectory, NotSpecial,
           SpecialDone, Execute, CreatePipe, PipesWanted, PipesCreated, SkipSpecial, SkipFile,
           OpenFails, PopsTooMuch, CreateProcess, AtProgram, AllStarted, CloseEnd, EraseProgram,
           ExecuteReturns, AtCommand, ProgramOpens, ProgramCloses, ProgramEnds, Alone
    <3>2. ReadLine => programs' = <<>>
      BY DEF ReadLine
    <3> QED
      BY <1>5, <3>1, <3>2 DEF LinkInv
  <2>3. ASSUME pc' = "pipes"
        PROVE  \E base \in Int : Numbered(base)' /\ Len(pipes') = 2 * (pipesMade' - base)
    <3>1. CASE Execute
      <4>1. pipes' = <<>> /\ pipesMade' = pipesMade /\ pipesMade \in Int
        BY <1>0, <2>3, <3>1 DEF Execute, Types
      <4>2. Len(pipes') = 2 * (pipesMade' - pipesMade)
        BY <4>1, EmptySeq
      <4>3. DOMAIN pipes' = {}
        BY <4>1, EmptySeq
      <4>4. Numbered(pipesMade)'
        BY <4>1, <4>3 DEF Numbered
      <4> QED
        BY <4>1, <4>2, <4>4
    <3>2. CASE CreatePipe
      <4>1. PICK base \in Int : Numbered(base) /\ Len(pipes) = 2 * (pipesMade - base)
        BY <3>2 DEF CreatePipe, PipesWanted, LinkInv
      <4>2. PICK m, k, t, s : m = Len(pipes) /\ k = pipesMade + 1 /\ t = openedHandles' /\ s = pipes'
        OBVIOUS
      <4>3. /\ m \in Nat /\ Len(s) = m + 2 /\ DOMAIN s = 1 .. m + 2
            /\ \A i \in 1 .. m : s[i] = pipes[i]
            /\ t[s[m + 1]] = <<"write", k>> /\ t[s[m + 2]] = <<"read", k>>
            /\ \A h \in DOMAIN openedHandles : t[h] = openedHandles[h]
            /\ pipesMade' = k
        BY <3>2, <4>2, PipeCreated
      <4>4. /\ pipesMade \in Int /\ DOMAIN pipes = 1 .. m
            /\ \A i \in 1 .. m : pipes[i] \in DOMAIN openedHandles
        <5>1. pipesMade \in Int /\ DOMAIN pipes = 1 .. m
          BY <1>0, <4>2, LenProperties DEF Types
        <5> QED
          BY <5>1 DEF HandlesInv, Owns, Owned
      <4>5. PICK c : c = pipesMade - base
        OBVIOUS
      <4>6. c \in Nat /\ m = 2 * c /\ k = base + (c + 1) /\ c + 1 \in Nat
        BY <4>1, <4>2, <4>3, <4>4, <4>5
      <4>7. ASSUME NEW j \in Nat \ {0}
            PROVE  /\ 2 * j - 1 \in DOMAIN s => t[s[2 * j - 1]] = <<"write", base + j>>
                   /\ 2 * j \in DOMAIN s => t[s[2 * j]] = <<"read", base + j>>
        <5>1. CASE j <= c
          <6>1. 2 * j - 1 \in 1 .. m /\ 2 * j \in 1 .. m
            BY <4>6, <5>1
          <6>2. /\ t[s[2 * j - 1]] = openedHandles[pipes[2 * j - 1]]
                /\ t[s[2 * j]] = openedHandles[pipes[2 * j]]
            BY <4>3, <4>4, <6>1
          <6> QED
            BY <4>1, <4>4, <6>1, <6>2 DEF Numbered
        <5>2. CASE j = c + 1
          <6>1. 2 * j - 1 = m + 1 /\ 2 * j = m + 2 /\ base + j = k
            BY <4>6, <5>2
          <6> QED
            BY <4>3, <6>1
        <5>3. CASE j > c + 1
          <6>1. 2 * j - 1 \notin 1 .. m + 2 /\ 2 * j \notin 1 .. m + 2
            BY <4>6, <5>3
          <6> QED
            BY <4>3, <6>1
        <5> QED
          BY <4>6, <5>1, <5>2, <5>3
      <4>8. Len(s) = 2 * (pipesMade' - base)
        BY <4>3, <4>6
      <4>9. t = openedHandles' /\ s = pipes'
        BY <4>2
      <4>10. Numbered(base)'
        BY <4>7, <4>9 DEF Numbered
      <4> QED
        BY <4>8, <4>9, <4>10
    <3>3. CASE UNCHANGED <<pc, v, pipes>>
      <4>1. PICK base \in Int : Numbered(base) /\ Len(pipes) = 2 * (pipesMade - base)
        BY <2>3, <3>3 DEF LinkInv
      <4>2. Numbered(base)'
        BY <1>1, <3>3, <4>1, StackIsNumbered
      <4>3. pipesMade' = pipesMade \/ CreatePipe
        BY GivenUp DEF Next, ShellStep, vars, ReadLine, Leave, Exit, Echo, ChangeDirectory,
           NotSpecial,
           SpecialDone, Execute, PipesCreated, SkipSpecial, SkipFile,
           OpenFails, PopsTooMuch, CreateProcess, AllStarted, WaitFor, CloseEnd, EraseProgram,
           ExecuteReturns, ProgramOpens, ProgramCloses, ProgramEnds, Alone, Special, Same
      <4> QED
        BY <3>2, <3>3, <4>1, <4>2, <4>3
    <3> QED
      BY <2>3, <3>1, <3>2, <3>3, StepsOnTheStack
  <2>4. ASSUME pc' = "start"
        PROVE  \E base \in Int : Numbered(base)' /\ (clean => LastReads(base)')
    <3>1. \/ PipesCreated \/ SkipSpecial \/ SkipFile
          \/ UNCHANGED <<pc, it, v, pipes, clean>>
      <4>1. ~(CreateProcess /\ Created(Wired))
        <5>1. CreateProcess /\ Created(Wired) => Len(programs') = Len(programs) + 1
                                                 /\ Len(programs) \in Nat
          BY ProgramWired
        <5> QED
          BY <1>5, <5>1
      <4> QED
        BY <2>4, <4>1, StepsOnTheStack
    <3>2. UNCHANGED <<v, pipes>> /\ pc \in {"pipes", "start"}
      BY <2>4, <3>1 DEF PipesCreated, SkipSpecial, SkipFile, execVars
    <3>3. PICK base \in Int : Numbered(base) /\ (pc = "start" /\ clean => LastReads(base))
      BY <3>2 DEF LinkInv
    <3>4. Numbered(base)'
      BY <1>1, <3>2, <3>3, StackIsNumbered
    <3>5. ASSUME clean, NEW r, Ahead(v, it', r)
          PROVE  IF r = n THEN programs = <<>>
                 ELSE r # 0 => /\ programs # <<>>
                               /\ programs[Len(programs)].from = <<"read", base + PipesTo(v, r)>>
      <4>1. CASE PipesCreated
        <5>1. it' = it /\ it = n /\ programs = <<>>
          BY <1>0, <4>1 DEF PipesCreated, LinkInv, Loops, Closing
        <5>2. r \in n .. n
          BY <3>5, <5>1 DEF Ahead
        <5>3. r = n
          <6>1. PICK m : m = n
            OBVIOUS
          <6>2. m \in Nat /\ r \in m .. m
            BY <1>1, <5>2, <6>1
          <6>3. r = m
            BY <6>2
          <6> QED
            BY <6>1, <6>3
        <5> QED
          BY <5>1, <5>3
      <4>2. CASE UNCHANGED <<pc, it, v, pipes, clean>>
        BY <2>4, <3>3, <3>5, <4>2 DEF LastReads
      <4>3. CASE SkipFile \/ SkipSpecial
        <5>1. /\ it' = it - 1 /\ it \in 1 .. n /\ pc = "start"
              /\ v[it].file \/ HandledInShell(v[it])
          BY <1>0, <1>1, <4>3 DEF SkipFile, SkipSpecial, Typed, Loops, Closing
        <5>2. CleanLine(v) /\ Whole(v)
          BY <3>5, <5>1, CleanIsWhole DEF LineInv
        <5>3. PICK q : Ahead(v, it, q)
          BY <5>1, <5>2 DEF StackInv
        <5>4. CASE v[it].file
          <6>1. Ahead(v, it - 1, q)
            BY <1>1, <5>1, <5>3, <5>4, AheadOfFile
          <6>2. it - 1 \in Nat
            BY <1>1, <5>1
          <6>3. r = q
            BY <1>1, <3>5, <5>1, <6>1, <6>2, OneAhead
          <6> QED
            BY <3>3, <3>5, <5>1, <5>3, <6>3 DEF LastReads
        <5>5. CASE ~v[it].file
          <6>1. Ahead(v, it - 1, it - 1)
            BY <1>1, <5>1, <5>5, AheadOfProgram
          <6>2. it - 1 \in Nat
            BY <1>1, <5>1
          <6>3. r = it - 1
            BY <1>1, <3>5, <5>1, <6>1, <6>2, OneAhead
          <6>4. n = 1
            BY <1>1, <5>1, <5>2, <5>5 DEF CleanLine
          <6>5. r = 0 /\ r # n
            BY <5>1, <6>3, <6>4
          <6> QED
            BY <6>5
        <5> QED
          BY <5>4, <5>5
      <4> QED
        BY <3>1, <4>1, <4>2, <4>3
    <3>6. clean => LastReads(base)'
      BY <1>5, <3>2, <3>5 DEF LastReads
    <3> QED
      BY <3>4, <3>6
  <2> QED
    BY <1>5, <2>1, <2>2, <2>3, <2>4 DEF LinkInv
<1> QED
  BY <1>2, <1>3, <1>4, <1>5, StepsOnTheLinks

(* The programs of a clean line hang together: each writes to the write    *)
(* end of the pipe whose read end the next one reads, and a file takes the *)
(* place of the console only at the ends of the line.                      *)
THEOREM NeighboursShareAPipeHolds == Spec => []NeighboursShareAPipe
<1>1. Init => LinkInv
  <2>1. Len(<<>>) = 0
    BY EmptySeq
  <2> QED
    BY <2>1 DEF Init, LinkInv, NeighboursShareAPipe
<1>2. PipelineInv /\ LinkInv /\ [Next]_vars => LinkInv'
  BY LinkKeeps DEF PipelineInv, ShellInv
<1>3. LinkInv => NeighboursShareAPipe
  BY DEF LinkInv
<1> QED
  BY <1>1, <1>2, <1>3, PipelineInvHolds, PTL DEF Spec

-----------------------------------------------------------------------------
(* What is left open.  While a clean line is worked on of which nothing    *)
(* failed, every handle but those of the console is held: it is on the     *)
(* stack, or it is the file of a program, or it is an end of an entry that *)
(* was started, and that is still to be closed.                            *)

OnStack(h)  == \E k \in DOMAIN pipes : pipes[k] = h
OwnFile(h)  == \E n \in DOMAIN programs : HasFile(n) /\ programs[n].own = h
EntryEnd(h) == \E i \in DOMAIN program_vector : \E k \in 1 .. 4 :
                  /\ program_vector[i].handle # NoHandle
                  /\ ~Gone(program_vector[i].handle, k)
                  /\ h \in FlaggedEnds(program_vector[i])[k]
Held(h)     == OnStack(h) \/ OwnFile(h) \/ EntryEnd(h)
AllHeld     == \A h \in DOMAIN openedHandles : h \in {std_in, std_out} \/ Held(h)

(* An entry that was started waits for its program. *)
EntriesWait ==
    \A i \in DOMAIN program_vector : program_vector[i].handle # NoHandle =>
        \E a \in DOMAIN active_handles : active_handles[a] = program_vector[i].handle

Busy == {"pipes", "start", "wait", "close"}
Idle == {"read", "special", "newline"}

LeftInv ==
    /\ EntriesWait
    /\ \A h \in {std_in, std_out} : openedHandles[h] = Console[h]
    /\ clean /\ failed = {} /\ pc \in {"wait", "close"} => pipes = <<>>
    /\ spotless /\ pc \in Idle => DOMAIN openedHandles \subseteq {std_in, std_out}
    /\ spotless /\ clean /\ failed = {} /\ pc \in Busy => AllHeld

(* The rest of a sequence without one element. *)
LEMMA RemovedRest ==
    ASSUME NEW X, NEW u \in Seq(X), NEW k \in DOMAIN u
    PROVE  LET w == RemoveAt(u, k) IN
           /\ \A i \in DOMAIN w : \E j \in DOMAIN u : j # k /\ w[i] = u[j]
           /\ \A j \in DOMAIN u : j # k => \E i \in DOMAIN w : w[i] = u[j]
<1>1. PICK w : w = RemoveAt(u, k)
  OBVIOUS
<1>2. PICK m : m = Len(u)
  OBVIOUS
<1>3. m \in Nat /\ DOMAIN u = 1 .. m /\ k \in 1 .. m
  BY <1>2, LenProperties
<1>4. DOMAIN w = 1 .. m - 1 /\ \A i \in 1 .. m - 1 : w[i] = u[IF i < k THEN i ELSE i + 1]
  BY <1>1, <1>2, RemovedAt, LenProperties
<1>5. ASSUME NEW i \in DOMAIN w PROVE \E j \in DOMAIN u : j # k /\ w[i] = u[j]
  <2>1. CASE i < k
    <3>1. i \in DOMAIN u /\ i # k /\ w[i] = u[i]
      BY <1>3, <1>4, <2>1
    <3> QED
      BY <3>1
  <2>2. CASE ~(i < k)
    <3>1. i + 1 \in DOMAIN u /\ i + 1 # k /\ w[i] = u[i + 1]
      BY <1>3, <1>4, <2>2
    <3> QED
      BY <3>1
  <2> QED
    BY <2>1, <2>2
<1>6. ASSUME NEW j \in DOMAIN u, j # k PROVE \E i \in DOMAIN w : w[i] = u[j]
  <2>1. CASE j < k
    <3>1. j \in 1 .. m - 1
      BY <1>3, <2>1
    <3>2. j \in DOMAIN w /\ w[j] = u[j]
      BY <1>4, <2>1, <3>1
    <3> QED
      BY <3>2
  <2>2. CASE ~(j < k)
    <3>1. j - 1 \in 1 .. m - 1 /\ ~(j - 1 < k) /\ (j - 1) + 1 = j
      BY <1>3, <1>6, <2>2
    <3>2. j - 1 \in DOMAIN w /\ w[j - 1] = u[j]
      BY <1>4, <3>1
    <3> QED
      BY <3>2
  <2> QED
    BY <2>1, <2>2
<1> QED
  BY <1>1, <1>5, <1>6

(* How a handle is held after a step. *)
LEMMA HeldAfter ==
    ASSUME NEW h
    PROVE  /\ \A k \in DOMAIN pipes' : pipes'[k] = h => Held(h)'
           /\ \A n \in DOMAIN programs' :
                 programs'[n].own = h /\ h \notin {NoHandle, Spent} => Held(h)'
           /\ \A i \in DOMAIN program_vector' : \A k \in 1 .. 4 :
                 /\ program_vector'[i].handle # NoHandle
                 /\ pc' \notin Closing \/ program_vector'[i].handle # active_handles'[signaled']
                    \/ ~(k < closing')
                 /\ h \in FlaggedEnds(program_vector'[i])[k]
                 => Held(h)'
<1>1. ASSUME NEW k \in DOMAIN pipes', pipes'[k] = h PROVE Held(h)'
  BY <1>1 DEF Held, OnStack
<1>2. ASSUME NEW n \in DOMAIN programs', programs'[n].own = h, h \notin {NoHandle, Spent}
      PROVE  Held(h)'
  BY <1>2 DEF Held, OwnFile, HasFile
<1>3. ASSUME NEW i \in DOMAIN program_vector', NEW k \in 1 .. 4,
             program_vector'[i].handle # NoHandle,
             pc' \notin Closing \/ program_vector'[i].handle # active_handles'[signaled']
             \/ ~(k < closing'),
             h \in FlaggedEnds(program_vector'[i])[k]
      PROVE  Held(h)'
  <2>1. \A p : FlaggedEnds(p)' = FlaggedEnds(p)
    BY DEF FlaggedEnds, Flagged
  <2>2. EntryEnd(h)'
    BY <1>3, <2>1 DEF EntryEnd, Gone, Closing
  <2> QED
    BY <2>2 DEF Held
<1> QED
  BY <1>1, <1>2, <1>3

(* Steps that only move on. *)
LEMMA HeldQuietly ==
    ASSUME AllHeld, UNCHANGED <<openedHandles, pipes, programs, program_vector>>,
           \/ pc' \notin Closing \/ closing' = 1
           \/ UNCHANGED <<pc, active_handles, signaled, closing>>
    PROVE  AllHeld'
<1>1. SUFFICES ASSUME NEW h \in DOMAIN openedHandles, Held(h) PROVE Held(h)'
  BY DEF AllHeld
<1>2. OnStack(h) => Held(h)'
  BY HeldAfter DEF OnStack
<1>3. OwnFile(h) => Held(h)'
  BY HeldAfter DEF OwnFile, HasFile
<1>4. ASSUME EntryEnd(h) PROVE Held(h)'
  <2>1. PICK i \in DOMAIN program_vector, k \in 1 .. 4 :
           /\ program_vector[i].handle # NoHandle
           /\ ~Gone(program_vector[i].handle, k)
           /\ h \in FlaggedEnds(program_vector[i])[k]
    BY <1>4 DEF EntryEnd
  <2>2. \/ pc' \notin Closing \/ program_vector'[i].handle # active_handles'[signaled']
        \/ ~(k < closing')
    BY <2>1 DEF Gone, Closing
  <2> QED
    BY <2>1, <2>2, HeldAfter
<1> QED
  BY <1>1, <1>2, <1>3, <1>4 DEF Held

LEMMA CreatePipeHolds == ASSUME HandlesInv, AllHeld, CreatePipe PROVE AllHeld'
<1>1. PICK m, t, s : m = Len(pipes) /\ t = openedHandles' /\ s = pipes'
  OBVIOUS
<1>2. /\ m \in Nat /\ DOMAIN s = 1 .. m + 2 /\ \A i \in 1 .. m : s[i] = pipes[i]
      /\ DOMAIN t = DOMAIN openedHandles \cup {s[m + 1], s[m + 2]}
  BY <1>1, PipeCreated
<1>3. DOMAIN pipes = 1 .. m
  BY <1>1, LenProperties DEF HandlesInv, Types
<1>4. UNCHANGED <<programs, program_vector>> /\ pc' \notin Closing
  BY DEF CreatePipe, PipesWanted, Closing
<1>5. SUFFICES ASSUME NEW h \in DOMAIN t, h \notin {std_in, std_out} PROVE Held(h)'
  BY <1>1 DEF AllHeld
<1>6. \A k \in 1 .. m + 2 : s[k] = h => Held(h)'
  BY <1>1, <1>2, HeldAfter
<1>7. CASE h \in {s[m + 1], s[m + 2]}
  <2>1. m + 1 \in 1 .. m + 2 /\ m + 2 \in 1 .. m + 2
    BY <1>2
  <2> QED
    BY <1>6, <1>7, <2>1
<1>8. CASE h \in DOMAIN openedHandles
  <2>1. Held(h)
    BY <1>5, <1>8 DEF AllHeld
  <2>2. ASSUME OnStack(h) PROVE Held(h)'
    <3>1. PICK k \in 1 .. m : pipes[k] = h
      BY <1>3, <2>2 DEF OnStack
    <3>2. k \in 1 .. m + 2 /\ s[k] = h
      BY <1>2, <3>1
    <3> QED
      BY <1>6, <3>2
  <2>3. OwnFile(h) => Held(h)'
    BY <1>4, HeldAfter DEF OwnFile, HasFile
  <2>4. EntryEnd(h) => Held(h)'
    BY <1>4, HeldAfter DEF EntryEnd
  <2> QED
    BY <2>1, <2>2, <2>3, <2>4 DEF Held
<1> QED
  BY <1>2, <1>5, <1>7, <1>8

LEMMA CloseEndHolds == ASSUME HandlesInv, AllHeld, CloseEnd PROVE AllHeld'
<1> DEFINE n == active_handles[signaled]
           H == FlaggedEnds(Signaled)[closing]
<1>0. Types /\ Loops /\ Entries /\ Active
  BY DEF HandlesInv
<1>1. /\ openedHandles' = Closed(openedHandles, H) /\ closing' = closing + 1
      /\ UNCHANGED <<pc, program_vector, active_handles, signaled, programs, pipes>>
      /\ pc = "close"
  BY DEF CloseEnd, Same
<1>2. closing \in Nat /\ signaled \in DOMAIN active_handles
  BY <1>0, <1>1 DEF Loops, Closing
<1>3. \A i \in DOMAIN program_vector :
          program_vector[i].handle = n => Signaled = program_vector[i]
  <2>1. SUFFICES ASSUME NEW i \in DOMAIN program_vector, program_vector[i].handle = n
                 PROVE  Signaled = program_vector[i]
    OBVIOUS
  <2>2. EntryOf(n) \in DOMAIN program_vector /\ program_vector[EntryOf(n)].handle = n
    BY <1>0, <2>1, EntryFound DEF Types
  <2>3. n # NoHandle
    BY <1>0, <1>2, LenProperties DEF Types, NoHandle
  <2>4. EntryOf(n) = i
    BY <1>0, <2>1, <2>2, <2>3 DEF Entries
  <2> QED
    BY <2>4 DEF Signaled
<1>4. DOMAIN openedHandles' = DOMAIN openedHandles \ H
  BY <1>1 DEF Closed
<1>5. SUFFICES ASSUME NEW h \in DOMAIN openedHandles, h \notin H, Held(h) PROVE Held(h)'
  BY <1>4 DEF AllHeld
<1>6. OnStack(h) => Held(h)'
  BY <1>1, HeldAfter DEF OnStack
<1>7. OwnFile(h) => Held(h)'
  BY <1>1, HeldAfter DEF OwnFile, HasFile
<1>8. ASSUME EntryEnd(h) PROVE Held(h)'
  <2>1. PICK i \in DOMAIN program_vector, k \in 1 .. 4 :
           /\ program_vector[i].handle # NoHandle
           /\ ~Gone(program_vector[i].handle, k)
           /\ h \in FlaggedEnds(program_vector[i])[k]
    BY <1>8 DEF EntryEnd
  <2>2. program_vector[i].handle # n \/ ~(k < closing + 1)
    <3>1. SUFFICES ASSUME program_vector[i].handle = n PROVE ~(k < closing + 1)
      OBVIOUS
    <3>2. ~(k < closing)
      BY <1>1, <2>1, <3>1 DEF Gone, Closing
    <3>3. k # closing
      BY <1>3, <1>5, <2>1, <3>1
    <3> QED
      BY <1>2, <3>2, <3>3
  <2> QED
    BY <1>1, <2>1, <2>2, HeldAfter
<1> QED
  BY <1>5, <1>6, <1>7, <1>8 DEF Held

LEMMA EraseProgramHolds ==
    ASSUME HandlesInv, EraseProgram
    PROVE  /\ AllHeld => AllHeld'
           /\ EntriesWait => EntriesWait'
<1> DEFINE v == program_vector
           act == active_handles
           n == active_handles[signaled]
           e == EntryOf(n)
<1>0. Types /\ Loops /\ Entries /\ Active
  BY DEF HandlesInv
<1>1. /\ v' = RemoveAt(v, e) /\ act' = RemoveAt(act, signaled)
      /\ UNCHANGED <<openedHandles, programs, pipes>> /\ pc = "close" /\ pc' = "wait"
  BY DEF EraseProgram, Same
<1>2. signaled \in DOMAIN act /\ closing \in 1 .. 5 /\ e \in DOMAIN v /\ v[e].handle = n
  <2>1. signaled \in DOMAIN act /\ closing \in 1 .. 5
    BY <1>0, <1>1 DEF Loops, Closing
  <2> QED
    BY <1>0, <2>1, EntryFound DEF Types, Active
<1>3. closing = 5
  <2>1. Len(FlaggedEnds(Signaled)) = 4
    BY DEF FlaggedEnds
  <2>2. closing > 4
    BY <2>1 DEF EraseProgram
  <2> QED
    BY <1>2, <2>2
<1>4. n # NoHandle
  BY <1>0, <1>2, LenProperties DEF Types, NoHandle
<1>5. \A j \in DOMAIN v : v[j].handle = n => j = e
  BY <1>0, <1>2, <1>4 DEF Entries
<1>6. /\ \A i \in DOMAIN v' : \E j \in DOMAIN v : j # e /\ v'[i] = v[j]
      /\ \A j \in DOMAIN v : j # e => \E i \in DOMAIN v' : v'[i] = v[j]
  BY <1>0, <1>1, <1>2, RemovedRest DEF Types
<1>7. \A a \in DOMAIN act : a # signaled => \E b \in DOMAIN act' : act'[b] = act[a]
  BY <1>0, <1>1, <1>2, RemovedRest DEF Types
<1> HIDE DEF e
<1>8. ASSUME AllHeld PROVE AllHeld'
  <2>1. SUFFICES ASSUME NEW h \in DOMAIN openedHandles, Held(h) PROVE Held(h)'
    BY <1>1, <1>8 DEF AllHeld
  <2>2. OnStack(h) => Held(h)'
    BY <1>1, HeldAfter DEF OnStack
  <2>3. OwnFile(h) => Held(h)'
    BY <1>1, HeldAfter DEF OwnFile, HasFile
  <2>4. ASSUME EntryEnd(h) PROVE Held(h)'
    <3>1. PICK j \in DOMAIN v, k \in 1 .. 4 :
             v[j].handle # NoHandle /\ ~Gone(v[j].handle, k) /\ h \in FlaggedEnds(v[j])[k]
      BY <2>4 DEF EntryEnd
    <3>2. v[j].handle # n
      BY <1>1, <1>3, <3>1 DEF Gone, Closing
    <3>3. PICK i \in DOMAIN v' : v'[i] = v[j]
      BY <1>2, <1>6, <3>2
    <3> QED
      BY <1>1, <3>1, <3>3, HeldAfter DEF Closing
  <2> QED
    BY <2>1, <2>2, <2>3, <2>4 DEF Held
<1>9. ASSUME EntriesWait PROVE EntriesWait'
  <2>1. SUFFICES ASSUME NEW i \in DOMAIN v', v'[i].handle # NoHandle
                 PROVE  \E a \in DOMAIN act' : act'[a] = v'[i].handle
    BY DEF EntriesWait
  <2>2. PICK j \in DOMAIN v : j # e /\ v'[i] = v[j]
    BY <1>6
  <2>3. PICK a \in DOMAIN act : act[a] = v[j].handle
    BY <1>9, <2>1, <2>2 DEF EntriesWait
  <2>4. a # signaled
    BY <1>5, <2>2, <2>3
  <2> QED
    BY <1>7, <2>2, <2>3, <2>4
<1> QED
  BY <1>8, <1>9

(* A program that opens, closes or ends: its own file is all that changes. *)
LEMMA EventHolds ==
    ASSUME HandlesInv, AllHeld, NEW n,
           ProgramOpens(n) \/ ProgramCloses(n) \/ ProgramEnds(n)
    PROVE  AllHeld'
<1>0. Types /\ n \in DOMAIN programs /\ Alone
  BY DEF HandlesInv, ProgramOpens, ProgramCloses, ProgramEnds, Running
<1>1. UNCHANGED <<pc, program_vector, pipes, active_handles, signaled, closing>>
  BY <1>0 DEF Alone, execVars
<1>2. /\ DOMAIN programs' = DOMAIN programs
      /\ \A m \in DOMAIN programs : m # n => programs'[m] = programs[m]
  BY <1>0 DEF ProgramOpens, ProgramCloses, ProgramEnds
<1>3. programs[n] \in Started /\ n \in Int
  BY <1>0, ElementOfSeq, LenProperties DEF Types
<1>4. SUFFICES ASSUME NEW h \in DOMAIN openedHandles', h \notin {std_in, std_out}
               PROVE  Held(h)'
  BY DEF AllHeld
<1>5. ASSUME Held(h), HasFile(n) /\ programs[n].own = h => Held(h)' PROVE Held(h)'
  <2>1. OnStack(h) => Held(h)'
    BY <1>1, HeldAfter DEF OnStack
  <2>2. ASSUME OwnFile(h) PROVE Held(h)'
    <3>1. PICK m \in DOMAIN programs : HasFile(m) /\ programs[m].own = h
      BY <2>2 DEF OwnFile
    <3>2. CASE m = n
      BY <1>5, <3>1, <3>2
    <3>3. CASE m # n
      BY <1>2, <3>1, <3>3, HeldAfter DEF HasFile
    <3> QED
      BY <3>2, <3>3
  <2>3. EntryEnd(h) => Held(h)'
    BY <1>1, HeldAfter DEF EntryEnd, Gone, Closing
  <2> QED
    BY <1>5, <2>1, <2>2, <2>3 DEF Held
<1>6. CASE ProgramOpens(n)
  <2>1. PICK f : f = FirstFree(openedHandles)
    OBVIOUS
  <2>2. DOMAIN openedHandles' = DOMAIN openedHandles \cup {f} /\ f \in Nat
    <3>1. PICK o : o = <<"own", n>>
      OBVIOUS
    <3>2. o \in Objects /\ openedHandles' = With(openedHandles, o)
      BY <1>3, <1>6, <3>1, Objects0 DEF ProgramOpens
    <3> QED
      BY <1>0, <2>1, <3>2, WithIt DEF Types
  <2>3. programs'[n].own = f
    <3>1. programs' = [programs EXCEPT ![n].own = f]
      BY <1>6, <2>1 DEF ProgramOpens
    <3> QED
      BY <1>0, <1>3, <3>1 DEF Started
  <2>4. CASE h = f
    <3>1. f \notin {NoHandle, Spent}
      BY <2>2 DEF NoHandle, Spent
    <3> QED
      BY <1>0, <1>2, <2>3, <2>4, <3>1, HeldAfter
  <2>5. CASE h # f
    <3>1. Held(h)
      BY <1>4, <2>2, <2>5 DEF AllHeld
    <3>2. ~HasFile(n)
      BY <1>6 DEF ProgramOpens, HasFile
    <3> QED
      BY <1>5, <3>1, <3>2
  <2> QED
    BY <2>4, <2>5
<1>7. CASE ProgramCloses(n)
  <2>1. DOMAIN openedHandles' = DOMAIN openedHandles \ {programs[n].own}
    BY <1>7 DEF ProgramCloses, Closed
  <2> QED
    BY <1>4, <1>5, <2>1 DEF AllHeld
<1>8. CASE ProgramEnds(n)
  <2>1. openedHandles' = openedHandles /\ ~HasFile(n)
    BY <1>8 DEF ProgramEnds
  <2> QED
    BY <1>4, <1>5, <2>1 DEF AllHeld
<1> QED
  BY <1>6, <1>7, <1>8

(* A program that is started takes what was on the stack, and the file     *)
(* that was opened for it.                                                 *)
LEMMA StartHolds ==
    ASSUME HandlesInv, CreateProcess, Created(Wired)
    PROVE  /\ AllHeld => AllHeld'
           /\ EntriesWait => EntriesWait'
<1> DEFINE v == program_vector
<1>0. Types /\ Loops /\ AtProgram /\ Pops <= Len(pipes)
  BY DEF HandlesInv, CreateProcess
<1>1. PICK p, x, f, l, k, n :
         /\ p = Wired /\ x = Typed /\ f = FirstFree(openedHandles)
         /\ l = Len(pipes) /\ k = l - Pops /\ n = Len(programs) + 1
  OBVIOUS
<1>2. /\ pc' = "start" /\ it \in DOMAIN v /\ DOMAIN v' = DOMAIN v
      /\ \A j \in DOMAIN v : j # it => v'[j] = v[j]
      /\ v'[it].handle = n /\ n # NoHandle /\ FlaggedEnds(v'[it]) = FlaggedEnds(p)
      /\ DOMAIN pipes' = 1 .. k /\ \A j \in 1 .. k : pipes'[j] = pipes[j]
      /\ DOMAIN openedHandles' = DOMAIN openedHandles \cup (IF Redirects THEN {f} ELSE {})
      /\ \A m \in DOMAIN programs : m \in DOMAIN programs' /\ programs'[m] = programs[m]
      /\ \E a \in DOMAIN active_handles' : active_handles'[a] = n
      /\ \A a \in DOMAIN active_handles :
            a \in DOMAIN active_handles' /\ active_handles'[a] = active_handles[a]
  BY <1>1, CreateSucceeds
<1>3. /\ Wiring(p) /\ p.pipe_in = x.pipe_in
      /\ Pops = (IF PipesOut THEN 1 ELSE 0) + (IF x.pipe_in THEN 1 ELSE 0)
      /\ l \in Nat /\ Pops \in 0 .. 2
      /\ p.pipe_in_handle = IF x.pipe_in THEN pipes[l + 1 - Pops] ELSE NoHandle
      /\ p.pipe_out_handle = IF PipesOut THEN pipes[l] ELSE NoHandle
      /\ Redirects => IF x.redirection_in THEN p.redirection_in_handle = f
                      ELSE p.redirection_out_handle = f
  BY <1>0, <1>1, WiredEntry
<1>4. v[it].handle = NoHandle /\ pc = "start"
  <2>1. it \in 1 .. it
    BY <1>0 DEF AtProgram, Types
  <2> QED
    BY <1>0, <2>1 DEF Loops, Closing, AtProgram
<1>5. DOMAIN pipes = 1 .. l /\ \A j \in 1 .. l : pipes[j] \in Nat
  BY <1>0, <1>1, LenProperties, ElementOfSeq DEF Types
<1>6. f \in Nat
  BY <1>0, <1>1, FirstFreeIsFree DEF Types
<1>7. ASSUME AllHeld PROVE AllHeld'
  <2>1. SUFFICES ASSUME NEW h \in DOMAIN openedHandles', h \notin {std_in, std_out}
                 PROVE  Held(h)'
    BY DEF AllHeld
  <2>2. ASSUME NEW j \in 1 .. 4, h \in FlaggedEnds(p)[j] PROVE Held(h)'
    <3>1. h \in FlaggedEnds(v'[it])[j] /\ v'[it].handle # NoHandle /\ it \in DOMAIN v'
      BY <1>2, <2>2
    <3> QED
      BY <1>2, <3>1, HeldAfter DEF Closing
  <2>3. ASSUME Redirects, h = f PROVE Held(h)'
    <3>1. f # NoHandle
      BY <1>6 DEF NoHandle
    <3>2. CASE x.redirection_in
      <4>1. p.redirection_in /\ p.redirection_in_handle = h
        BY <1>3, <2>3, <3>1, <3>2 DEF Wiring
      <4>2. h \in FlaggedEnds(p)[3]
        BY <4>1 DEF FlaggedEnds, Flagged
      <4> QED
        BY <2>2, <4>2
    <3>3. CASE ~x.redirection_in
      <4>1. p.redirection_out /\ p.redirection_out_handle = h
        BY <1>3, <2>3, <3>1, <3>3 DEF Wiring
      <4>2. h \in FlaggedEnds(p)[4]
        BY <4>1 DEF FlaggedEnds, Flagged
      <4> QED
        BY <2>2, <4>2
    <3> QED
      BY <3>2, <3>3
  <2>4. ASSUME OnStack(h) PROVE Held(h)'
    <3>1. PICK j \in 1 .. l : pipes[j] = h
      BY <1>5, <2>4 DEF OnStack
    <3>2. h # NoHandle
      BY <1>5, <3>1 DEF NoHandle
    <3>3. CASE j <= k
      <4>1. j \in 1 .. k
        BY <1>1, <1>3, <3>3
      <4> QED
        BY <1>2, <3>1, <4>1, HeldAfter
    <3>4. ASSUME PipesOut, j = l PROVE Held(h)'
      <4>1. p.pipe_out /\ p.pipe_out_handle = h
        BY <1>3, <3>1, <3>2, <3>4 DEF Wiring
      <4>2. h \in FlaggedEnds(p)[2]
        BY <4>1 DEF FlaggedEnds, Flagged
      <4> QED
        BY <2>2, <4>2
    <3>5. ASSUME x.pipe_in, j = l + 1 - Pops PROVE Held(h)'
      <4>1. p.pipe_in /\ p.pipe_in_handle = h
        BY <1>3, <3>1, <3>2, <3>5 DEF Wiring
      <4>2. h \in FlaggedEnds(p)[1]
        BY <4>1 DEF FlaggedEnds, Flagged
      <4> QED
        BY <2>2, <4>2
    <3>6. CASE ~(j <= k)
      <4>1. (PipesOut /\ j = l) \/ (x.pipe_in /\ j = l + 1 - Pops)
        BY <1>1, <1>3, <3>6
      <4> QED
        BY <3>4, <3>5, <4>1
    <3> QED
      BY <3>3, <3>6
  <2>5. OwnFile(h) => Held(h)'
    BY <1>2, HeldAfter DEF OwnFile, HasFile
  <2>6. ASSUME EntryEnd(h) PROVE Held(h)'
    <3>1. PICK i \in DOMAIN v, j \in 1 .. 4 :
             v[i].handle # NoHandle /\ h \in FlaggedEnds(v[i])[j]
      BY <2>6 DEF EntryEnd
    <3>2. i # it
      BY <1>4, <3>1
    <3> QED
      BY <1>2, <3>1, <3>2, HeldAfter DEF Closing
  <2>7. h \in DOMAIN openedHandles \/ (Redirects /\ h = f)
    BY <1>2
  <2> QED
    BY <1>7, <2>1, <2>3, <2>4, <2>5, <2>6, <2>7 DEF AllHeld, Held
<1>8. ASSUME EntriesWait PROVE EntriesWait'
  <2>1. SUFFICES ASSUME NEW i \in DOMAIN v, v'[i].handle # NoHandle
                 PROVE  \E a \in DOMAIN active_handles' : active_handles'[a] = v'[i].handle
    BY <1>2 DEF EntriesWait
  <2>2. CASE i = it
    BY <1>2, <2>2
  <2>3. CASE i # it
    BY <1>2, <1>8, <2>1, <2>3 DEF EntriesWait
  <2> QED
    BY <2>2, <2>3
<1> QED
  BY <1>7, <1>8

(* While the shell starts and waits, and nothing has failed. *)
LEMMA StepsWhileBusy ==
    ASSUME HandlesInv, [Next]_vars, pc' \in Busy, failed' = {}
    PROVE  /\ failed = {} /\ UNCHANGED <<spotless, clean>>
           /\ \/ Execute
              \/ /\ pc \in Busy
                 /\ \/ CreatePipe \/ (CreateProcess /\ Created(Wired)) \/ CloseEnd \/ EraseProgram
                    \/ \E n \in Numbers : ProgramOpens(n) \/ ProgramCloses(n) \/ ProgramEnds(n)
                    \/ /\ UNCHANGED <<openedHandles, pipes, programs, program_vector>>
                       /\ \/ pc' \notin Closing \/ closing' = 1
                          \/ UNCHANGED <<pc, active_handles, signaled, closing>>
<1>1. CASE ReadLine \/ Leave \/ Exit \/ Echo \/ ChangeDirectory \/ NotSpecial \/ SpecialDone
           \/ PopsTooMuch \/ ExecuteReturns
  BY <1>1 DEF ReadLine, Leave, Exit, Echo, ChangeDirectory, NotSpecial, SpecialDone,
     PopsTooMuch, ExecuteReturns, AtCommand, Busy
<1>2. CASE OpenFails
  BY <1>2 DEF OpenFails
<1>3. CASE Execute
  BY <1>3 DEF Execute, histVars
<1>4. CASE CreatePipe
  BY <1>4 DEF CreatePipe, PipesWanted, histVars, Busy
<1>5. CASE PipesCreated \/ SkipSpecial \/ SkipFile \/ AllStarted
  BY <1>5 DEF PipesCreated, SkipSpecial, SkipFile, AllStarted, histVars, execVars, Busy, Closing
<1>6. CASE CreateProcess
  BY <1>6 DEF CreateProcess, Created, AtProgram, Busy
<1>7. CASE WaitFor
  <2>1. pc' = "close"
    BY <1>7, WaitForKeeps
  <2> QED
    BY <1>7, <2>1 DEF WaitFor, Same, Busy
<1>8. CASE CloseEnd \/ EraseProgram
  BY <1>8 DEF CloseEnd, EraseProgram, Same, Busy
<1>9. CASE \E n \in Numbers : ProgramOpens(n) \/ ProgramCloses(n) \/ ProgramEnds(n)
  BY <1>9 DEF ProgramOpens, ProgramCloses, ProgramEnds, Alone, histVars, Busy
<1>10. CASE UNCHANGED vars
  BY <1>10 DEF vars, execVars, histVars, Busy
<1> QED
  BY <1>1, <1>2, <1>3, <1>4, <1>5, <1>6, <1>7, <1>8, <1>9, <1>10, GivenUp DEF Next, ShellStep, Busy

(* Nothing runs while the shell is at a prompt or reads a line. *)
LEMMA NothingRuns ==
    ASSUME HandlesInv, active_handles = <<>>
    PROVE  \A n \in DOMAIN programs : ~Running(n) /\ ~HasFile(n)
<1>1. DOMAIN active_handles = {}
  BY EmptySeq
<1> QED
  BY <1>1 DEF HandlesInv, Active, Running

LEMMA StepsToThePrompt ==
    ASSUME HandlesInv, [Next]_vars, pc' \in Idle
    PROVE  ExecuteReturns \/ (pc \in Idle /\ UNCHANGED <<openedHandles, spotless>>)
<1>1. CASE \E n \in Numbers : ProgramOpens(n) \/ ProgramCloses(n) \/ ProgramEnds(n)
  <2>1. PICK n \in Numbers : ProgramOpens(n) \/ ProgramCloses(n) \/ ProgramEnds(n)
    BY <1>1
  <2>2. Running(n) /\ pc' = pc
    BY <2>1 DEF ProgramOpens, ProgramCloses, ProgramEnds, Alone
  <2>3. active_handles = <<>>
    BY <2>2 DEF HandlesInv, Loops, Closing, Idle
  <2> QED
    BY <2>2, <2>3, NothingRuns DEF Running
<1>2. CASE ReadLine \/ Leave \/ Exit \/ Echo \/ ChangeDirectory \/ NotSpecial \/ SpecialDone
           \/ Execute
  BY <1>2 DEF ReadLine, Leave, Exit, Echo, ChangeDirectory, NotSpecial, SpecialDone, Execute,
     AtCommand, Special, histVars, Idle
<1>3. WaitFor => pc' = "close"
  BY WaitForKeeps
<1>4. CASE \/ CreatePipe \/ PipesCreated \/ SkipSpecial \/ SkipFile \/ OpenFails \/ PopsTooMuch
           \/ CreateProcess \/ AllStarted \/ CloseEnd \/ EraseProgram
  BY <1>4 DEF CreatePipe, PipesCreated, PipesWanted, SkipSpecial, SkipFile, OpenFails,
     PopsTooMuch, CreateProcess, AtProgram, AllStarted, CloseEnd, EraseProgram, Idle
<1>5. CASE UNCHANGED vars
  BY <1>5 DEF vars, histVars, Idle
<1> QED
  BY <1>1, <1>2, <1>3, <1>4, <1>5, GivenUp DEF Next, ShellStep, Idle

LEMMA EntriesKeepWaiting == ASSUME HandlesInv, EntriesWait, [Next]_vars PROVE EntriesWait'
<1>1. CASE CreateProcess
  <2>1. CASE Created(Wired)
    BY <1>1, <2>1, StartHolds
  <2>2. CASE ~Created(Wired)
    BY <1>1, <2>2, CreateFails DEF EntriesWait
  <2> QED
    BY <2>1, <2>2
<1>2. CASE EraseProgram
  BY <1>2, EraseProgramHolds
<1>3. CASE ReadLine
  BY <1>3, ReadLineKeeps DEF EntriesWait
<1>5. CASE Echo
  <2>1. pc' = "special"
    BY <1>5 DEF Echo, AtCommand
  <2>2. HandlesInv'
    BY StepKeepsHandles
  <2> QED
    BY <2>1, <2>2 DEF HandlesInv, Loops, Closing, EntriesWait
<1>4. \/ CreateProcess \/ EraseProgram \/ ReadLine \/ Echo
      \/ UNCHANGED <<program_vector, active_handles>>
  BY GivenUp DEF Next, ShellStep, vars, Leave, Exit, ChangeDirectory, NotSpecial, SpecialDone,
     Execute,
     CreatePipe, PipesCreated, SkipSpecial, SkipFile, OpenFails, PopsTooMuch, AllStarted,
     WaitFor, CloseEnd, ExecuteReturns, ProgramOpens, ProgramCloses, ProgramEnds, Alone,
     Special, Same, execVars
<1> QED
  BY <1>1, <1>2, <1>3, <1>4, <1>5 DEF EntriesWait

(* When all programs of a clean line are started, the stack is used up:    *)
(* there is no pipe in front of the first entry.                           *)
LEMMA StackUsedUp ==
    ASSUME HandlesInv, LineInv, StackInv, AllStarted, clean PROVE pipes = <<>>
<1>1. pc = "start" /\ it = 0
  BY DEF AllStarted
<1>2. PICK v, n : v = program_vector /\ n = Len(v)
  OBVIOUS
<1>3. v \in Seq(Entry) /\ n \in Nat /\ pipes \in Seq(Nat) /\ Len(pipes) \in Nat
  BY <1>2, LenProperties DEF HandlesInv, Types
<1>4. Whole(v) /\ Between2(v)
  BY <1>1, <1>2, CleanIsWhole DEF LineInv
<1>5. PICK r : Ahead(v, 0, r) /\ Len(pipes) = Owed(v, r)
  BY <1>1, <1>2, <1>4 DEF StackInv
<1>6. r = 0
  <2>1. r \in 0 .. n /\ \A j \in 0 + 1 .. r : v[j].file
    BY <1>2, <1>5 DEF Ahead
  <2>2. r # 0 => 1 \in 0 + 1 .. r /\ v # <<>>
    BY <1>2, <1>3, <2>1, EmptySeq
  <2> QED
    BY <1>4, <2>1, <2>2 DEF Between2
<1>7. Owed(v, r) = 0
  <2>1. PipesTo(v, 0) = 0
    BY <1>3, PipesCount
  <2>2. Bit(Taken(v, 0)) = 0
    BY DEF Bit, Taken
  <2> QED
    BY <1>6, <2>1, <2>2 DEF Owed
<1> QED
  BY <1>3, <1>5, <1>7, EmptySeq

LEMMA LeftKeeps ==
    ASSUME HandlesInv, LineInv, StackInv, LeftInv, [Next]_vars PROVE LeftInv'
<1>1. EntriesWait'
  BY EntriesKeepWaiting DEF LeftInv
<1>2. \A h \in {std_in, std_out} : openedHandles'[h] = Console[h]
  <2>1. HandlesInv'
    BY StepKeepsHandles
  <2>2. \A h \in {std_in, std_out} : h \in DOMAIN openedHandles /\ h \in DOMAIN openedHandles'
    BY <2>1 DEF HandlesInv, Behind
  <2> QED
    BY <2>2, ObjectsStay DEF LeftInv
<1>3. ASSUME clean', failed' = {}, pc' \in {"wait", "close"} PROVE pipes' = <<>>
  <2>1. clean /\ failed = {}
    BY <1>3, StepsWhileBusy DEF Busy
  <2>2. AllStarted \/ pc \in {"wait", "close"}
    <3>1. ~OpenFails
      BY <1>3 DEF OpenFails
    <3>2. ~CreateProcess
      BY <1>3 DEF CreateProcess, AtProgram
    <3> QED
      BY <1>3, <3>1, <3>2, GivenUp DEF Next, ShellStep, vars, ReadLine, Leave, Exit, Echo,
         ChangeDirectory, NotSpecial, SpecialDone, Execute, CreatePipe, PipesWanted, PipesCreated,
         SkipSpecial, SkipFile, PopsTooMuch, AtProgram, WaitFor, CloseEnd, EraseProgram,
         ExecuteReturns, AtCommand, ProgramOpens, ProgramCloses, ProgramEnds, Alone
  <2>3. pipes = <<>>
    BY <2>1, <2>2, StackUsedUp DEF LeftInv
  <2>4. pipes' = pipes
    <3>1. AllStarted => pipes' = pipes
      BY DEF AllStarted, execVars
    <3>2. pc \in {"wait", "close"} => pipes' = pipes
      BY GivenUp DEF Next, ShellStep, vars, ReadLine, Leave, Exit, Echo, ChangeDirectory,
         NotSpecial,
         SpecialDone, Execute, CreatePipe, PipesWanted, PipesCreated, SkipSpecial, SkipFile,
         OpenFails, PopsTooMuch, CreateProcess, AtProgram, AllStarted, WaitFor, CloseEnd,
         EraseProgram, ExecuteReturns, AtCommand, ProgramOpens, ProgramCloses, ProgramEnds,
         Alone, Same, execVars
    <3> QED
      BY <2>2, <3>1, <3>2
  <2> QED
    BY <2>3, <2>4
<1>4. ASSUME spotless', pc' \in Idle PROVE DOMAIN openedHandles' \subseteq {std_in, std_out}
  <2>1. CASE pc \in Idle /\ UNCHANGED <<openedHandles, spotless>>
    BY <1>4, <2>1 DEF LeftInv
  <2>2. CASE ExecuteReturns
    <3>1. /\ active_handles = <<>> /\ pc = "wait" /\ spotless /\ clean /\ failed = {}
          /\ openedHandles' = openedHandles
      BY <1>4, <2>2 DEF ExecuteReturns
    <3>2. AllHeld /\ EntriesWait /\ pipes = <<>>
      BY <3>1 DEF LeftInv, Busy
    <3>3. DOMAIN active_handles = {} /\ DOMAIN pipes = {}
      BY <3>1, <3>2, EmptySeq
    <3>4. \A h : ~Held(h)
      BY <3>1, <3>2, <3>3, NothingRuns DEF Held, OnStack, OwnFile, EntryEnd, EntriesWait
    <3> QED
      BY <3>1, <3>2, <3>4 DEF AllHeld
  <2> QED
    BY <1>4, <2>1, <2>2, StepsToThePrompt
<1>5. ASSUME spotless', clean', failed' = {}, pc' \in Busy PROVE AllHeld'
  <2>1. failed = {} /\ spotless /\ clean
    BY <1>5, StepsWhileBusy
  <2>2. CASE Execute
    <3>1. openedHandles' = openedHandles /\ pc \in Idle
      BY <2>2 DEF Execute, Idle
    <3> QED
      BY <2>1, <3>1 DEF LeftInv, AllHeld
  <2>3. ASSUME pc \in Busy,
               \/ CreatePipe \/ (CreateProcess /\ Created(Wired)) \/ CloseEnd \/ EraseProgram
               \/ \E n \in Numbers : ProgramOpens(n) \/ ProgramCloses(n) \/ ProgramEnds(n)
               \/ /\ UNCHANGED <<openedHandles, pipes, programs, program_vector>>
                  /\ \/ pc' \notin Closing \/ closing' = 1
                     \/ UNCHANGED <<pc, active_handles, signaled, closing>>
        PROVE  AllHeld'
    <3>1. AllHeld
      BY <2>1, <2>3 DEF LeftInv
    <3> QED
      BY <2>3, <3>1, CreatePipeHolds, StartHolds, CloseEndHolds, EraseProgramHolds, EventHolds,
         HeldQuietly
  <2> QED
    BY <1>5, <2>2, <2>3, StepsWhileBusy
<1> QED
  BY <1>1, <1>2, <1>3, <1>4, <1>5 DEF LeftInv

(* Back at the prompt after lines that meant what they said, of which      *)
(* nothing failed, only the console is open: every pipe and every file was *)
(* closed when the program that had it ended, and none of them twice.      *)
THEOREM NothingLeftHolds == Spec => []NothingLeft
<1>1. Init => LeftInv
  BY DEF Init, LeftInv, EntriesWait, Console, Idle, Busy
<1>2. PipelineInv /\ LeftInv /\ [Next]_vars => LeftInv'
  BY LeftKeeps DEF PipelineInv, ShellInv
<1>3. PipelineInv /\ LeftInv => NothingLeft
  <2>1. SUFFICES ASSUME PipelineInv, LeftInv, pc = "read", spotless
                 PROVE  openedHandles = Console
    BY DEF NothingLeft
  <2>2. Table(openedHandles) /\ {std_in, std_out} \subseteq DOMAIN openedHandles
    BY <2>1 DEF PipelineInv, ShellInv, HandlesInv, Types, Behind
  <2>3. DOMAIN openedHandles = {std_in, std_out}
    BY <2>1, <2>2 DEF LeftInv, Idle
  <2>4. openedHandles \in [{std_in, std_out} -> Objects]
    BY <2>2, <2>3 DEF Table
  <2> QED
    BY <2>1, <2>3, <2>4 DEF LeftInv, Console
<1> QED
  BY <1>1, <1>2, <1>3, PipelineInvHolds, PTL DEF Spec
=============================================================================
