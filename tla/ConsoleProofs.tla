---------------------------- MODULE ConsoleProofs ----------------------------
(***************************************************************************)
(* Proofs about Console, for every set of keys, every size of the buffers  *)
(* and any number of keys and presses.                                     *)
(***************************************************************************)
EXTENDS Console, SequenceTheorems, FiniteSetTheorems, WellFoundedInduction, TLAPS

(* Induction over the numbers, for a set in place of a predicate. *)
LEMMA NatSet ==
    ASSUME NEW S \in SUBSET Nat, 0 \in S, \A i \in S : i + 1 \in S
    PROVE  S = Nat
<1> DEFINE R == {p \in Nat \X Nat : p[1] < p[2]}
           T == Nat \ S
<1>1. IsWellFoundedOn(R, Nat)
  BY NatLessThanWellFounded DEF OpToRel
<1>2. ASSUME T # {} PROVE FALSE
  <2>1. T \subseteq Nat
    OBVIOUS
  <2> HIDE DEF R, T
  <2>2. PICK x \in T : \A y \in T : <<y, x>> \notin R
    BY <1>1, <1>2, <2>1, WFMin
  <2>3. x # 0 /\ x \in Nat /\ x - 1 \in Nat
    BY DEF T
  <2>4. x - 1 \in T
    BY <2>3 DEF T
  <2>5. <<x - 1, x>> \in R
    BY <2>3 DEF R
  <2> QED
    BY <2>2, <2>4, <2>5
<1> QED
  BY <1>2

(* Induction over the sequences. *)
LEMMA SeqSet ==
    ASSUME NEW X, NEW S \in SUBSET Seq(X), <<>> \in S,
           \A u \in S, x \in X : Append(u, x) \in S
    PROVE  S = Seq(X)
<1> DEFINE T == {i \in Nat : \A u \in Seq(X) : Len(u) = i => u \in S}
<1>1. 0 \in T
  BY EmptySeq
<1>2. ASSUME NEW i \in T PROVE i + 1 \in T
  <2>1. ASSUME NEW u \in Seq(X), Len(u) = i + 1 PROVE u \in S
    <3>1. u # <<>>
      BY <2>1, EmptySeq
    <3>2. PICK v \in Seq(X), x \in X : u = Append(v, x)
      BY <3>1, SequenceEmptyOrAppend
    <3>3. Len(v) = i
      BY <2>1, <3>2, AppendProperties, LenProperties
    <3> QED
      BY <3>2, <3>3
  <2> QED
    BY <2>1
<1> HIDE DEF T
<1>3. T = Nat
  <2>1. T \in SUBSET Nat
    BY DEF T
  <2> QED
    BY <1>1, <1>2, <2>1, NatSet
<1>4. ASSUME NEW u \in Seq(X) PROVE u \in S
  BY <1>3, LenProperties DEF T
<1> QED
  BY <1>4

(* Two runs that begin alike and go on alike are alike. *)
Alike(m, f, g) ==
    f[0] = g[0] /\ \A i \in 1 .. m : f[i - 1] = g[i - 1] => f[i] = g[i]

LEMMA SameRun ==
    ASSUME NEW m \in Nat, NEW f, NEW g, Alike(m, f, g)
    PROVE  \A i \in 0 .. m : f[i] = g[i]
<1> DEFINE S == {i \in Nat : i <= m => f[i] = g[i]}
<1>1. 0 \in S
  BY DEF Alike
<1>2. ASSUME NEW i \in S PROVE i + 1 \in S
  <2>1. SUFFICES ASSUME i + 1 <= m PROVE f[i + 1] = g[i + 1]
    OBVIOUS
  <2>2. i + 1 \in 1 .. m /\ (i + 1) - 1 = i /\ f[i] = g[i]
    BY <2>1
  <2> QED
    BY <2>2 DEF Alike
<1>3. S \in SUBSET Nat
  OBVIOUS
<1> HIDE DEF S
<1>4. S = Nat
  BY <1>1, <1>2, <1>3, NatSet
<1> QED
  BY <1>4 DEF S

(* f goes along u from x as D says. *)
Along(D, x, u, f) == f[0] = x /\ \A i \in 1 .. Len(u) : f[i] = D[f[i - 1]][u[i]]

(* x is a value of X, and D takes one and an element of C to the next. *)
Step(X, C, D, x) == x \in X /\ D \in [X -> [C -> X]]

(* A function may be defined by recursion along a sequence. *)
LEMMA Recursion ==
    ASSUME NEW X, NEW C, NEW D, NEW x, Step(X, C, D, x), NEW u \in Seq(C)
    PROVE  \E f \in [0 .. Len(u) -> X] : Along(D, x, u, f)
<1>a. x \in X /\ D \in [X -> [C -> X]]
  BY DEF Step
<1> DEFINE Good(v) == \E f \in [0 .. Len(v) -> X] : Along(D, x, v, f)
           S == {v \in Seq(C) : Good(v)}
<1>1. <<>> \in S
  <2>1. [i \in {0} |-> x] \in [0 .. 0 -> X] /\ [i \in {0} |-> x][0] = x
    BY <1>a
  <2>2. <<>> \in Seq(C) /\ Len(<<>>) = 0
    BY EmptySeq
  <2>3. Along(D, x, <<>>, [i \in {0} |-> x])
    BY <2>1, <2>2 DEF Along
  <2> QED
    BY <2>1, <2>2, <2>3
<1>2. ASSUME NEW v \in S, NEW c \in C PROVE Append(v, c) \in S
  <2> DEFINE m == Len(v)
             w == Append(v, c)
  <2>1. PICK f \in [0 .. m -> X] : Along(D, x, v, f)
    OBVIOUS
  <2> DEFINE y == D[f[m]][c]
             g == [i \in 0 .. m + 1 |-> IF i = m + 1 THEN y ELSE f[i]]
  <2>2. /\ m \in Nat /\ w \in Seq(C) /\ Len(w) = m + 1 /\ w[m + 1] = c
        /\ \A i \in 1 .. m : w[i] = v[i]
    BY LenProperties, AppendProperties
  <2>3. f[0] = x /\ \A i \in 1 .. m : f[i] = D[f[i - 1]][v[i]]
    BY <2>1 DEF Along
  <2> HIDE DEF m, w
  <2>4. m \in Nat /\ m \in 0 .. m /\ f[m] \in X
    BY <2>2
  <2>5. y \in X
    BY <1>a, <2>4
  <2> HIDE DEF y
  <2>6. /\ g \in [0 .. m + 1 -> X] /\ g[m + 1] = y
        /\ \A i \in 0 .. m : g[i] = f[i]
    BY <2>2, <2>5
  <2> HIDE DEF g
  <2>7. ASSUME NEW i \in 1 .. m + 1 PROVE g[i] = D[g[i - 1]][w[i]]
    <3>1. CASE i = m + 1
      BY <2>2, <2>4, <2>6, <3>1 DEF y
    <3>2. CASE i \in 1 .. m
      <4>1. i - 1 \in 0 .. m /\ i \in 0 .. m
        BY <2>4, <3>2
      <4> QED
        BY <2>2, <2>3, <2>6, <3>2, <4>1
    <3> QED
      BY <2>2, <3>1, <3>2
  <2>8. Along(D, x, w, g)
    BY <2>2, <2>3, <2>6, <2>7 DEF Along
  <2> QED
    BY <2>2, <2>6, <2>8 DEF w
<1> HIDE DEF Good
<1>3. S = Seq(C)
  <2>1. S \in SUBSET Seq(C)
    OBVIOUS
  <2> HIDE DEF S
  <2> QED
    BY <1>1, <1>2, <2>1, SeqSet
<1> QED
  BY <1>3 DEF Good

(* Where such a run ends. *)
End(X, D, x, u) ==
    (CHOOSE f \in [0 .. Len(u) -> X] : Along(D, x, u, f))[Len(u)]

(* Whatever goes along u as D says, as long as it stays in X, ends there.  *)
Follows(X, D, x, u, g) ==
    g[0] = x /\ \A i \in 1 .. Len(u) : g[i - 1] \in X => g[i] = D[g[i - 1]][u[i]]

LEMMA EndsThere ==
    ASSUME NEW X, NEW C, NEW D, NEW x, Step(X, C, D, x), NEW u \in Seq(C),
           NEW g, Follows(X, D, x, u, g)
    PROVE  g[Len(u)] = End(X, D, x, u) /\ End(X, D, x, u) \in X
<1> DEFINE m == Len(u)
           f == CHOOSE h \in [0 .. Len(u) -> X] : Along(D, x, u, h)
<1>1. m \in Nat
  BY LenProperties
<1>2. f \in [0 .. m -> X] /\ Along(D, x, u, f)
  BY Recursion
<1>3. End(X, D, x, u) = f[m]
  BY DEF End
<1>4. g[0] = x /\ \A i \in 1 .. m : g[i - 1] \in X => g[i] = D[g[i - 1]][u[i]]
  BY DEF Follows
<1>5. f[0] = x /\ \A i \in 1 .. m : f[i] = D[f[i - 1]][u[i]]
  BY <1>2 DEF Along
<1> HIDE DEF f, m
<1>6. ASSUME NEW i \in 1 .. m, f[i - 1] = g[i - 1] PROVE f[i] = g[i]
  <2>1. i - 1 \in 0 .. m
    BY <1>1
  <2>2. f[i - 1] \in X
    BY <1>2, <2>1
  <2> QED
    BY <1>4, <1>5, <1>6, <2>2
<1>7. \A i \in 0 .. m : f[i] = g[i]
  <2>1. Alike(m, f, g)
    BY <1>4, <1>5, <1>6 DEF Alike
  <2> QED
    BY <1>1, <2>1, SameRun
<1> QED
  BY <1>1, <1>2, <1>3, <1>7 DEF m

(* A run along nothing stays where it begins. *)
LEMMA EndEmpty ==
    ASSUME NEW X, NEW C, NEW D, NEW x, Step(X, C, D, x)
    PROVE  End(X, D, x, <<>>) = x
<1>1. <<>> \in Seq(C) /\ Len(<<>>) = 0
  BY EmptySeq
<1>2. Follows(X, D, x, <<>>, [i \in {0} |-> x])
  BY <1>1 DEF Follows
<1>3. [i \in {0} |-> x][0] = End(X, D, x, <<>>)
  BY <1>1, <1>2, EndsThere
<1> QED
  BY <1>3

(* A run along one element more is one step more. *)
LEMMA EndAppend ==
    ASSUME NEW X, NEW C, NEW D, NEW x, Step(X, C, D, x), NEW u \in Seq(C), NEW c \in C
    PROVE  End(X, D, x, Append(u, c)) = D[End(X, D, x, u)][c]
<1> DEFINE w == Append(u, c)
           m == Len(u)
<1>1. /\ m \in Nat /\ w \in Seq(C) /\ Len(w) = m + 1 /\ w[m + 1] = c
      /\ \A i \in 1 .. m : w[i] = u[i]
  BY LenProperties, AppendProperties
<1>2. PICK g \in [0 .. Len(w) -> X] : Along(D, x, w, g)
  BY <1>1, Recursion
<1>3. g[0] = x /\ \A i \in 1 .. Len(w) : g[i] = D[g[i - 1]][w[i]]
  BY <1>2 DEF Along
<1> HIDE DEF w, m
<1>4. m + 1 \in 1 .. Len(w) /\ \A i \in 1 .. m : i \in 1 .. Len(w)
  BY <1>1
<1>5. Follows(X, D, x, w, g)
  BY <1>3 DEF Follows
<1>6. Follows(X, D, x, u, g)
  BY <1>1, <1>3, <1>4 DEF Follows, m
<1>7. g[Len(w)] = End(X, D, x, w)
  BY <1>1, <1>5, EndsThere
<1>8. g[m] = End(X, D, x, u)
  BY <1>6, EndsThere DEF m
<1>9. g[m + 1] = D[g[m]][c]
  BY <1>1, <1>3, <1>4
<1> QED
  BY <1>1, <1>7, <1>8, <1>9 DEF w
-----------------------------------------------------------------------------
(* The operators of Filters. *)

Drop(X, drop) == [k \in Seq(X) |-> [c \in X |-> IF c \in drop THEN k ELSE Append(k, c)]]

(* Without goes along the text. *)
LEMMA WithoutRuns ==
    ASSUME NEW X, NEW u \in Seq(X), NEW drop
    PROVE  /\ Without(u, drop) = End(Seq(X), Drop(X, drop), <<>>, u)
           /\ Without(u, drop) \in Seq(X)
           /\ Step(Seq(X), X, Drop(X, drop), <<>>)
<1> DEFINE m == Len(u)
           D == Drop(X, drop)
           Def(k) == k = [i \in 0 .. m |-> IF i = 0 THEN <<>>
                            ELSE IF u[i] \in drop THEN k[i - 1] ELSE Append(k[i - 1], u[i])]
           g == CHOOSE k : Def(k)
<1>1. m \in Nat /\ \A i \in 1 .. m : u[i] \in X
  BY LenProperties, ElementOfSeq
<1>3. Step(Seq(X), X, D, <<>>)
  <2>1. \A k \in Seq(X), c \in X : Append(k, c) \in Seq(X)
    BY AppendProperties
  <2>2. D \in [Seq(X) -> [X -> Seq(X)]]
    BY <2>1 DEF Drop
  <2> QED
    BY <2>2, EmptySeq DEF Step
<1>4. \A k \in Seq(X), c \in X : D[k][c] = IF c \in drop THEN k ELSE Append(k, c)
  BY DEF Drop
<1> HIDE DEF D
<1>5. PICK f \in [0 .. m -> Seq(X)] : Along(D, <<>>, u, f)
  BY <1>3, Recursion
<1>6. Without(u, drop) = g[m]
  BY DEF Without
<1>7. f[0] = <<>> /\ \A i \in 1 .. m : f[i] = D[f[i - 1]][u[i]]
  BY <1>5 DEF Along
<1>8. Def(f)
  <2> HIDE DEF m
  <2>1. \A i \in 1 .. m : f[i] = IF u[i] \in drop THEN f[i - 1] ELSE Append(f[i - 1], u[i])
    <3> TAKE i \in 1 .. m
    <3>1. f[i - 1] \in Seq(X)
      BY <1>1
    <3> QED
      BY <1>1, <1>4, <1>7, <3>1
  <2>2. f = [i \in 0 .. m |-> f[i]]
    OBVIOUS
  <2>3. \A i \in 0 .. m : i = 0 \/ i \in 1 .. m
    BY <1>1
  <2> QED
    BY <1>7, <2>1, <2>2, <2>3
<1> HIDE DEF Def
<1>9. Def(g)
  BY <1>8
<1> HIDE DEF g
<1>10. Follows(Seq(X), D, <<>>, u, g)
  <2>1. \A i \in 1 .. m : i \in 0 .. m /\ i # 0
    BY <1>1
  <2>2. 0 \in 0 .. m
    BY <1>1
  <2> HIDE DEF m
  <2>3. g[0] = <<>> /\ \A i \in 1 .. m :
           g[i] = IF u[i] \in drop THEN g[i - 1] ELSE Append(g[i - 1], u[i])
    BY <1>9, <2>1, <2>2 DEF Def
  <2> QED
    BY <1>1, <1>4, <2>3 DEF Follows, m
<1>11. g[Len(u)] = End(Seq(X), D, <<>>, u) /\ End(Seq(X), D, <<>>, u) \in Seq(X)
  BY <1>3, <1>10, EndsThere
<1> QED
  BY <1>3, <1>6, <1>11 DEF D

(* One code more. *)
LEMMA WithoutAppend ==
    ASSUME NEW X, NEW u \in Seq(X), NEW x \in X, NEW drop
    PROVE  Without(Append(u, x), drop)
               = IF x \in drop THEN Without(u, drop) ELSE Append(Without(u, drop), x)
<1> DEFINE D == Drop(X, drop)
<1>1. <<>> \in Seq(X)
  BY EmptySeq
<1>2. Step(Seq(X), X, D, <<>>)
  BY <1>1, WithoutRuns
<1>3. \A k \in Seq(X), c \in X : D[k][c] = IF c \in drop THEN k ELSE Append(k, c)
  BY DEF Drop
<1>4. \A v \in Seq(X) : /\ Without(v, drop) = End(Seq(X), D, <<>>, v)
                         /\ Without(v, drop) \in Seq(X)
  BY WithoutRuns
<1> HIDE DEF D
<1>5. End(Seq(X), D, <<>>, Append(u, x)) = D[End(Seq(X), D, <<>>, u)][x]
  BY <1>2, EndAppend
<1>6. Append(u, x) \in Seq(X)
  BY AppendProperties
<1> QED
  BY <1>1, <1>3, <1>4, <1>5, <1>6

(* What the filters keep of a text over C. *)
Filtered(C) == [lines : Seq(Seq(C)), line : Seq(C), done : BOOLEAN]

(* The ends of a text are never kept. *)
LEMMA CodeType ==
    ASSUME NEW P, NEW r \in Filtered(P), NEW c, c \in Stops \/ c \in P
    PROVE  Code(r, c) \in Filtered(P)
<1>1. /\ r.lines \in Seq(Seq(P)) /\ r.line \in Seq(P) /\ r.done \in BOOLEAN
      /\ <<>> \in Seq(P)
  BY EmptySeq DEF Filtered
<1>2. Append(r.lines, r.line) \in Seq(Seq(P)) /\ (c \in P => Append(r.line, c) \in Seq(P))
  BY <1>1, AppendProperties
<1>3. CASE r.done
  BY <1>3 DEF Code
<1>4. CASE ~r.done /\ c \in Stops \cup {LF}
  BY <1>1, <1>2, <1>4 DEF Code, Filtered
<1>5. CASE ~r.done /\ c \notin Stops \cup {LF}
  <2>1. Code(r, c) = [r EXCEPT !.line = Append(@, c)]
    BY <1>5 DEF Code
  <2>2. Append(r.line, c) \in Seq(P)
    BY <1>2, <1>5
  <2> QED
    BY <1>1, <2>1, <2>2 DEF Filtered
<1> QED
  BY <1>3, <1>4, <1>5

Coded(P, C) == [r \in Filtered(P) |-> [c \in C |-> Code(r, c)]]

(* type goes along the text. *)
LEMMA TypeRuns ==
    ASSUME NEW P, NEW C, C \ Stops \subseteq P, NEW r \in Filtered(P), NEW u \in Seq(C)
    PROVE  /\ type(r, u) = End(Filtered(P), Coded(P, C), r, u)
           /\ type(r, u) \in Filtered(P)
           /\ Step(Filtered(P), C, Coded(P, C), r)
<1> DEFINE m == Len(u)
           D == Coded(P, C)
           Def(k) == k = [i \in 0 .. m |-> IF i = 0 THEN r ELSE Code(k[i - 1], u[i])]
           g == CHOOSE k : Def(k)
<1>1. m \in Nat /\ \A i \in 1 .. m : u[i] \in C
  BY LenProperties, ElementOfSeq
<1>3. Step(Filtered(P), C, D, r)
  <2>1. \A k \in Filtered(P), c \in C : Code(k, c) \in Filtered(P)
    BY CodeType
  <2>2. D \in [Filtered(P) -> [C -> Filtered(P)]]
    BY <2>1 DEF Coded
  <2> QED
    BY <2>2 DEF Step
<1>4. \A k \in Filtered(P), c \in C : D[k][c] = Code(k, c)
  BY DEF Coded
<1> HIDE DEF D
<1>5. PICK f \in [0 .. m -> Filtered(P)] : Along(D, r, u, f)
  BY <1>3, Recursion
<1>6. type(r, u) = g[m]
  BY DEF type
<1>7. f[0] = r /\ \A i \in 1 .. m : f[i] = D[f[i - 1]][u[i]]
  BY <1>5 DEF Along
<1>8. Def(f)
  <2> HIDE DEF m
  <2>1. \A i \in 1 .. m : f[i] = Code(f[i - 1], u[i])
    <3> TAKE i \in 1 .. m
    <3>1. f[i - 1] \in Filtered(P)
      BY <1>1
    <3> QED
      BY <1>1, <1>4, <1>7, <3>1
  <2>2. f = [i \in 0 .. m |-> f[i]]
    OBVIOUS
  <2>3. \A i \in 0 .. m : i = 0 \/ i \in 1 .. m
    BY <1>1
  <2> QED
    BY <1>7, <2>1, <2>2, <2>3
<1> HIDE DEF Def
<1>9. Def(g)
  BY <1>8
<1> HIDE DEF g
<1>10. Follows(Filtered(P), D, r, u, g)
  <2>1. \A i \in 1 .. m : i \in 0 .. m /\ i # 0
    BY <1>1
  <2>2. 0 \in 0 .. m
    BY <1>1
  <2> HIDE DEF m
  <2>3. g[0] = r /\ \A i \in 1 .. m : g[i] = Code(g[i - 1], u[i])
    BY <1>9, <2>1, <2>2 DEF Def
  <2> QED
    BY <1>1, <1>4, <2>3 DEF Follows, m
<1>11. g[Len(u)] = End(Filtered(P), D, r, u) /\ End(Filtered(P), D, r, u) \in Filtered(P)
  BY <1>3, <1>10, EndsThere
<1> QED
  BY <1>3, <1>6, <1>11 DEF D

(* One code more. *)
LEMMA TypeAppend ==
    ASSUME NEW P, NEW C, C \ Stops \subseteq P, NEW r \in Filtered(P),
           NEW u \in Seq(C), NEW x \in C
    PROVE  type(r, Append(u, x)) = Code(type(r, u), x)
<1> DEFINE D == Coded(P, C)
<1>1. <<>> \in Seq(C)
  BY EmptySeq
<1>2. Step(Filtered(P), C, D, r)
  BY <1>1, TypeRuns
<1>3. \A k \in Filtered(P), c \in C : D[k][c] = Code(k, c)
  BY DEF Coded
<1>4. \A v \in Seq(C) : /\ type(r, v) = End(Filtered(P), D, r, v)
                         /\ type(r, v) \in Filtered(P)
  BY TypeRuns
<1> HIDE DEF D
<1>5. End(Filtered(P), D, r, Append(u, x)) = D[End(Filtered(P), D, r, u)][x]
  BY <1>2, EndAppend
<1>6. Append(u, x) \in Seq(C)
  BY AppendProperties
<1> QED
  BY <1>1, <1>3, <1>4, <1>5, <1>6

Chained(X) == [k \in Seq(X) |-> [v \in Seq(X) |-> k \o v]]

(* FlattenSeq goes along its sequences. *)
LEMMA FlattenRuns ==
    ASSUME NEW X, NEW u \in Seq(Seq(X))
    PROVE  /\ FlattenSeq(u) = End(Seq(X), Chained(X), <<>>, u)
           /\ FlattenSeq(u) \in Seq(X)
           /\ Step(Seq(X), Seq(X), Chained(X), <<>>)
<1> DEFINE m == Len(u)
           D == Chained(X)
           Def(k) == k = [i \in 1 .. m |-> IF i = 1 THEN u[i] ELSE k[i - 1] \o u[i]]
           g == CHOOSE k : Def(k)
           h == [i \in 0 .. m |-> IF i = 0 THEN <<>> ELSE g[i]]
<1>1. m \in Nat /\ \A i \in 1 .. m : u[i] \in Seq(X)
  BY LenProperties, ElementOfSeq
<1>3. Step(Seq(X), Seq(X), D, <<>>)
  <2>1. \A k \in Seq(X), v \in Seq(X) : k \o v \in Seq(X)
    BY ConcatProperties
  <2>2. D \in [Seq(X) -> [Seq(X) -> Seq(X)]]
    BY <2>1 DEF Chained
  <2> QED
    BY <2>2, EmptySeq DEF Step
<1>4. \A k \in Seq(X), v \in Seq(X) : D[k][v] = k \o v
  BY DEF Chained
<1> HIDE DEF D
<1>5. PICK f \in [0 .. m -> Seq(X)] : Along(D, <<>>, u, f)
  BY <1>3, Recursion
<1>6. FlattenSeq(u) = IF m = 0 THEN u ELSE g[m]
  BY DEF FlattenSeq
<1>7. f[0] = <<>> /\ \A i \in 1 .. m : f[i] = D[f[i - 1]][u[i]]
  BY <1>5 DEF Along
<1>8. \E k : Def(k)
  <2> HIDE DEF m
  <2>1. \A i \in 1 .. m : f[i] = f[i - 1] \o u[i]
    <3> TAKE i \in 1 .. m
    <3>1. f[i - 1] \in Seq(X)
      BY <1>1
    <3> QED
      BY <1>1, <1>4, <1>7, <3>1
  <2>2. \A i \in 1 .. m : i = 1 => f[i] = u[i]
    <3>1. ASSUME NEW i \in 1 .. m, i = 1 PROVE f[i] = u[i]
      <4>1. f[i] = f[i - 1] \o u[i] /\ u[i] \in Seq(X)
        BY <1>1, <2>1
      <4>2. i - 1 = 0
        BY <3>1
      <4>3. f[i] = <<>> \o u[i]
        BY <1>7, <4>1, <4>2
      <4> QED
        BY <4>1, <4>3, ConcatEmptySeq
    <3> QED
      BY <3>1
  <2>3. \A i \in 1 .. m : i # 1 => i - 1 \in 1 .. m
    BY <1>1
  <2> DEFINE k == [i \in 1 .. m |-> f[i]]
  <2>4. k = [i \in 1 .. m |-> IF i = 1 THEN u[i] ELSE k[i - 1] \o u[i]]
    BY <2>1, <2>2, <2>3
  <2> HIDE DEF k
  <2> QED
    BY <2>4
<1> HIDE DEF Def
<1>9. Def(g)
  BY <1>8
<1> HIDE DEF g
<1>10. Follows(Seq(X), D, <<>>, u, h)
  <2>1. \A i \in 1 .. m : i \in 0 .. m /\ i # 0 /\ i - 1 \in 0 .. m /\ (i # 1 => i - 1 # 0)
    BY <1>1
  <2>2. 0 \in 0 .. m
    BY <1>1
  <2> HIDE DEF m
  <2>3. \A i \in 1 .. m : g[i] = IF i = 1 THEN u[i] ELSE g[i - 1] \o u[i]
    BY <1>9 DEF Def
  <2>4. \A i \in 1 .. m : i = 1 => <<>> \o u[i] = u[i]
    BY <1>1, ConcatEmptySeq
  <2>a. h[0] = <<>> /\ \A i \in 1 .. m : h[i] = g[i]
    BY <2>1, <2>2
  <2>b. \A i \in 1 .. m : h[i - 1] = IF i = 1 THEN <<>> ELSE g[i - 1]
    BY <2>1
  <2> HIDE DEF h
  <2>5. \A i \in 1 .. m : h[i] = h[i - 1] \o u[i]
    BY <2>3, <2>4, <2>a, <2>b
  <2> QED
    BY <1>1, <1>4, <2>5, <2>a DEF Follows, m
<1>11. h[Len(u)] = End(Seq(X), D, <<>>, u) /\ End(Seq(X), D, <<>>, u) \in Seq(X)
  BY <1>3, <1>10, EndsThere
<1>12. h[m] = FlattenSeq(u)
  <2>1. m = 0 => u = <<>>
    BY EmptySeq
  <2>2. m \in 0 .. m
    BY <1>1
  <2> HIDE DEF m
  <2> QED
    BY <1>6, <2>1, <2>2
<1> QED
  BY <1>3, <1>11, <1>12 DEF D

(* One sequence more. *)
LEMMA FlattenAppend ==
    ASSUME NEW X, NEW u \in Seq(Seq(X)), NEW v \in Seq(X)
    PROVE  FlattenSeq(Append(u, v)) = FlattenSeq(u) \o v
<1> DEFINE D == Chained(X)
<1>1. <<>> \in Seq(Seq(X))
  BY EmptySeq
<1>2. Step(Seq(X), Seq(X), D, <<>>)
  BY <1>1, FlattenRuns
<1>3. \A k \in Seq(X), w \in Seq(X) : D[k][w] = k \o w
  BY DEF Chained
<1>4. \A w \in Seq(Seq(X)) : /\ FlattenSeq(w) = End(Seq(X), D, <<>>, w)
                              /\ FlattenSeq(w) \in Seq(X)
  BY FlattenRuns
<1> HIDE DEF D
<1>5. End(Seq(X), D, <<>>, Append(u, v)) = D[End(Seq(X), D, <<>>, u)][v]
  BY <1>2, EndAppend
<1>6. Append(u, v) \in Seq(Seq(X))
  BY AppendProperties
<1> QED
  BY <1>1, <1>3, <1>4, <1>5, <1>6

(* Without and type of nothing. *)
LEMMA RunsEmpty ==
    /\ \A drop : Without(<<>>, drop) = <<>>
    /\ \A P, r : r \in Filtered(P) => type(r, <<>>) = r
<1>1. ASSUME NEW drop PROVE Without(<<>>, drop) = <<>>
  <2>1. <<>> \in Seq({})
    BY EmptySeq
  <2>2. /\ Without(<<>>, drop) = End(Seq({}), Drop({}, drop), <<>>, <<>>)
        /\ Step(Seq({}), {}, Drop({}, drop), <<>>)
    BY <2>1, WithoutRuns
  <2> QED
    BY <2>2, EndEmpty
<1>2. ASSUME NEW P, NEW r \in Filtered(P) PROVE type(r, <<>>) = r
  <2>1. <<>> \in Seq({}) /\ {} \ Stops \subseteq P
    BY EmptySeq
  <2>2. /\ type(r, <<>>) = End(Filtered(P), Coded(P, {}), r, <<>>)
        /\ Step(Filtered(P), {}, Coded(P, {}), r)
    BY <2>1, TypeRuns
  <2> QED
    BY <2>2, EndEmpty
<1> QED
  BY <1>1, <1>2

(* An element moves through a concatenation. *)
LEMMA AppendConcat ==
    ASSUME NEW X, NEW u \in Seq(X), NEW v \in Seq(X), NEW x \in X
    PROVE  u \o Append(v, x) = Append(u \o v, x)
<1>1. Append(v, x) = v \o <<x>> /\ <<x>> \in Seq(X)
  BY AppendIsConcat
<1>2. u \o v \in Seq(X)
  BY ConcatProperties
<1>3. Append(u \o v, x) = (u \o v) \o <<x>>
  BY <1>2, AppendIsConcat
<1> QED
  BY <1>1, <1>3, ConcatAssociative

(* Without of two texts. *)
LEMMA WithoutConcat ==
    ASSUME NEW X, NEW u \in Seq(X), NEW v \in Seq(X), NEW drop
    PROVE  Without(u \o v, drop) = Without(u, drop) \o Without(v, drop)
<1> DEFINE Good(w) == Without(u \o w, drop) = Without(u, drop) \o Without(w, drop)
           S == {w \in Seq(X) : Good(w)}
<1>1. <<>> \in S
  <2>1. <<>> \in Seq(X) /\ u \o <<>> = u
    BY EmptySeq, ConcatEmptySeq
  <2>2. Without(u, drop) \o <<>> = Without(u, drop)
    BY WithoutRuns, ConcatEmptySeq
  <2> QED
    BY <2>1, <2>2, RunsEmpty
<1>2. ASSUME NEW w \in S, NEW x \in X PROVE Append(w, x) \in S
  <2>a. w \in Seq(X) /\ Good(w)
    OBVIOUS
  <2> HIDE DEF S
  <2>1. Append(w, x) \in Seq(X) /\ u \o Append(w, x) = Append(u \o w, x) /\ u \o w \in Seq(X)
    BY <2>a, AppendConcat, AppendProperties, ConcatProperties
  <2>2. /\ Without(u, drop) \in Seq(X) /\ Without(w, drop) \in Seq(X)
        /\ Without(u \o w, drop) = Without(u, drop) \o Without(w, drop)
    BY <2>a, WithoutRuns
  <2>3. Without(Append(u \o w, x), drop)
            = IF x \in drop THEN Without(u \o w, drop) ELSE Append(Without(u \o w, drop), x)
    <3> DEFINE z == u \o w
    <3>1. z \in Seq(X)
      BY <2>1
    <3> HIDE DEF z
    <3>2. Without(Append(z, x), drop)
              = IF x \in drop THEN Without(z, drop) ELSE Append(Without(z, drop), x)
      BY <3>1, WithoutAppend
    <3> QED
      BY <3>2 DEF z
  <2>b. Without(Append(w, x), drop)
            = IF x \in drop THEN Without(w, drop) ELSE Append(Without(w, drop), x)
    BY <2>a, WithoutAppend
  <2>4. Without(u, drop) \o Append(Without(w, drop), x)
            = Append(Without(u, drop) \o Without(w, drop), x)
    BY <2>2, AppendConcat
  <2>5. Good(Append(w, x))
    BY <2>1, <2>2, <2>3, <2>b, <2>4
  <2> HIDE DEF Good
  <2> QED
    BY <2>1, <2>5 DEF S
<1> HIDE DEF Good
<1>3. S = Seq(X)
  <2>1. S \in SUBSET Seq(X)
    OBVIOUS
  <2> HIDE DEF S
  <2> QED
    BY <1>1, <1>2, <2>1, SeqSet
<1> QED
  BY <1>3 DEF Good

(* How often a code occurs, one code further. *)
LEMMA TimesAppend ==
    ASSUME NEW X, NEW u \in Seq(X), NEW x \in X, NEW c
    PROVE  Times(Append(u, x), c) = Times(u, c) + IF x = c THEN 1 ELSE 0
<1> DEFINE At(v) == {i \in DOMAIN v : v[i] = c}
           w == Append(u, x)
           m == Len(u)
<1>1. /\ m \in Nat /\ w[m + 1] = x /\ \A i \in 1 .. m : w[i] = u[i]
      /\ DOMAIN w = 1 .. m + 1 /\ DOMAIN u = 1 .. m
  BY LenProperties, AppendProperties
<1> HIDE DEF w, m
<1>2. At(w) = IF x = c THEN At(u) \cup {m + 1} ELSE At(u)
  <2>1. \A i : i \in 1 .. m + 1 <=> i \in 1 .. m \/ i = m + 1
    BY <1>1
  <2> QED
    BY <1>1, <2>1
<1>3. m + 1 \notin At(u)
  BY <1>1
<1>4. IsFiniteSet(At(u))
  <2>1. IsFiniteSet(1 .. m) /\ At(u) \in SUBSET (1 .. m)
    BY <1>1, FS_Interval
  <2> QED
    BY <2>1, FS_Subset
<1>5. Times(u, c) = Cardinality(At(u)) /\ Times(w, c) = Cardinality(At(w))
  BY DEF Times
<1> HIDE DEF At
<1>6. /\ Cardinality(At(u) \cup {m + 1}) = Cardinality(At(u)) + 1
      /\ Cardinality(At(u)) \in Nat
  BY <1>3, <1>4, FS_AddElement, FS_CardinalityType
<1> QED
  BY <1>2, <1>5, <1>6 DEF w

(* A number, and none of an empty text. *)
LEMMA TimesType ==
    ASSUME NEW X, NEW u \in Seq(X), NEW c
    PROVE  Times(u, c) \in Nat /\ Times(<<>>, c) = 0
<1>1. {i \in DOMAIN <<>> : <<>>[i] = c} = {}
  BY EmptySeq
<1>2. Times(<<>>, c) = 0
  BY <1>1, FS_EmptySet DEF Times
<1>3. IsFiniteSet(1 .. Len(u)) /\ DOMAIN u = 1 .. Len(u)
  BY LenProperties, FS_Interval
<1>4. IsFiniteSet({i \in DOMAIN u : u[i] = c})
  BY <1>3, FS_Subset
<1> QED
  BY <1>2, <1>4, FS_CardinalityType DEF Times

(* Times of two texts. *)
LEMMA TimesConcat ==
    ASSUME NEW X, NEW u \in Seq(X), NEW v \in Seq(X), NEW c
    PROVE  Times(u \o v, c) = Times(u, c) + Times(v, c)
<1> DEFINE Good(w) == Times(u \o w, c) = Times(u, c) + Times(w, c)
           S == {w \in Seq(X) : Good(w)}
<1>1. <<>> \in S
  <2>1. <<>> \in Seq(X) /\ u \o <<>> = u
    BY EmptySeq, ConcatEmptySeq
  <2>2. Times(u, c) \in Nat /\ Times(<<>>, c) = 0
    BY TimesType
  <2> QED
    BY <2>1, <2>2
<1>2. ASSUME NEW w \in S, NEW x \in X PROVE Append(w, x) \in S
  <2>a. w \in Seq(X) /\ Good(w)
    OBVIOUS
  <2> HIDE DEF S
  <2>1. Append(w, x) \in Seq(X) /\ u \o Append(w, x) = Append(u \o w, x) /\ u \o w \in Seq(X)
    BY <2>a, AppendConcat, AppendProperties, ConcatProperties
  <2>2. /\ Times(u, c) \in Nat /\ Times(w, c) \in Nat
        /\ Times(u \o w, c) = Times(u, c) + Times(w, c)
    BY <2>a, TimesType
  <2>3. Times(Append(u \o w, x), c) = Times(u \o w, c) + IF x = c THEN 1 ELSE 0
    <3> DEFINE z == u \o w
    <3>1. z \in Seq(X)
      BY <2>1
    <3> HIDE DEF z
    <3>2. Times(Append(z, x), c) = Times(z, c) + IF x = c THEN 1 ELSE 0
      BY <3>1, TimesAppend
    <3> QED
      BY <3>2 DEF z
  <2>5. Times(Append(w, x), c) = Times(w, c) + IF x = c THEN 1 ELSE 0
    BY <2>a, TimesAppend
  <2>6. Good(Append(w, x))
    BY <2>1, <2>2, <2>3, <2>5
  <2> HIDE DEF Good
  <2> QED
    BY <2>1, <2>6 DEF S
<1> HIDE DEF Good
<1>3. S = Seq(X)
  <2>1. S \in SUBSET Seq(X)
    OBVIOUS
  <2> HIDE DEF S
  <2> QED
    BY <1>1, <1>2, <2>1, SeqSet
<1> QED
  BY <1>3 DEF Good
-----------------------------------------------------------------------------
(* What the filters make of a text. *)

Codes == Keys \cup {NUL, ETX, EOT}

(* The codes of a text in front of its end. *)
Letters == (Codes \ Stops) \cup {LF}

LEMMA LettersFacts ==
    LF \in Letters /\ Codes \ Stops \subseteq Letters /\ \A c \in Letters : c \notin Stops
BY FiltersAssumption DEF Letters, Stops

(* What type writes for the lines. *)
Lined(L) == [i \in DOMAIN L |-> Append(L[i], LF)]

OutText(L) == FlattenSeq(Lined(L))

(* What is known of a text after type and after sort. *)
Written(r) == OutText(r.lines) \o r.line
Kept(r) == FlattenSeq(r.lines) \o r.line

LEMMA LinedType ==
    ASSUME NEW L \in Seq(Seq(Letters))
    PROVE  /\ Lined(L) \in Seq(Seq(Letters)) /\ OutText(L) \in Seq(Letters)
           /\ FlattenSeq(L) \in Seq(Letters)
<1>1. Len(L) \in Nat /\ DOMAIN L = 1 .. Len(L) /\ \A i \in 1 .. Len(L) : L[i] \in Seq(Letters)
  BY LenProperties, ElementOfSeq
<1>2. \A i \in 1 .. Len(L) : Append(L[i], LF) \in Seq(Letters)
  BY <1>1, AppendProperties, LettersFacts
<1>3. Lined(L) \in Seq(Seq(Letters))
  BY <1>1, <1>2, IsASeq DEF Lined
<1> QED
  BY <1>3, FlattenRuns DEF OutText

(* One line more. *)
LEMMA LinesAppend ==
    ASSUME NEW L \in Seq(Seq(Letters)), NEW l \in Seq(Letters)
    PROVE  /\ OutText(Append(L, l)) = OutText(L) \o Append(l, LF)
           /\ FlattenSeq(Append(L, l)) = FlattenSeq(L) \o l
<1> DEFINE m == Len(L)
           w == Append(L, l)
           v == Append(Lined(L), Append(l, LF))
<1>1. /\ m \in Nat /\ w[m + 1] = l /\ \A i \in 1 .. m : w[i] = L[i]
      /\ DOMAIN w = 1 .. m + 1 /\ DOMAIN L = 1 .. m
  BY LenProperties, AppendProperties
<1>2. Lined(L) \in Seq(Seq(Letters)) /\ Append(l, LF) \in Seq(Letters)
  BY LinedType, AppendProperties, LettersFacts
<1>3. DOMAIN Lined(L) = 1 .. m /\ \A i \in 1 .. m : Lined(L)[i] = Append(L[i], LF)
  BY <1>1 DEF Lined
<1>4. Len(Lined(L)) = m
  BY <1>1, <1>2, <1>3, LenProperties
<1>5. /\ v \in Seq(Seq(Letters)) /\ Len(v) = m + 1 /\ v[m + 1] = Append(l, LF)
      /\ \A i \in 1 .. m : v[i] = Lined(L)[i]
  BY <1>2, <1>4, AppendProperties
<1>6. v = [i \in 1 .. m + 1 |-> v[i]]
  BY <1>5, LenProperties, SeqDef
<1>7. Lined(w) = [i \in 1 .. m + 1 |-> Append(w[i], LF)]
  BY <1>1 DEF Lined
<1>8. \A i \in 1 .. m + 1 : v[i] = Append(w[i], LF)
  BY <1>1, <1>3, <1>5
<1>9. v = Lined(w)
  <2> HIDE DEF v, w
  <2> QED
    BY <1>6, <1>7, <1>8
<1>10. FlattenSeq(v) = FlattenSeq(Lined(L)) \o Append(l, LF)
  BY <1>2, FlattenAppend
<1> QED
  BY <1>9, <1>10, FlattenAppend DEF OutText

(* Sequences of letters, put together. *)
LEMMA Joined ==
    ASSUME NEW u \in Seq(Letters), NEW v \in Seq(Letters)
    PROVE  /\ u \o v \in Seq(Letters) /\ u \o <<>> = u
           /\ \A c \in Letters : Append(u, c) \in Seq(Letters)
           /\ \A c \in Letters : u \o Append(v, c) = Append(u \o v, c)
BY ConcatProperties, ConcatEmptySeq, AppendProperties, AppendConcat

(* A line moves to the lines. *)
LEMMA LineMoves ==
    ASSUME NEW r \in Filtered(Letters), NEW q, q.lines = Append(r.lines, r.line),
           q.line = <<>>
    PROVE  Written(q) = Append(Written(r), LF) /\ Kept(q) = Kept(r)
<1> DEFINE o == OutText(r.lines)
           f == FlattenSeq(r.lines)
           l == r.line
<1>1. l \in Seq(Letters) /\ o \in Seq(Letters) /\ f \in Seq(Letters) /\ LF \in Letters
  BY LinedType, LettersFacts DEF Filtered
<1>2. OutText(q.lines) = o \o Append(l, LF) /\ FlattenSeq(q.lines) = f \o l
  BY LinesAppend DEF Filtered
<1>3. /\ Written(q) = OutText(q.lines) \o <<>> /\ Kept(q) = FlattenSeq(q.lines) \o <<>>
      /\ Written(r) = o \o l /\ Kept(r) = f \o l
  BY DEF Written, Kept
<1> HIDE DEF o, f, l
<1>4. /\ o \o l \in Seq(Letters) /\ f \o l \in Seq(Letters)
      /\ o \o Append(l, LF) = Append(o \o l, LF)
  BY <1>1, Joined
<1>5. Append(o \o l, LF) \in Seq(Letters)
  BY <1>1, <1>4, Joined
<1>6. Append(o \o l, LF) \o <<>> = Append(o \o l, LF) /\ (f \o l) \o <<>> = f \o l
  BY <1>4, <1>5, Joined
<1> QED
  BY <1>2, <1>3, <1>4, <1>6

(* One letter: nothing is lost or added, except by sort the newlines. *)
LEMMA CodeLetter ==
    ASSUME NEW r \in Filtered(Letters), ~r.done, NEW c \in Letters
    PROVE  /\ Code(r, c) \in Filtered(Letters) /\ ~Code(r, c).done
           /\ Written(Code(r, c)) = Append(Written(r), c)
           /\ Kept(Code(r, c)) = IF c = LF THEN Kept(r) ELSE Append(Kept(r), c)
<1> DEFINE q == Code(r, c)
<1>1. c \notin Stops
  BY LettersFacts
<1>2. q \in Filtered(Letters)
  BY CodeType
<1>3. CASE c = LF
  <2>1. q.lines = Append(r.lines, r.line) /\ q.line = <<>> /\ q.done = (c \in Stops)
    BY <1>1, <1>3 DEF Code
  <2> HIDE DEF q
  <2>2. Written(q) = Append(Written(r), c) /\ Kept(q) = Kept(r)
    BY <1>3, <2>1, LineMoves
  <2> QED
    BY <1>1, <1>2, <1>3, <2>1, <2>2 DEF q
<1>4. CASE c # LF
  <2>1. q = [r EXCEPT !.line = Append(@, c)]
    BY <1>1, <1>4 DEF Code
  <2>2. q.lines = r.lines /\ q.line = Append(r.line, c) /\ q.done = r.done
    BY <2>1 DEF Filtered
  <2> HIDE DEF q
  <2> DEFINE o == OutText(r.lines)
             f == FlattenSeq(r.lines)
             l == r.line
  <2>3. l \in Seq(Letters) /\ o \in Seq(Letters) /\ f \in Seq(Letters)
    BY LinedType DEF Filtered
  <2>4. /\ Written(q) = o \o Append(l, c) /\ Kept(q) = f \o Append(l, c)
        /\ Written(r) = o \o l /\ Kept(r) = f \o l
    BY <2>2 DEF Written, Kept
  <2> HIDE DEF o, f, l
  <2>5. o \o Append(l, c) = Append(o \o l, c) /\ f \o Append(l, c) = Append(f \o l, c)
    BY <2>3, Joined
  <2> QED
    BY <1>2, <1>4, <2>2, <2>4, <2>5 DEF q
<1> QED
  BY <1>3, <1>4

(* The end: the line that has begun is written. *)
LEMMA CodeStop ==
    ASSUME NEW r \in Filtered(Letters), ~r.done, NEW c \in Stops
    PROVE  /\ Code(r, c) \in Filtered(Letters) /\ Code(r, c).done
           /\ Written(Code(r, c)) = Append(Written(r), LF)
           /\ Kept(Code(r, c)) = Kept(r)
<1> DEFINE q == Code(r, c)
<1>1. q \in Filtered(Letters)
  BY CodeType
<1>2. q.lines = Append(r.lines, r.line) /\ q.line = <<>> /\ q.done = (c \in Stops)
  BY DEF Code
<1> HIDE DEF q
<1> QED
  BY <1>1, <1>2, LineMoves DEF q

(* type, of a text without an end. *)
LEMMA TypeLetters ==
    ASSUME NEW r \in Filtered(Letters), ~r.done, NEW u \in Seq(Letters)
    PROVE  /\ type(r, u) \in Filtered(Letters) /\ ~type(r, u).done
           /\ Written(type(r, u)) = Written(r) \o u
           /\ Kept(type(r, u)) = Kept(r) \o Without(u, {LF})
<1> DEFINE Good(w) == /\ ~type(r, w).done
                      /\ Written(type(r, w)) = Written(r) \o w
                      /\ Kept(type(r, w)) = Kept(r) \o Without(w, {LF})
           S == {w \in Seq(Letters) : Good(w)}
<1>1. Written(r) \in Seq(Letters) /\ Kept(r) \in Seq(Letters)
  BY LinedType, ConcatProperties DEF Filtered, Written, Kept
<1>2. \A w \in Seq(Letters) : type(r, w) \in Filtered(Letters)
  BY TypeRuns
<1>3. <<>> \in S
  <2>1. <<>> \in Seq(Letters) /\ type(r, <<>>) = r /\ Without(<<>>, {LF}) = <<>>
    BY EmptySeq, RunsEmpty
  <2>2. Written(r) \o <<>> = Written(r) /\ Kept(r) \o <<>> = Kept(r)
    BY <1>1, ConcatEmptySeq
  <2> QED
    BY <2>1, <2>2
<1>4. ASSUME NEW w \in S, NEW c \in Letters PROVE Append(w, c) \in S
  <2>1. w \in Seq(Letters) /\ Good(w)
    OBVIOUS
  <2> HIDE DEF S
  <2> DEFINE q == type(r, w)
             k == Without(w, {LF})
  <2>2. q \in Filtered(Letters) /\ k \in Seq(Letters) /\ Append(w, c) \in Seq(Letters)
    BY <1>2, <2>1, WithoutRuns, AppendProperties
  <2>3. type(r, Append(w, c)) = Code(q, c)
    BY <2>1, TypeAppend
  <2>4. ~q.done /\ Written(q) = Written(r) \o w /\ Kept(q) = Kept(r) \o k
    BY <2>1
  <2>5. Without(Append(w, c), {LF}) = IF c = LF THEN k ELSE Append(k, c)
    BY <2>1, WithoutAppend
  <2> HIDE DEF q, k
  <2>6. /\ ~Code(q, c).done /\ Written(Code(q, c)) = Append(Written(q), c)
        /\ Kept(Code(q, c)) = IF c = LF THEN Kept(q) ELSE Append(Kept(q), c)
    BY <2>2, <2>4, CodeLetter
  <2>7. /\ Written(r) \o Append(w, c) = Append(Written(r) \o w, c)
        /\ Kept(r) \o Append(k, c) = Append(Kept(r) \o k, c)
    <3> DEFINE a == Written(r)
               b == Kept(r)
    <3>1. a \in Seq(Letters) /\ b \in Seq(Letters)
      BY <1>1
    <3> HIDE DEF a, b
    <3>2. a \o Append(w, c) = Append(a \o w, c)
      BY <2>1, <3>1, Joined
    <3>3. b \o Append(k, c) = Append(b \o k, c)
      BY <2>2, <3>1, Joined
    <3> QED
      BY <3>2, <3>3 DEF a, b
  <2>8. Good(Append(w, c))
    BY <2>3, <2>4, <2>5, <2>6, <2>7
  <2> HIDE DEF Good
  <2> QED
    BY <2>2, <2>8 DEF S
<1> HIDE DEF Good
<1>5. S = Seq(Letters)
  <2>1. S \in SUBSET Seq(Letters)
    OBVIOUS
  <2> HIDE DEF S
  <2> QED
    BY <1>3, <1>4, <2>1, SeqSet
<1> QED
  BY <1>2, <1>5 DEF Good

(* type, of a text up to its end. *)
LEMMA TypeEnded ==
    ASSUME NEW r \in Filtered(Letters), ~r.done, NEW u \in Seq(Letters), NEW e \in Stops
    PROVE  /\ type(r, Append(u, e)) \in Filtered(Letters) /\ type(r, Append(u, e)).done
           /\ Written(type(r, Append(u, e))) = Append(Written(r) \o u, LF)
           /\ Kept(type(r, Append(u, e))) = Kept(r) \o Without(u, {LF})
<1> DEFINE q == type(r, u)
<1>1. /\ q \in Filtered(Letters) /\ ~q.done /\ Written(q) = Written(r) \o u
      /\ Kept(q) = Kept(r) \o Without(u, {LF})
  BY TypeLetters
<1>2. u \in Seq(Letters \cup Stops)
  BY SeqMonotonic
<1>3. type(r, Append(u, e)) = Code(q, e)
  BY <1>2, TypeAppend
<1> HIDE DEF q
<1> QED
  BY <1>1, <1>3, CodeStop

(* sort begins a read with the line at its end: nothing is lost by it. *)
LEMMA SortBegins ==
    ASSUME NEW r \in Filtered(Letters)
    PROVE  LET q == [r EXCEPT !.lines = Append(@, r.line), !.line = <<>>]
           IN  q \in Filtered(Letters) /\ q.done = r.done /\ Kept(q) = Kept(r)
<1> DEFINE q == [r EXCEPT !.lines = Append(@, r.line), !.line = <<>>]
<1>1. /\ r.lines \in Seq(Seq(Letters)) /\ r.line \in Seq(Letters) /\ <<>> \in Seq(Letters)
  BY EmptySeq DEF Filtered
<1>2. Append(r.lines, r.line) \in Seq(Seq(Letters))
  BY <1>1, AppendProperties
<1>3. q.lines = Append(r.lines, r.line) /\ q.line = <<>> /\ q.done = r.done
  BY DEF Filtered
<1>4. q \in Filtered(Letters)
  BY <1>1, <1>2 DEF Filtered
<1> HIDE DEF q
<1> QED
  BY <1>3, <1>4, LineMoves DEF q

(* A text without an end, and one that has its end at its end. *)
LEMMA BeforeLetters ==
    ASSUME NEW u \in Seq(Letters)
    PROVE  Before(u) = u
<1>1. \A i \in 1 .. Len(u) : u[i] \notin Stops
  BY ElementOfSeq, LettersFacts
<1>2. {i \in 1 .. Len(u) : u[i] \in Stops} = {}
  BY <1>1
<1> QED
  BY <1>2 DEF Before, SelectInSeq

LEMMA BeforeEnded ==
    ASSUME NEW u \in Seq(Letters), NEW e \in Stops
    PROVE  Before(Append(u, e)) = u
<1> DEFINE w == Append(u, e)
           m == Len(u)
           I == {i \in 1 .. Len(w) : w[i] \in Stops}
<1>0. u \in Seq(Letters \cup Stops)
  BY SeqMonotonic
<1>1. /\ m \in Nat /\ Len(w) = m + 1 /\ w[m + 1] = e
      /\ \A i \in 1 .. m : w[i] = u[i] /\ u[i] \in Letters
  BY <1>0, LenProperties, AppendProperties, ElementOfSeq
<1>2. I = {m + 1}
  <2> HIDE DEF w, m
  <2>1. \A i \in 1 .. m + 1 : i = m + 1 \/ i \in 1 .. m
    BY <1>1
  <2>2. \A i \in 1 .. m : w[i] \notin Stops
    BY <1>1, LettersFacts
  <2> QED
    BY <1>1, <2>1, <2>2
<1>3. Min(I) = m + 1
  <2>1. Min({m + 1}) = m + 1
    BY <1>1 DEF Min
  <2> HIDE DEF I
  <2> QED
    BY <1>2, <2>1
<1>4. Before(w) = IF m + 1 = 0 THEN w ELSE SubSeq(w, 1, (m + 1) - 1)
  <2> HIDE DEF w, m
  <2> QED
    BY <1>2, <1>3 DEF Before, SelectInSeq
<1>5. Before(w) = SubSeq(w, 1, m)
  BY <1>1, <1>4
<1>6. \A i \in 1 .. m : w[i] \in Letters
  BY <1>1
<1>7. /\ SubSeq(w, 1, m) \in Seq(Letters) /\ Len(SubSeq(w, 1, m)) = m
      /\ \A i \in 1 .. m : SubSeq(w, 1, m)[i] = w[i]
  <2> HIDE DEF w, m
  <2>0. m \in Int /\ 1 \in Int
    BY <1>1
  <2>1. /\ SubSeq(w, 1, m) \in Seq(Letters)
        /\ Len(SubSeq(w, 1, m)) = IF 1 <= m THEN m - 1 + 1 ELSE 0
        /\ \A i \in 1 .. m - 1 + 1 : SubSeq(w, 1, m)[i] = w[1 + i - 1]
    BY <1>6, <2>0, SubSeqProperties
  <2> QED
    BY <1>1, <2>1
<1>8. SubSeq(w, 1, m) = u
  <2> DEFINE q == SubSeq(w, 1, m)
  <2>1. q \in Seq(Letters) /\ Len(q) = Len(u) /\ \A i \in 1 .. Len(q) : q[i] = u[i]
    BY <1>1, <1>7
  <2> HIDE DEF q, w, m
  <2>2. q = u
    BY <2>1, SeqEqual
  <2> QED
    BY <2>2 DEF q
<1> QED
  BY <1>5, <1>8
-----------------------------------------------------------------------------
(* The keyboard and its reader. *)

CType ==
    /\ host \in {"console", "file", "pipe"} /\ typed \in Seq(Keys)
    /\ Keyboard_Buffer \in Seq({ETX})
    /\ kpc \in {"idle", "push", "cancel"} /\ accepted \in Nat
    /\ rpc \in {"program", "ask", "file", "blocked", "failed", "replay", "code"}
    /\ code \in Codes /\ non_zero \in BOOLEAN
    /\ line \in Seq(Codes) /\ given \in Seq(Codes) /\ ends \in Nat
    /\ lines \in Filtered(Letters)

(* What sort, the first program, keeps of a line. *)
LEMMA SortType ==
    ASSUME NEW r \in Filtered(Letters), NEW u \in Seq(Codes)
    PROVE  sort(r, u) \in Filtered(Letters)
BY SortBegins, TypeRuns, LettersFacts DEF sort

LEMMA BeginFacts ==
    /\ Begin \in Filtered(Letters) /\ ~Begin.done
    /\ Written(Begin) = <<>> /\ Kept(Begin) = <<>>
<1>1. <<>> \in Seq(Seq(Letters)) /\ <<>> \in Seq(Letters) /\ <<>> \in Seq({})
  BY EmptySeq
<1>2. Begin \in Filtered(Letters)
  BY <1>1 DEF Begin, Filtered
<1>3. \A X : FlattenSeq(<<>>) = End(Seq(X), Chained(X), <<>>, <<>>)
             /\ Step(Seq(X), Seq(X), Chained(X), <<>>)
  BY FlattenRuns, EmptySeq
<1>4. FlattenSeq(<<>>) = <<>>
  BY <1>3, EndEmpty
<1>5. Lined(<<>>) = <<>>
  BY DEF Lined
<1>6. <<>> \o <<>> = <<>>
  BY <1>1, ConcatEmptySeq
<1> QED
  BY <1>2, <1>4, <1>5, <1>6 DEF Begin, Written, Kept, OutText

LEMMA CTypeInit == Init => CType
<1>1. <<>> \in Seq(Keys) /\ <<>> \in Seq({ETX}) /\ <<>> \in Seq(Codes)
  BY EmptySeq
<1> QED
  BY <1>1, BeginFacts DEF Init, CType, Codes

(* What the line editor does with the line. *)
LEMMA EditType ==
    ASSUME CType, Edit
    PROVE  /\ line' \in Seq(Codes) /\ lines' \in Filtered(Letters)
           /\ rpc' \in {"program", "ask"} /\ code' = code /\ non_zero' = non_zero
<1>1. line \in Seq(Codes) /\ code \in Codes /\ lines \in Filtered(Letters)
  BY DEF CType
<1>2. line' \in Seq(Codes)
  <2>1. Append(line, code) \in Seq(Codes)
    BY <1>1, AppendProperties
  <2>2. line # <<>> => Front(line) \in Seq(Codes)
    <3>1. SUFFICES ASSUME line # <<>> PROVE Front(line) \in Seq(Codes)
      OBVIOUS
    <3>2. /\ Len(line) \in Nat /\ 1 \in Int /\ Len(line) - 1 \in Int
          /\ \A i \in 1 .. Len(line) - 1 : i \in 1 .. Len(line)
      BY <1>1, LenProperties
    <3>3. \A i \in 1 .. Len(line) - 1 : line[i] \in Codes
      BY <1>1, <3>2, ElementOfSeq
    <3>4. SubSeq(line, 1, Len(line) - 1) \in Seq(Codes)
      BY <3>2, <3>3, SubSeqProperties
    <3> QED
      BY <3>4 DEF Front
  <2> QED
    BY <1>1, <2>1, <2>2 DEF Edit, Store
<1>3. lines' \in Filtered(Letters)
  <2>1. sort(lines, line') \in Filtered(Letters)
    BY <1>1, <1>2, SortType
  <2> QED
    BY <1>1, <2>1 DEF Edit, Store, Return, Stay
<1> QED
  BY <1>2, <1>3 DEF Edit, Store, Return, Stay, RGoto

LEMMA CTypeStep ==
    ASSUME CType, [Next]_vars PROVE CType'
<1> USE DEF CType
<1>1. CASE UNCHANGED vars
  BY <1>1 DEF vars, ctrlVars, readVars, textVars, pipeVars
<1>2. CASE CtrlC
  BY <1>2 DEF CtrlC, readVars, textVars, pipeVars
<1>3. CASE Push
  <2>1. Append(Keyboard_Buffer, ETX) \in Seq({ETX})
    BY AppendProperties
  <2> QED
    BY <1>3, <2>1 DEF Push, readVars, textVars, pipeVars
<1>4. CASE Cancel
  BY <1>4 DEF Cancel, RGoto, textVars, pipeVars
<1>5. CASE KeyArrives
  <2>1. PICK k \in Keys : typed' = Append(typed, k) /\ Give(k, TRUE)
    BY <1>5 DEF KeyArrives
  <2>2. Append(typed, k) \in Seq(Keys)
    BY AppendProperties
  <2> QED
    BY <1>5, <2>1, <2>2 DEF KeyArrives, Give, RGoto, Codes, ctrlVars, textVars, pipeVars
<1>6. CASE ReadChar \/ Replay
  <2>1. Keyboard_Buffer # <<>> =>
            Head(Keyboard_Buffer) = ETX /\ Tail(Keyboard_Buffer) \in Seq({ETX})
    BY HeadTailProperties
  <2>2. CASE ReadChar
    BY <2>1, <2>2 DEF ReadChar, Give, RGoto, Codes, ctrlVars, textVars, pipeVars
  <2>3. CASE Replay
    BY <2>1, <2>3 DEF Replay, Give, RGoto, Codes, ctrlVars, textVars, pipeVars
  <2> QED
    BY <1>6, <2>2, <2>3
<1>7. CASE ReadFile
  BY <1>7 DEF ReadFile, RGoto, ctrlVars, textVars, pipeVars
<1>8. CASE FileAtEnd
  BY <1>8 DEF FileAtEnd, Give, RGoto, Codes, ctrlVars, textVars, pipeVars
<1>9. CASE FileEnds
  BY <1>9 DEF FileEnds, RGoto, ctrlVars, textVars, pipeVars
<1>10. CASE FileFailed
  BY <1>10 DEF FileFailed, RGoto, ctrlVars, textVars, pipeVars
<1>11. CASE EditCode
  <2>1. /\ line' \in Seq(Codes) /\ lines' \in Filtered(Letters)
        /\ rpc' \in {"program", "ask"} /\ code' = code /\ non_zero' = non_zero
    BY <1>11, EditType DEF EditCode
  <2>2. Append(given, code) \in Seq(Codes)
    BY AppendProperties
  <2> QED
    BY <1>11, <2>1, <2>2 DEF EditCode, ctrlVars
<1>12. CASE ReadCall
  BY <1>12, EmptySeq DEF ReadCall, RGoto, ctrlVars, pipeVars
<1>13. CASE PipeRead
  BY <1>13 DEF PipeRead, ctrlVars, readVars, textVars
<1> QED
  BY <1>1, <1>2, <1>3, <1>4, <1>5, <1>6, <1>7, <1>8, <1>9, <1>10, <1>11, <1>12, <1>13
     DEF Next, ReaderStep

(* Each variable has the values that the code can give it. *)
THEOREM ConsoleTypes == Spec => []CType
<1>1. CType /\ [Next]_vars => CType'
  BY CTypeStep
<1> QED
  BY <1>1, CTypeInit, PTL DEF Spec

(* What Read_Char has given and the editor not taken yet. *)
Pending == IF rpc = "code" /\ non_zero THEN <<code>> ELSE <<>>

(* One code that is given. *)
LEMMA GiveOne ==
    ASSUME NEW u \in Seq(Codes), NEW c \in Codes
    PROVE  /\ Append(u, c) = u \o <<c>> /\ Append(u, c) \in Seq(Codes) /\ u \o <<>> = u
           /\ Without(u \o <<c>>, {ETX, NUL})
                = IF c \in {ETX, NUL} THEN Without(u, {ETX, NUL})
                  ELSE Append(Without(u, {ETX, NUL}), c)
           /\ Times(u \o <<c>>, ETX) = Times(u, ETX) + (IF c = ETX THEN 1 ELSE 0)
           /\ Times(u, ETX) \in Nat
<1>1. Append(u, c) = u \o <<c>> /\ Append(u, c) \in Seq(Codes) /\ u \o <<>> = u
  BY AppendIsConcat, AppendProperties, ConcatEmptySeq
<1>2. Without(Append(u, c), {ETX, NUL})
          = IF c \in {ETX, NUL} THEN Without(u, {ETX, NUL})
            ELSE Append(Without(u, {ETX, NUL}), c)
  BY WithoutAppend
<1>3. Times(Append(u, c), ETX) = Times(u, ETX) + (IF c = ETX THEN 1 ELSE 0)
  BY TimesAppend
<1>4. Times(u, ETX) \in Nat
  BY TimesType
<1> QED
  BY <1>1, <1>2, <1>3, <1>4

LEMMA InputKeptInit == Init => InputKept
<1> SUFFICES ASSUME Init PROVE InputKept
  OBVIOUS
<1>1. <<>> \in Seq({}) /\ <<>> \o <<>> = <<>> /\ Len(<<>>) = 0
  BY EmptySeq, ConcatEmptySeq
<1>2. Times(<<>>, ETX) = 0 /\ \A drop : Without(<<>>, drop) = <<>>
  BY <1>1, TimesType, RunsEmpty
<1> QED
  BY <1>1, <1>2 DEF Init, InputKept

(* A step that does not move a code. *)
LEMMA InputStays ==
    ASSUME CType, InputKept, Pending' = Pending, given' = given, typed' = typed,
           Keyboard_Buffer' = Keyboard_Buffer, accepted' = accepted
    PROVE  InputKept'
BY DEF InputKept, Pending

(* Read_Char gives the ETX at the head of the queue. *)
LEMMA EtxGiven ==
    ASSUME CType, InputKept, rpc # "code", Keyboard_Buffer # <<>>,
           Give(Head(Keyboard_Buffer), TRUE), Keyboard_Buffer' = Tail(Keyboard_Buffer),
           given' = given, typed' = typed, accepted' = accepted
    PROVE  InputKept'
<1>1. /\ Head(Keyboard_Buffer) = ETX
      /\ Len(Tail(Keyboard_Buffer)) = Len(Keyboard_Buffer) - 1 /\ Len(Keyboard_Buffer) \in Nat
  BY HeadTailProperties, LenProperties DEF CType
<1>2. Pending = <<>> /\ Pending' = <<ETX>>
  BY <1>1 DEF Give, RGoto, Pending
<1>3. ETX \in Codes /\ given \in Seq(Codes) /\ accepted \in Nat
  BY DEF Codes, CType
<1>4. /\ Without(given \o <<>>, {ETX, NUL}) = Without(typed, {NUL})
      /\ Times(given \o <<>>, ETX) + Len(Keyboard_Buffer) = accepted
  BY <1>2 DEF InputKept, Pending
<1>5. /\ given \o <<>> = given /\ Times(given, ETX) \in Nat
      /\ Without(given \o <<ETX>>, {ETX, NUL}) = Without(given, {ETX, NUL})
      /\ Times(given \o <<ETX>>, ETX) = Times(given, ETX) + 1
  BY <1>3, GiveOne
<1>6. /\ Without(given' \o Pending', {ETX, NUL}) = Without(typed', {NUL})
      /\ Times(given' \o Pending', ETX) + Len(Keyboard_Buffer') = accepted'
  BY <1>1, <1>2, <1>3, <1>4, <1>5
<1> QED
  BY <1>6 DEF InputKept, Pending

LEMMA InputKeptStep ==
    ASSUME CType, InputKept, [Next]_vars PROVE InputKept'
<1>1. /\ given \in Seq(Codes) /\ typed \in Seq(Keys) /\ accepted \in Nat
      /\ Keyboard_Buffer \in Seq({ETX}) /\ code \in Codes
      /\ Len(Keyboard_Buffer) \in Nat
  BY LenProperties DEF CType
<1>2. ASSUME UNCHANGED vars PROVE InputKept'
  BY <1>2, InputStays DEF vars, ctrlVars, readVars, textVars, Pending
<1>3. CASE CtrlC
  BY <1>3, InputStays DEF CtrlC, readVars, textVars, Pending
<1>4. CASE Push
  <2>1. /\ Pending' = Pending /\ given' = given /\ typed' = typed /\ accepted' = accepted + 1
        /\ Keyboard_Buffer' = Append(Keyboard_Buffer, ETX)
    BY <1>4 DEF Push, readVars, textVars, Pending
  <2>2. Len(Keyboard_Buffer') = Len(Keyboard_Buffer) + 1
    BY <1>1, <2>1, AppendProperties
  <2>3. given \o Pending \in Seq(Codes)
    <3>1. <<>> \in Seq(Codes) /\ <<code>> \in Seq(Codes)
      BY <1>1, EmptySeq
    <3> QED
      BY <1>1, <3>1, ConcatProperties DEF Pending
  <2>4. Times(given \o Pending, ETX) \in Nat
    BY <2>3, TimesType
  <2> QED
    BY <1>1, <2>1, <2>2, <2>4 DEF InputKept, Pending
<1>5. CASE Cancel
  BY <1>5, InputStays DEF Cancel, RGoto, textVars, pipeVars, Pending
<1>6. CASE KeyArrives
  <2>1. PICK k \in Keys : typed' = Append(typed, k) /\ Give(k, TRUE)
    BY <1>6 DEF KeyArrives
  <2>2. /\ Pending = <<>> /\ Pending' = <<k>> /\ given' = given /\ accepted' = accepted
        /\ Keyboard_Buffer' = Keyboard_Buffer
    BY <1>6, <2>1 DEF KeyArrives, Give, RGoto, ctrlVars, textVars, Pending
  <2>3. k \in Codes /\ k # ETX
    BY ConsoleAssumption DEF Codes
  <2>4. /\ Without(given \o <<>>, {ETX, NUL}) = Without(typed, {NUL})
        /\ Times(given \o <<>>, ETX) + Len(Keyboard_Buffer) = accepted
    BY <2>2 DEF InputKept, Pending
  <2>5. /\ given \o <<>> = given /\ Times(given, ETX) \in Nat
        /\ Without(given \o <<k>>, {ETX, NUL})
             = IF k = NUL THEN Without(given, {ETX, NUL})
               ELSE Append(Without(given, {ETX, NUL}), k)
        /\ Times(given \o <<k>>, ETX) = Times(given, ETX)
    <3>1. /\ given \o <<>> = given /\ Times(given, ETX) \in Nat
          /\ Without(given \o <<k>>, {ETX, NUL})
               = IF k \in {ETX, NUL} THEN Without(given, {ETX, NUL})
                 ELSE Append(Without(given, {ETX, NUL}), k)
          /\ Times(given \o <<k>>, ETX)
               = Times(given, ETX) + (IF k = ETX THEN 1 ELSE 0)
      BY <1>1, <2>3, GiveOne
    <3> QED
      BY <2>3, <3>1
  <2>6. Without(Append(typed, k), {NUL})
            = IF k = NUL THEN Without(typed, {NUL}) ELSE Append(Without(typed, {NUL}), k)
    BY <1>1, WithoutAppend
  <2>7. /\ Without(given' \o Pending', {ETX, NUL}) = Without(typed', {NUL})
        /\ Times(given' \o Pending', ETX) + Len(Keyboard_Buffer') = accepted'
    BY <2>1, <2>2, <2>4, <2>5, <2>6
  <2> QED
    BY <2>7 DEF InputKept, Pending
<1>7. CASE ReadChar
  <2>1. CASE Keyboard_Buffer # <<>>
    BY <1>7, <2>1, EtxGiven DEF ReadChar, ctrlVars, textVars
  <2>2. CASE Keyboard_Buffer = <<>>
    BY <1>7, <2>2, InputStays DEF ReadChar, RGoto, ctrlVars, textVars, Pending
  <2> QED
    BY <2>1, <2>2
<1>8. CASE Replay
  <2>1. CASE Keyboard_Buffer # <<>>
    BY <1>8, <2>1, EtxGiven DEF Replay, ctrlVars, textVars
  <2>2. CASE Keyboard_Buffer = <<>>
    BY <1>8, <2>2, InputStays DEF Replay, Give, RGoto, ctrlVars, textVars, Pending
  <2> QED
    BY <2>1, <2>2
<1>9. CASE ReadFile \/ FileEnds \/ FileFailed \/ ReadCall \/ PipeRead
  BY <1>9, InputStays DEF ReadFile, FileEnds, FileFailed, ReadCall, PipeRead, RGoto,
     ctrlVars, readVars, textVars, pipeVars, Pending
<1>10. CASE FileAtEnd
  <2>1. /\ Pending = <<>> /\ Pending' = <<NUL>> /\ given' = given /\ accepted' = accepted
        /\ Keyboard_Buffer' = Keyboard_Buffer /\ typed' = typed
    BY <1>10 DEF FileAtEnd, Give, RGoto, ctrlVars, textVars, Pending
  <2>2. NUL \in Codes /\ NUL # ETX
    BY ConsoleAssumption DEF Codes
  <2>3. /\ Without(given \o <<>>, {ETX, NUL}) = Without(typed, {NUL})
        /\ Times(given \o <<>>, ETX) + Len(Keyboard_Buffer) = accepted
    BY <2>1 DEF InputKept, Pending
  <2>4. /\ given \o <<>> = given /\ Times(given, ETX) \in Nat
        /\ Without(given \o <<NUL>>, {ETX, NUL}) = Without(given, {ETX, NUL})
        /\ Times(given \o <<NUL>>, ETX) = Times(given, ETX)
    <3>1. /\ given \o <<>> = given /\ Times(given, ETX) \in Nat
          /\ Without(given \o <<NUL>>, {ETX, NUL})
               = IF NUL \in {ETX, NUL} THEN Without(given, {ETX, NUL})
                 ELSE Append(Without(given, {ETX, NUL}), NUL)
          /\ Times(given \o <<NUL>>, ETX)
               = Times(given, ETX) + (IF NUL = ETX THEN 1 ELSE 0)
      BY <1>1, <2>2, GiveOne
    <3> QED
      BY <2>2, <3>1
  <2>5. /\ Without(given' \o Pending', {ETX, NUL}) = Without(typed', {NUL})
        /\ Times(given' \o Pending', ETX) + Len(Keyboard_Buffer') = accepted'
    BY <2>1, <2>3, <2>4
  <2> QED
    BY <2>5 DEF InputKept, Pending
<1>11. CASE EditCode
  <2>1. /\ Pending' = <<>> /\ typed' = typed /\ accepted' = accepted
        /\ Keyboard_Buffer' = Keyboard_Buffer
    BY <1>11, EditType DEF EditCode, ctrlVars, Pending
  <2>2. given' \in Seq(Codes) /\ given' = given \o Pending
    <3>1. Append(given, code) = given \o <<code>> /\ Append(given, code) \in Seq(Codes)
          /\ given \o <<>> = given
      BY <1>1, GiveOne
    <3> QED
      BY <1>1, <1>11, <3>1 DEF EditCode, Pending
  <2>3. given' \o <<>> = given'
    BY <2>2, ConcatEmptySeq
  <2>4. /\ Without(given' \o Pending', {ETX, NUL}) = Without(typed', {NUL})
        /\ Times(given' \o Pending', ETX) + Len(Keyboard_Buffer') = accepted'
    BY <2>1, <2>2, <2>3 DEF InputKept, Pending
  <2> QED
    BY <2>4 DEF InputKept, Pending
<1> QED
  BY <1>2, <1>3, <1>4, <1>5, <1>6, <1>7, <1>8, <1>9, <1>10, <1>11 DEF Next, ReaderStep

(* However presses of Ctrl+C interleave with the reads of the host, no key *)
(* and no accepted press is lost, doubled or overtaken.                    *)
THEOREM InputKeptHolds == Spec => []InputKept
<1>1. CType /\ InputKept /\ [Next]_vars => (CType /\ InputKept)'
  BY CTypeStep, InputKeptStep
<1> QED
  BY <1>1, CTypeInit, InputKeptInit, PTL DEF Spec
-----------------------------------------------------------------------------
(* An end that the editor is told, or will be, has a press of its own.     *)
EndComes == rpc \in {"failed", "replay"} \/ (rpc = "code" /\ ~non_zero)

Owed == (IF EndComes THEN 1 ELSE 0) + (IF kpc = "cancel" THEN 1 ELSE 0)

EndsInv == host # "pipe" => ends + Owed <= accepted

LEMMA EndsInvStep ==
    ASSUME CType, EndsInv, [Next]_vars PROVE EndsInv'
<1>1. SUFFICES ASSUME host' # "pipe" PROVE ends' + Owed' <= accepted'
  BY DEF EndsInv
<1>2. host' = host
  BY DEF Next, ReaderStep, CtrlC, Push, Cancel, KeyArrives, ReadChar, ReadFile, FileAtEnd,
     FileEnds, FileFailed, Replay, EditCode, ReadCall, PipeRead, vars
<1>3. ends + Owed <= accepted /\ ends \in Nat /\ accepted \in Nat
  BY <1>1, <1>2 DEF EndsInv, CType
<1>4. CASE UNCHANGED vars
  BY <1>3, <1>4 DEF vars, ctrlVars, readVars, textVars, Owed, EndComes
<1>5. CASE CtrlC
  BY <1>3, <1>5 DEF CtrlC, readVars, textVars, Owed, EndComes
<1>6. CASE Push
  BY <1>3, <1>6 DEF Push, readVars, textVars, Owed, EndComes
<1>7. CASE Cancel
  BY <1>3, <1>7 DEF Cancel, RGoto, textVars, Owed, EndComes
<1>8. CASE KeyArrives
  BY <1>3, <1>8 DEF KeyArrives, Give, RGoto, ctrlVars, textVars, Owed, EndComes
<1>9. CASE ReadChar
  BY <1>3, <1>9 DEF ReadChar, Give, RGoto, ctrlVars, textVars, Owed, EndComes
<1>10. CASE ReadFile
  BY <1>3, <1>10 DEF ReadFile, RGoto, ctrlVars, textVars, Owed, EndComes
<1>11. CASE FileAtEnd
  BY <1>3, <1>11 DEF FileAtEnd, Give, RGoto, ctrlVars, textVars, Owed, EndComes
<1>12. CASE FileEnds
  BY <1>1, <1>2, <1>12 DEF FileEnds
<1>13. CASE FileFailed
  BY <1>3, <1>13 DEF FileFailed, RGoto, ctrlVars, textVars, Owed, EndComes
<1>14. CASE Replay
  <2>1. rpc = "replay" /\ ends' = ends /\ kpc' = kpc /\ accepted' = accepted
    BY <1>14 DEF Replay, ctrlVars, textVars
  <2>2. EndComes
    BY <2>1 DEF EndComes
  <2> QED
    BY <1>3, <2>1, <2>2 DEF Owed
<1>15. CASE EditCode
  <2>1. rpc' \in {"program", "ask"} /\ non_zero' = non_zero /\ kpc' = kpc
        /\ accepted' = accepted
    BY <1>15, EditType DEF EditCode, ctrlVars
  <2>2. ends' = IF non_zero THEN ends ELSE ends + 1
    BY <1>15 DEF EditCode
  <2>3. rpc = "code"
    BY <1>15 DEF EditCode
  <2> QED
    BY <1>3, <2>1, <2>2, <2>3 DEF Owed, EndComes
<1>16. CASE ReadCall
  BY <1>3, <1>16 DEF ReadCall, RGoto, ctrlVars, Owed, EndComes
<1>17. CASE PipeRead
  BY <1>3, <1>17 DEF PipeRead, ctrlVars, readVars, textVars, Owed, EndComes
<1> QED
  BY <1>4, <1>5, <1>6, <1>7, <1>8, <1>9, <1>10, <1>11, <1>12, <1>13, <1>14, <1>15, <1>16,
     <1>17 DEF Next, ReaderStep

(* The editor is told that the input ended no more often than there were   *)
(* accepted presses, unless the input is a pipe that has ended.            *)
THEOREM EndsAreCausedHolds == Spec => []EndsAreCaused
<1>1. Init => EndsInv
  BY DEF Init, EndsInv, Owed, EndComes
<1>2. CType /\ EndsInv /\ [Next]_vars => (CType /\ EndsInv)'
  BY CTypeStep, EndsInvStep
<1>3. CType /\ EndsInv => EndsAreCaused
  BY DEF CType, EndsInv, EndsAreCaused, Owed
<1> QED
  BY <1>1, <1>2, <1>3, CTypeInit, PTL DEF Spec
-----------------------------------------------------------------------------
(* A number below w is its own remainder after any multiple of w. *)
LEMMA Multiple ==
    ASSUME NEW w \in Nat \ {0}, NEW q \in Nat, NEW r \in 0 .. w - 1
    PROVE  (w * q + r) % w = r
<1> DEFINE x == w * q + r
           p == x \div w
           rest == x % w
<1>1. x \in Nat /\ w * q \in Nat
  OBVIOUS
<1>2. x = w * p + rest /\ rest \in 0 .. w - 1 /\ p \in Int
  <2> HIDE DEF x
  <2> QED BY <1>1, Z3
<1>3. w * q + r = w * p + rest
  BY <1>2
<1> HIDE DEF x, p, rest
<1>4. ~(p <= q - 1)
  <2> SUFFICES ASSUME p <= q - 1 PROVE FALSE
    OBVIOUS
  <2>1. w * (q - 1 - p) >= 0
    BY <1>2
  <2>2. w * (q - 1 - p) = w * q - w - w * p
    BY <1>2
  <2>3. w * p \in Int /\ w * q \in Int
    BY <1>2
  <2> QED BY <1>2, <1>3, <2>1, <2>2, <2>3
<1>5. ~(q <= p - 1)
  <2> SUFFICES ASSUME q <= p - 1 PROVE FALSE
    OBVIOUS
  <2>1. w * (p - 1 - q) >= 0
    BY <1>2
  <2>2. w * (p - 1 - q) = w * p - w - w * q
    BY <1>2
  <2>3. w * p \in Int /\ w * q \in Int
    BY <1>2
  <2> QED BY <1>2, <1>3, <2>1, <2>2, <2>3
<1>6. p = q
  BY <1>2, <1>4, <1>5
<1>7. rest = r
  BY <1>2, <1>3, <1>6
<1> QED
  BY <1>7 DEF rest, x

(* Counting begins at nought. *)
LEMMA ModZero == \A w \in Nat \ {0} : (0 + 0) % w = 0 /\ 0 % w = 0
<1> SUFFICES ASSUME NEW w \in Nat \ {0} PROVE 0 % w = 0
  OBVIOUS
<1> QED
  BY w * 0 + 0 = 0, 0 \in 0 .. w - 1, Multiple

(* A sum may be reduced on the way. *)
LEMMA ModPlus ==
    ASSUME NEW w \in Nat \ {0}, NEW x \in Nat, NEW y \in Nat
    PROVE  ((x % w) + y) % w = (x + y) % w
<1> DEFINE q == x \div w
           r == x % w
           z == r + y
           p == z \div w
           rest == z % w
<1>1. x = w * q + r /\ r \in 0 .. w - 1 /\ q \in Nat
  BY Z3
<1> HIDE DEF q, r
<1>2. z \in Nat
  BY <1>1
<1> HIDE DEF z
<1>3. z = w * p + rest /\ rest \in 0 .. w - 1 /\ p \in Nat
  BY <1>2, Z3
<1> HIDE DEF p, rest
<1>4. x + y = w * q + w * p + rest
  <2>1. w * q \in Nat /\ w * p \in Nat
    BY <1>1, <1>3
  <2> QED BY <1>1, <1>3, <2>1 DEF z
<1>5. w * q + w * p = w * (q + p) /\ q + p \in Nat
  BY <1>1, <1>3
<1>6. (w * (q + p) + rest) % w = rest
  BY <1>3, <1>5, Multiple
<1> QED
  BY <1>4, <1>5, <1>6 DEF rest, z, r

(* What the second program makes of the text. *)

Counts(u) ==
    /\ n = (Times(u, LF) + cuts) % LineCounts
    /\ DOMAIN chars = Keys \cup {LF}
    /\ \A c \in Keys \cup {LF} : chars[c] = Times(u, c) % CharCounts

(* The text goes on: what is left of it, once there is any, has its end at *)
(* its end.                                                                *)
Open ==
    /\ text \in Seq(Letters) /\ ~t.done /\ ~s.done
    /\ Written(t) = text /\ Kept(s) = Without(text, {LF}) /\ Counts(text)
    /\ IF lines.done THEN \E rest \in Seq(Letters) : left = Append(rest, EOT)
       ELSE left = <<>>

(* The text has been read to its end. *)
Closed ==
    /\ lines.done /\ left = <<>> /\ t.done /\ s.done
    /\ \E body \in Seq(Letters) :
          /\ text = Append(body, EOT) /\ Written(t) = Append(body, LF)
          /\ Kept(s) = Without(body, {LF}) /\ Counts(body)

CutInv ==
    /\ t \in Filtered(Letters) /\ s \in Filtered(Letters) /\ cuts \in Nat
    /\ Open \/ Closed

LEMMA CutInvInit == Init => CutInv
<1> SUFFICES ASSUME Init PROVE CutInv
  OBVIOUS
<1>1. <<>> \in Seq(Letters) /\ Without(<<>>, {LF}) = <<>>
  BY EmptySeq, RunsEmpty
<1>2. \A c : Times(<<>>, c) = 0
  BY <1>1, TimesType
<1>3. /\ t = Begin /\ s = Begin /\ lines = Begin /\ left = <<>> /\ text = <<>> /\ cuts = 0
      /\ n = 0 /\ chars = [c \in Keys \cup {LF} |-> 0]
  BY DEF Init
<1>4. Counts(text)
  <2>1. (0 + 0) % LineCounts = 0 /\ 0 % CharCounts = 0
    BY FiltersAssumption, ModZero
  <2> QED
    BY <1>2, <1>3, <2>1 DEF Counts
<1>5. Open
  BY <1>1, <1>3, <1>4, BeginFacts DEF Open
<1> QED
  BY <1>3, <1>5, BeginFacts DEF CutInv

(* A step that leaves the two programs alone. *)
LEMMA CutStays ==
    ASSUME CutInv, UNCHANGED pipeVars, lines' = lines
    PROVE  CutInv'
BY DEF CutInv, Open, Closed, Counts, pipeVars

LEMMA CutEdit ==
    ASSUME CType, CutInv, EditCode PROVE CutInv'
<1>1. /\ UNCHANGED <<text, cuts, t, s, n, chars>> /\ lines' \in Filtered(Letters)
  BY EditType DEF EditCode
<1>2. CASE lines' = lines /\ left' = left
  BY <1>1, <1>2, CutStays DEF pipeVars
<1>3. CASE Return /\ ~lines.done
  <2>1. left' = IF lines'.done THEN Append(Output(lines'), EOT) ELSE left
    BY <1>3 DEF Return
  <2>2. Output(lines') \in Seq(Letters)
    BY <1>1, LinedType DEF Output, OutText, Lined, Filtered
  <2>3. Open
    BY <1>3 DEF CutInv, Closed
  <2>4. Open'
    BY <1>1, <1>3, <2>1, <2>2, <2>3 DEF Open, Counts
  <2> QED
    BY <1>1, <2>4 DEF CutInv
<1> QED
  BY <1>2, <1>3 DEF EditCode, Edit, Store, Stay, Return

(* A cut through what is left. *)
LEMMA Piece ==
    ASSUME NEW rest \in Seq(Letters), NEW k \in 1 .. Len(rest) + 1
    PROVE  LET u == Append(rest, EOT)
               v == SubSeq(u, 1, k)
               w == SubSeq(u, k + 1, Len(u)) IN
           \/ v \in Seq(Letters) /\ \E after \in Seq(Letters) : w = Append(after, EOT)
           \/ v = u /\ w = <<>>
<1> DEFINE u == Append(rest, EOT)
           m == Len(rest)
           X == Letters \cup {EOT}
<1>1. rest \in Seq(X) /\ EOT \in X
  BY SeqMonotonic
<1>2. /\ m \in Nat /\ Len(u) = m + 1 /\ u[m + 1] = EOT /\ u \in Seq(X)
      /\ \A i \in 1 .. m : u[i] \in Letters
  BY <1>1, LenProperties, AppendProperties, ElementOfSeq
<1>3. k \in 1 .. m + 1
  OBVIOUS
<1> HIDE DEF u, m
<1>4. CASE k = m + 1
  <2>1. SubSeq(u, 1, k) = u
    BY <1>2, <1>4, SubSeqFull
  <2>2. SubSeq(u, k + 1, Len(u)) = <<>>
    BY <1>2, <1>4, SubSeqEmpty
  <2> QED
    BY <2>1, <2>2 DEF u
<1>5. CASE k \in 1 .. m
  <2>1. 1 \in Int /\ k \in Int /\ \A i \in 1 .. k : u[i] \in Letters
    BY <1>2, <1>5
  <2>2. SubSeq(u, 1, k) \in Seq(Letters)
    BY <2>1, SubSeqProperties
  <2>3. k + 1 \in Int /\ m \in Int /\ \A i \in k + 1 .. m : u[i] \in Letters
    BY <1>2, <1>5
  <2>4. SubSeq(u, k + 1, m) \in Seq(Letters)
    BY <2>3, SubSeqProperties
  <2>5. SubSeq(u, k + 1, m + 1) = SubSeq(u, k + 1, m) \o <<u[m + 1]>>
    <3>1. k + 1 \in 1 .. Len(u) /\ m + 1 \in k + 1 .. Len(u) /\ (m + 1) - 1 = m
      BY <1>2, <1>5
    <3> QED
      BY <1>2, <3>1, SubSeqRecursiveSecond
  <2>6. SubSeq(u, k + 1, m + 1) = Append(SubSeq(u, k + 1, m), EOT)
    <3> DEFINE a == SubSeq(u, k + 1, m)
    <3>1. a \in Seq(X)
      BY <2>4, SeqMonotonic
    <3> HIDE DEF a
    <3>2. Append(a, EOT) = a \o <<EOT>>
      BY <1>1, <3>1, AppendIsConcat
    <3> QED
      BY <1>2, <2>5, <3>2 DEF a
  <2> QED
    BY <1>2, <2>2, <2>4, <2>6 DEF u
<1>6. k = m + 1 \/ k \in 1 .. m
  BY <1>2, <1>3
<1> QED
  BY <1>4, <1>5, <1>6 DEF u

(* A read in the middle of the text. *)
LEMMA ReadMiddle ==
    ASSUME CutInv, Open, lines.done, NEW u \in Seq(Letters),
           text' = text \o u, cuts' = cuts + 1, t' = type(t, u), s' = sort(s, u),
           n' = find(n, u), chars' = freq(chars, u), lines' = lines,
           \E after \in Seq(Letters) : left' = Append(after, EOT)
    PROVE  CutInv'
<1>1. /\ t \in Filtered(Letters) /\ s \in Filtered(Letters) /\ ~t.done /\ ~s.done
      /\ text \in Seq(Letters) /\ cuts \in Nat
  BY DEF CutInv, Open
<1>2. text' \in Seq(Letters)
  BY <1>1, Joined
<1>3. /\ t' \in Filtered(Letters) /\ ~t'.done /\ Written(t)' = Written(t) \o u
  BY <1>1, TypeLetters
<1>4. s' \in Filtered(Letters) /\ ~s'.done /\ Kept(s)' = Kept(s) \o Without(u, {LF})
  <2> DEFINE q == [s EXCEPT !.lines = Append(@, s.line), !.line = <<>>]
  <2>1. s' = type(q, u)
    BY DEF sort
  <2>2. q \in Filtered(Letters) /\ ~q.done /\ Kept(q) = Kept(s)
    BY <1>1, SortBegins
  <2> HIDE DEF q
  <2> QED
    BY <2>1, <2>2, TypeLetters
<1>5. Without(text \o u, {LF}) = Without(text, {LF}) \o Without(u, {LF})
  <2>1. \A drop : Without(text \o u, drop) = Without(text, drop) \o Without(u, drop)
    BY <1>1, WithoutConcat
  <2> QED
    BY <2>1
<1>6. ASSUME NEW c
      PROVE  /\ Times(text \o u, c) = Times(text, c) + Times(u, c)
             /\ Times(text, c) \in Nat /\ Times(u, c) \in Nat
  BY <1>1, TimesConcat, TimesType
<1>7. Counts(text)'
  <2>1. Before(u) = u
    BY BeforeLetters
  <2>2. /\ n' = (n + 1 + Times(u, LF)) % LineCounts
        /\ n = (Times(text, LF) + cuts) % LineCounts
    BY <2>1 DEF find, Open, Counts
  <2>3. /\ chars' = [c \in DOMAIN chars |-> (chars[c] + Times(u, c)) % CharCounts]
        /\ DOMAIN chars = Keys \cup {LF}
        /\ \A c \in Keys \cup {LF} : chars[c] = Times(text, c) % CharCounts
    BY <2>1 DEF freq, Open, Counts
  <2>4. n' = (Times(text', LF) + cuts') % LineCounts
    <3> DEFINE a == Times(text, LF)
               b == Times(u, LF)
    <3>1. Times(text \o u, LF) = a + b /\ a \in Nat /\ b \in Nat
      BY <1>6
    <3>2. /\ n' = (n + 1 + b) % LineCounts /\ n = (a + cuts) % LineCounts
          /\ cuts \in Nat /\ cuts' = cuts + 1
      BY <1>1, <2>2
    <3> HIDE DEF a, b
    <3>3. n \in Int /\ n + 1 + b = n + (1 + b)
      BY <3>1, <3>2, FiltersAssumption
    <3>6. a + cuts \in Nat /\ 1 + b \in Nat
      BY <3>1, <3>2
    <3>7. (((a + cuts) % LineCounts) + (1 + b)) % LineCounts
            = ((a + cuts) + (1 + b)) % LineCounts
      BY <3>6, FiltersAssumption, ModPlus
    <3>4. n' = ((a + cuts) + (1 + b)) % LineCounts
      <4>1. n' = (n + (1 + b)) % LineCounts
        BY <3>2, <3>3
      <4> QED
        BY <3>2, <3>7, <4>1
    <3>5. (a + cuts) + (1 + b) = (a + b) + cuts'
      BY <3>1, <3>2
    <3> QED
      BY <3>1, <3>4, <3>5
  <2>5. DOMAIN chars' = Keys \cup {LF}
        /\ \A c \in Keys \cup {LF} : chars'[c] = Times(text', c) % CharCounts
    <3> SUFFICES ASSUME NEW c \in Keys \cup {LF}
                 PROVE  chars'[c] = Times(text \o u, c) % CharCounts
      BY <2>3
    <3>1. chars'[c] = ((Times(text, c) % CharCounts) + Times(u, c)) % CharCounts
      BY <2>3
    <3>2. Times(text, c) \in Nat /\ Times(u, c) \in Nat
      BY <1>6
    <3>3. chars'[c] = (Times(text, c) + Times(u, c)) % CharCounts
      BY <3>1, <3>2, FiltersAssumption, ModPlus
    <3> QED
      BY <1>6, <3>3
  <2> QED
    BY <2>4, <2>5 DEF Counts
<1>8. Open'
  <2>1. Written(t) = text /\ Kept(s) = Without(text, {LF})
    BY DEF Open
  <2> QED
    BY <1>2, <1>3, <1>4, <1>5, <1>7, <2>1 DEF Open
<1> QED
  BY <1>1, <1>3, <1>4, <1>8 DEF CutInv

(* The read that gets the end of the text. *)
LEMMA ReadEnd ==
    ASSUME CutInv, Open, lines.done, NEW u \in Seq(Letters),
           text' = text \o Append(u, EOT), cuts' = cuts + 1, t' = type(t, Append(u, EOT)),
           s' = sort(s, Append(u, EOT)), n' = find(n, Append(u, EOT)),
           chars' = freq(chars, Append(u, EOT)), lines' = lines, left' = <<>>
    PROVE  CutInv'
<1>0. EOT \in Stops
  BY DEF Stops
<1>1. /\ t \in Filtered(Letters) /\ s \in Filtered(Letters) /\ ~t.done /\ ~s.done
      /\ text \in Seq(Letters) /\ cuts \in Nat
  BY DEF CutInv, Open
<1> DEFINE body == text \o u
<1>2. body \in Seq(Letters)
  BY <1>1, Joined
<1>3. text' = Append(body, EOT)
  <2> DEFINE X == Letters \cup {EOT}
  <2>1. text \in Seq(X) /\ u \in Seq(X) /\ EOT \in X
    BY <1>1, SeqMonotonic
  <2> QED
    BY <2>1, AppendConcat
<1>4. t' \in Filtered(Letters) /\ t'.done /\ Written(t)' = Append(Written(t) \o u, LF)
  BY <1>0, <1>1, TypeEnded
<1>5. s' \in Filtered(Letters) /\ s'.done /\ Kept(s)' = Kept(s) \o Without(u, {LF})
  <2> DEFINE q == [s EXCEPT !.lines = Append(@, s.line), !.line = <<>>]
  <2>1. s' = type(q, Append(u, EOT))
    BY DEF sort
  <2>2. q \in Filtered(Letters) /\ ~q.done /\ Kept(q) = Kept(s)
    BY <1>1, SortBegins
  <2> HIDE DEF q
  <2> QED
    BY <1>0, <2>1, <2>2, TypeEnded
<1>6. Without(text \o u, {LF}) = Without(text, {LF}) \o Without(u, {LF})
  <2>1. \A drop : Without(text \o u, drop) = Without(text, drop) \o Without(u, drop)
    BY <1>1, WithoutConcat
  <2> QED
    BY <2>1
<1>7. ASSUME NEW c
      PROVE  /\ Times(text \o u, c) = Times(text, c) + Times(u, c)
             /\ Times(text, c) \in Nat /\ Times(u, c) \in Nat
  BY <1>1, TimesConcat, TimesType
<1>8. /\ n' = (Times(body, LF) + cuts') % LineCounts
      /\ DOMAIN chars' = Keys \cup {LF}
      /\ \A c \in Keys \cup {LF} : chars'[c] = Times(body, c) % CharCounts
  <2>1. Before(Append(u, EOT)) = u
    BY <1>0, BeforeEnded
  <2>2. /\ n' = (n + 1 + Times(u, LF)) % LineCounts
        /\ n = (Times(text, LF) + cuts) % LineCounts
    BY <2>1 DEF find, Open, Counts
  <2>3. /\ chars' = [c \in DOMAIN chars |-> (chars[c] + Times(u, c)) % CharCounts]
        /\ DOMAIN chars = Keys \cup {LF}
        /\ \A c \in Keys \cup {LF} : chars[c] = Times(text, c) % CharCounts
    BY <2>1 DEF freq, Open, Counts
  <2>4. n' = (Times(text \o u, LF) + cuts') % LineCounts
    <3> DEFINE a == Times(text, LF)
               b == Times(u, LF)
    <3>1. Times(text \o u, LF) = a + b /\ a \in Nat /\ b \in Nat
      BY <1>7
    <3>2. /\ n' = (n + 1 + b) % LineCounts /\ n = (a + cuts) % LineCounts
          /\ cuts \in Nat /\ cuts' = cuts + 1
      BY <1>1, <2>2
    <3> HIDE DEF a, b
    <3>3. n \in Int /\ n + 1 + b = n + (1 + b)
      BY <3>1, <3>2, FiltersAssumption
    <3>6. a + cuts \in Nat /\ 1 + b \in Nat
      BY <3>1, <3>2
    <3>7. (((a + cuts) % LineCounts) + (1 + b)) % LineCounts
            = ((a + cuts) + (1 + b)) % LineCounts
      BY <3>6, FiltersAssumption, ModPlus
    <3>4. n' = ((a + cuts) + (1 + b)) % LineCounts
      <4>1. n' = (n + (1 + b)) % LineCounts
        BY <3>2, <3>3
      <4> QED
        BY <3>2, <3>7, <4>1
    <3>5. (a + cuts) + (1 + b) = (a + b) + cuts'
      BY <3>1, <3>2
    <3> QED
      BY <3>1, <3>4, <3>5
  <2>5. DOMAIN chars' = Keys \cup {LF}
        /\ \A c \in Keys \cup {LF} : chars'[c] = Times(text \o u, c) % CharCounts
    <3> SUFFICES ASSUME NEW c \in Keys \cup {LF}
                 PROVE  chars'[c] = Times(text \o u, c) % CharCounts
      BY <2>3
    <3>1. chars'[c] = ((Times(text, c) % CharCounts) + Times(u, c)) % CharCounts
      BY <2>3
    <3>2. Times(text, c) \in Nat /\ Times(u, c) \in Nat
      BY <1>7
    <3>3. chars'[c] = (Times(text, c) + Times(u, c)) % CharCounts
      BY <3>1, <3>2, FiltersAssumption, ModPlus
    <3> QED
      BY <1>7, <3>3
  <2> QED
    BY <2>4, <2>5
<1>9. Closed'
  <2>1. Written(t) = text /\ Kept(s) = Without(text, {LF})
    BY DEF Open
  <2>2. /\ text' = Append(body, EOT) /\ Written(t)' = Append(body, LF)
        /\ Kept(s)' = Without(body, {LF})
    BY <1>3, <1>4, <1>5, <1>6, <2>1
  <2> HIDE DEF body
  <2>3. \E b \in Seq(Letters) :
           /\ text' = Append(b, EOT) /\ Written(t)' = Append(b, LF)
           /\ Kept(s)' = Without(b, {LF}) /\ n' = (Times(b, LF) + cuts') % LineCounts
           /\ DOMAIN chars' = Keys \cup {LF}
           /\ \A c \in Keys \cup {LF} : chars'[c] = Times(b, c) % CharCounts
    BY <1>2, <1>8, <2>2
  <2> QED
    BY <1>4, <1>5, <2>3 DEF Closed, Counts
<1> QED
  BY <1>1, <1>4, <1>5, <1>9 DEF CutInv

LEMMA CutInvStep ==
    ASSUME CType, CutInv, [Next]_vars PROVE CutInv'
<1>1. CASE UNCHANGED vars
  BY <1>1, CutStays DEF vars, textVars
<1>2. CASE EditCode
  BY <1>2, CutEdit
<1>3. CASE CtrlC \/ Push \/ Cancel \/ KeyArrives \/ ReadChar \/ ReadFile \/ FileAtEnd
           \/ FileEnds \/ FileFailed \/ Replay \/ ReadCall
  BY <1>3, CutStays DEF CtrlC, Push, Cancel, KeyArrives, ReadChar, ReadFile, FileAtEnd,
     FileEnds, FileFailed, Replay, ReadCall, textVars
<1>4. CASE PipeRead
  <2>1. PICK k \in 1 .. Len(left) :
           LET chunk == SubSeq(left, 1, k) IN
           /\ left' = SubSeq(left, k + 1, Len(left)) /\ text' = text \o chunk
           /\ cuts' = cuts + 1
           /\ t' = type(t, chunk) /\ s' = sort(s, chunk)
           /\ n' = find(n, chunk) /\ chars' = freq(chars, chunk)
    BY <1>4 DEF PipeRead
  <2> DEFINE chunk == SubSeq(left, 1, k)
             after == SubSeq(left, k + 1, Len(left))
  <2>2. lines' = lines
    BY <1>4 DEF PipeRead, textVars
  <2>3. left # <<>>
    BY EmptySeq
  <2>4. Open /\ lines.done
    BY <2>3 DEF CutInv, Open, Closed
  <2>5. PICK rest \in Seq(Letters) : left = Append(rest, EOT)
    BY <2>4 DEF Open
  <2>6. Len(left) = Len(rest) + 1
    <3>1. rest \in Seq(Letters \cup {EOT})
      BY SeqMonotonic
    <3> QED
      BY <2>5, <3>1, AppendProperties
  <2>7. \/ chunk \in Seq(Letters) /\ \E a \in Seq(Letters) : after = Append(a, EOT)
        \/ chunk = left /\ after = <<>>
    BY <2>5, <2>6, Piece
  <2>8. /\ left' = after /\ text' = text \o chunk /\ cuts' = cuts + 1
        /\ t' = type(t, chunk) /\ s' = sort(s, chunk)
        /\ n' = find(n, chunk) /\ chars' = freq(chars, chunk)
    BY <2>1
  <2> HIDE DEF chunk, after
  <2>9. CASE chunk \in Seq(Letters) /\ \E a \in Seq(Letters) : after = Append(a, EOT)
    BY <2>2, <2>4, <2>8, <2>9, ReadMiddle
  <2>10. CASE chunk = left /\ after = <<>>
    BY <2>2, <2>4, <2>5, <2>8, <2>10, ReadEnd
  <2> QED
    BY <2>7, <2>9, <2>10
<1> QED
  BY <1>1, <1>2, <1>3, <1>4 DEF Next, ReaderStep

LEMMA CutInvShows ==
    ASSUME CutInv PROVE CutsDoNotShow
<1>1. Output(t) \o t.line = Written(t)
  BY DEF Output, OutText, Lined, Written
<1>2. CASE Open
  <2>1. Before(text) = text
    BY <1>2, BeforeLetters DEF Open
  <2> QED
    BY <1>1, <1>2, <2>1 DEF Open, Counts, CutsDoNotShow, Kept
<1>3. CASE Closed
  <2>1. PICK body \in Seq(Letters) :
          /\ text = Append(body, EOT) /\ Written(t) = Append(body, LF)
          /\ Kept(s) = Without(body, {LF}) /\ Counts(body)
    BY <1>3 DEF Closed
  <2>2. EOT \in Stops /\ t.done
    BY <1>3 DEF Stops, Closed
  <2>3. Before(text) = body
    BY <2>1, <2>2, BeforeEnded
  <2> QED
    BY <1>1, <2>1, <2>2, <2>3 DEF Counts, CutsDoNotShow, Kept
<1> QED
  BY <1>2, <1>3 DEF CutInv

(* However the reads cut the text of a pipe, type writes it unchanged,     *)
(* sort keeps every character, freq counts each of them once, and find     *)
(* counts its reads with the newlines, each modulo the width of its counter. *)
THEOREM CutsDoNotShowHolds == Spec => []CutsDoNotShow
<1>1. CType /\ CutInv /\ [Next]_vars => (CType /\ CutInv)'
  BY CTypeStep, CutInvStep
<1>2. CutInv => CutsDoNotShow
  BY CutInvShows
<1> QED
  BY <1>1, <1>2, CTypeInit, CutInvInit, PTL DEF Spec
=============================================================================
