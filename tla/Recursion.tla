------------------------------ MODULE Recursion ------------------------------
(***************************************************************************)
(* What the proofs need about recursive functions.  A definition           *)
(*     F[i \in 0 .. n] == IF i = 0 THEN base ELSE ... F[i - 1] ...         *)
(* stands for some function that solves this equation, so nothing follows  *)
(* from it before a solution is known to exist.                            *)
(***************************************************************************)
EXTENDS SequencesExt, SequenceTheorems, WellFoundedInduction, TLAPS

LEMMA Smallest ==
  ASSUME NEW S, S \subseteq Nat, S # {}
  PROVE  Min(S) \in S
<1> DEFINE Less == {ss \in Nat \X Nat : ss[1] < ss[2]}
<1>1. IsWellFoundedOn(Less, Nat)
  BY NatLessThanWellFounded DEF OpToRel
<1>2. PICK x \in S : \A y \in S : <<y, x>> \notin Less
  <2> HIDE DEF Less
  <2> QED BY <1>1, WFMin
<1>3. ASSUME NEW y \in S PROVE x =< y
  <2>1. x \in Nat /\ y \in Nat /\ <<y, x>> \notin Less
    BY <1>2
  <2> QED BY <2>1
<1> QED BY <1>3 DEF Min

\* Induction on Nat, for a set instead of a predicate.
LEMMA Induction ==
  ASSUME NEW S, 0 \in S, \A n \in Nat : n \in S => n + 1 \in S
  PROVE  Nat \subseteq S
<1>1. SUFFICES ASSUME Nat \ S # {} PROVE FALSE
  OBVIOUS
<1> DEFINE Less == {ss \in Nat \X Nat : ss[1] < ss[2]}
<1>2. IsWellFoundedOn(Less, Nat)
  BY NatLessThanWellFounded DEF OpToRel
<1> HIDE DEF Less
<1>3. PICK x \in Nat \ S : \A y \in Nat \ S : <<y, x>> \notin Less
  <2>1. Nat \ S \subseteq Nat
    OBVIOUS
  <2> QED BY <1>1, <1>2, <2>1, WFMin
<1>4. x # 0 /\ x - 1 \in Nat
  OBVIOUS
<1>5. <<x - 1, x>> \in Less
  BY <1>4 DEF Less
<1>6. x - 1 \in S
  BY <1>3, <1>4, <1>5
<1> QED BY <1>4, <1>6

\* Induction on sequences, for a set instead of a predicate.
LEMMA SequenceInduction ==
  ASSUME NEW X, NEW S, <<>> \in S, \A s \in Seq(X), x \in X : s \in S => Append(s, x) \in S
  PROVE  Seq(X) \subseteq S
<1> DEFINE Covered == {n \in Nat : \A s \in Seq(X) : Len(s) = n => s \in S}
<1>1. 0 \in Covered
  <2>1. \A s \in Seq(X) : Len(s) = 0 => s = <<>>
    OBVIOUS
  <2> QED BY <2>1
<1>2. ASSUME NEW n \in Nat, n \in Covered PROVE n + 1 \in Covered
  <2> SUFFICES ASSUME NEW s \in Seq(X), Len(s) = n + 1 PROVE s \in S
    OBVIOUS
  <2>1. PICK t \in Seq(X), x \in X : s = Append(t, x)
    BY SequenceEmptyOrAppend
  <2>2. Len(t) = n
    BY <2>1
  <2> QED BY <1>2, <2>1, <2>2
<1> HIDE DEF Covered
<1>3. Nat \subseteq Covered
  BY <1>1, <1>2, Induction
<1> QED BY <1>3 DEF Covered

\* The first k steps of a recursion in S: f[i] is made from f[i - 1] by step[i].
Solves(f, S, base, step, k) ==
  f \in [0 .. k -> S] /\ f[0] = base /\ \A i \in 1 .. k : f[i] = step[i][f[i - 1]]

LEMMA Extendable ==
  ASSUME NEW S, NEW base \in S, NEW n \in Nat, NEW step \in [1 .. n -> [S -> S]],
         NEW k \in Nat, k + 1 <= n, NEW f, Solves(f, S, base, step, k)
  PROVE  \E g : Solves(g, S, base, step, k + 1)
<1> DEFINE g == [i \in 0 .. k + 1 |-> IF i <= k THEN f[i] ELSE step[i][f[i - 1]]]
<1>1. f \in [0 .. k -> S] /\ f[0] = base /\ \A i \in 1 .. k : f[i] = step[i][f[i - 1]]
  BY DEF Solves
<1>2. step[k + 1] \in [S -> S] /\ f[k] \in S /\ (k + 1) - 1 = k
  BY <1>1
<1>3. g \in [0 .. k + 1 -> S]
  <2> SUFFICES ASSUME NEW i \in 0 .. k + 1
               PROVE  (IF i <= k THEN f[i] ELSE step[i][f[i - 1]]) \in S
    OBVIOUS
  <2>1. i <= k => i \in 0 .. k
    OBVIOUS
  <2>2. ~(i <= k) => i = k + 1
    OBVIOUS
  <2> QED BY <1>1, <1>2, <2>1, <2>2
<1>4. g[0] = base
  BY <1>1
<1>5. ASSUME NEW i \in 1 .. k + 1 PROVE g[i] = step[i][g[i - 1]]
  <2>1. g[i - 1] = f[i - 1] /\ i \in 0 .. k + 1
    OBVIOUS
  <2>2. CASE i <= k
    BY <1>1, <2>1, <2>2
  <2>3. CASE ~(i <= k)
    BY <2>1, <2>3
  <2> QED BY <2>2, <2>3
<1> HIDE DEF g
<1>6. Solves(g, S, base, step, k + 1)
  BY <1>3, <1>4, <1>5 DEF Solves
<1> QED BY <1>6

\* A recursion whose steps are functions on a set has a solution.
LEMMA Solvable ==
  ASSUME NEW S, NEW base \in S, NEW n \in Nat, NEW step \in [1 .. n -> [S -> S]]
  PROVE  \E f : Solves(f, S, base, step, n)
<1> DEFINE Solved == {k \in Nat : k <= n => \E f : Solves(f, S, base, step, k)}
<1>1. 0 \in Solved
  <2>1. Solves([i \in 0 .. 0 |-> base], S, base, step, 0)
    BY DEF Solves
  <2> QED BY <2>1
<1>2. ASSUME NEW k \in Nat, k \in Solved PROVE k + 1 \in Solved
  <2>1. k + 1 <= n => k <= n /\ \E f : Solves(f, S, base, step, k)
    BY <1>2
  <2>2. k + 1 <= n => \E f : Solves(f, S, base, step, k + 1)
    BY <2>1, Extendable
  <2> QED BY <2>2
<1> HIDE DEF Solved
<1>3. n \in Solved
  BY <1>1, <1>2, Induction
<1> QED BY <1>3 DEF Solved

\* Two recursions whose steps agree have the same values.
LEMMA Agree ==
  ASSUME NEW f, NEW g, NEW n \in Nat, f[0] = g[0],
         \A i \in 1 .. n : f[i - 1] = g[i - 1] => f[i] = g[i]
  PROVE  \A i \in 0 .. n : f[i] = g[i]
<1> DEFINE Same == {i \in Nat : i <= n => f[i] = g[i]}
<1>1. 0 \in Same
  OBVIOUS
<1>2. ASSUME NEW i \in Nat, i \in Same PROVE i + 1 \in Same
  <2>1. ASSUME i + 1 <= n PROVE f[i + 1] = g[i + 1]
    <3>1. i + 1 \in 1 .. n /\ (i + 1) - 1 = i /\ f[i] = g[i]
      BY <1>2, <2>1
    <3> QED BY <3>1
  <2> QED BY <2>1
<1> HIDE DEF Same
<1>3. Nat \subseteq Same
  BY <1>1, <1>2, Induction
<1> QED BY <1>3 DEF Same

\* The same of an f that need not be in S.
Recurses(f, S, base, step, k) ==
  /\ f = [i \in 0 .. k |-> f[i]] /\ f[0] = base
  /\ \A i \in 1 .. k : f[i - 1] \in S => f[i] = step[i][f[i - 1]]

LEMMA Defined ==
  ASSUME NEW S, NEW base \in S, NEW n \in Nat, NEW step \in [1 .. n -> [S -> S]], NEW g,
         Recurses(g, S, base, step, n)
  PROVE  Solves(g, S, base, step, n)
<1>0. /\ g = [i \in 0 .. n |-> g[i]] /\ g[0] = base
      /\ \A i \in 1 .. n : g[i - 1] \in S => g[i] = step[i][g[i - 1]]
  BY DEF Recurses
<1> DEFINE Good == {i \in Nat : i <= n => g[i] \in S}
<1>1. 0 \in Good
  BY <1>0
<1>2. ASSUME NEW i \in Nat, i \in Good PROVE i + 1 \in Good
  <2> SUFFICES ASSUME i + 1 <= n PROVE g[i + 1] \in S
    OBVIOUS
  <2>1. i + 1 \in 1 .. n /\ (i + 1) - 1 = i /\ g[i] \in S
    BY <1>2
  <2>2. g[i + 1] = step[i + 1][g[i]] /\ step[i + 1] \in [S -> S]
    BY <1>0, <2>1
  <2> QED BY <2>1, <2>2
<1> HIDE DEF Good
<1>3. Nat \subseteq Good
  BY <1>1, <1>2, Induction
<1>4. \A i \in 0 .. n : g[i] \in S
  BY <1>3 DEF Good
<1>5. g \in [0 .. n -> S]
  BY <1>0, <1>4
<1>6. \A i \in 1 .. n : i - 1 \in 0 .. n
  OBVIOUS
<1>7. \A i \in 1 .. n : g[i] = step[i][g[i - 1]]
  BY <1>0, <1>4, <1>6
<1> QED BY <1>0, <1>5, <1>7 DEF Solves

(***************************************************************************)
(* Recursion on the rank of an element, like the depth of what nests.      *)
(***************************************************************************)
LEMMA RankInduction ==
  ASSUME NEW D, NEW rank \in [D -> Nat], NEW T,
         \A x \in D : (\A y \in D : rank[y] < rank[x] => y \in T) => x \in T
  PROVE  D \subseteq T
<1> DEFINE Good == {n \in Nat : \A x \in D : rank[x] < n => x \in T}
<1>1. 0 \in Good
  OBVIOUS
<1>2. ASSUME NEW n \in Nat, n \in Good PROVE n + 1 \in Good
  <2> SUFFICES ASSUME NEW x \in D, rank[x] < n + 1 PROVE x \in T
    OBVIOUS
  <2>1. \A y \in D : rank[y] < rank[x] => rank[y] < n
    OBVIOUS
  <2> QED BY <1>2, <2>1
<1> HIDE DEF Good
<1>3. Nat \subseteq Good
  BY <1>1, <1>2, Induction
<1>4. ASSUME NEW x \in D PROVE x \in T
  <2>1. rank[x] + 1 \in Good /\ rank[x] < rank[x] + 1
    BY <1>3
  <2> QED BY <2>1 DEF Good
<1> QED BY <1>4

\* f solves the equations of step for what ranks below n.
SolvesBelow(f, D, S, rank, step, n) ==
  f \in [D -> S] /\ \A x \in D : rank[x] < n => f[x] = step[x][f]

\* What step[x] makes of a function depends on its values at what ranks below x only.
Local(D, S, rank, step) ==
  \A x \in D : \A g, h \in [D -> S] :
    (\A y \in D : rank[y] < rank[x] => g[y] = h[y]) => step[x][g] = step[x][h]

SolvesAll(f, D, S, step) == f \in [D -> S] /\ \A x \in D : f[x] = step[x][f]

LEMMA OneSolution ==
  ASSUME NEW D, NEW S, NEW rank \in [D -> Nat], NEW step, Local(D, S, rank, step),
         NEW n \in Nat, NEW g, SolvesBelow(g, D, S, rank, step, n),
         NEW m \in Nat, n <= m, NEW h, SolvesBelow(h, D, S, rank, step, m)
  PROVE  \A x \in D : rank[x] < n => g[x] = h[x]
<1> DEFINE T == {x \in D : rank[x] < n => g[x] = h[x]}
<1>1. ASSUME NEW x \in D, \A y \in D : rank[y] < rank[x] => y \in T PROVE x \in T
  <2> SUFFICES ASSUME rank[x] < n PROVE g[x] = h[x]
    OBVIOUS
  <2>1. g \in [D -> S] /\ h \in [D -> S] /\ g[x] = step[x][g] /\ h[x] = step[x][h]
    BY DEF SolvesBelow
  <2>2. \A y \in D : rank[y] < rank[x] => g[y] = h[y]
    BY <1>1
  <2> QED BY <2>1, <2>2 DEF Local
<1> HIDE DEF T
<1>2. D \subseteq T
  BY <1>1, RankInduction
<1> QED BY <1>2 DEF T

LEMMA SolvableBelow ==
  ASSUME NEW D, NEW S, NEW start \in S, NEW rank \in [D -> Nat],
         NEW step \in [D -> [[D -> S] -> S]], Local(D, S, rank, step)
  PROVE  \A n \in Nat : \E f : SolvesBelow(f, D, S, rank, step, n)
<1> DEFINE Solved == {n \in Nat : \E f : SolvesBelow(f, D, S, rank, step, n)}
<1>1. 0 \in Solved
  <2>1. SolvesBelow([x \in D |-> start], D, S, rank, step, 0)
    BY DEF SolvesBelow
  <2> QED BY <2>1
<1>2. ASSUME NEW n \in Nat, n \in Solved PROVE n + 1 \in Solved
  <2>1. PICK f : SolvesBelow(f, D, S, rank, step, n)
    BY <1>2
  <2>2. PICK g : g = [x \in D |-> step[x][f]]
    OBVIOUS
  <2>3. f \in [D -> S] /\ g \in [D -> S] /\ \A x \in D : g[x] = step[x][f]
    BY <2>1, <2>2 DEF SolvesBelow
  <2>4. ASSUME NEW x \in D, rank[x] < n + 1 PROVE g[x] = step[x][g]
    <3>1. ASSUME NEW y \in D, rank[y] < rank[x] PROVE f[y] = g[y]
      <4>1. rank[y] < n
        BY <2>4, <3>1
      <4> QED BY <2>1, <2>3, <4>1 DEF SolvesBelow
    <3> QED BY <2>3, <3>1 DEF Local
  <2>5. SolvesBelow(g, D, S, rank, step, n + 1)
    BY <2>3, <2>4 DEF SolvesBelow
  <2> QED BY <2>5
<1> HIDE DEF Solved
<1>3. Nat \subseteq Solved
  BY <1>1, <1>2, Induction
<1> QED BY <1>3 DEF Solved

LEMMA RankRecursion ==
  ASSUME NEW D, NEW S, NEW start \in S, NEW rank \in [D -> Nat],
         NEW step \in [D -> [[D -> S] -> S]], Local(D, S, rank, step)
  PROVE  \E f : SolvesAll(f, D, S, step)
<1>1. PICK sol : \A n \in Nat : SolvesBelow(sol[n], D, S, rank, step, n)
  <2> DEFINE s == [n \in Nat |-> CHOOSE f : SolvesBelow(f, D, S, rank, step, n)]
  <2>1. \A n \in Nat : SolvesBelow(s[n], D, S, rank, step, n)
    BY SolvableBelow
  <2> QED BY <2>1
<1>2. PICK f : f = [x \in D |-> sol[rank[x] + 1][x]]
  OBVIOUS
<1>3. \A x \in D : SolvesBelow(sol[rank[x] + 1], D, S, rank, step, rank[x] + 1)
  BY <1>1
<1>4. f \in [D -> S]
  <2>1. \A x \in D : sol[rank[x] + 1][x] \in S
    BY <1>3 DEF SolvesBelow
  <2> QED BY <1>2, <2>1
<1>5. ASSUME NEW x \in D PROVE f[x] = step[x][f]
  <2>1. PICK h : h = sol[rank[x] + 1]
    OBVIOUS
  <2>2. SolvesBelow(h, D, S, rank, step, rank[x] + 1) /\ f[x] = h[x]
    BY <1>2, <1>3, <2>1
  <2>3. h \in [D -> S] /\ h[x] = step[x][h]
    BY <2>2 DEF SolvesBelow
  <2>4. ASSUME NEW y \in D, rank[y] < rank[x] PROVE f[y] = h[y]
    <3>1. rank[y] + 1 <= rank[x] + 1 /\ rank[y] < rank[y] + 1 /\ rank[y] + 1 \in Nat
          /\ rank[x] + 1 \in Nat
      BY <2>4
    <3>2. sol[rank[y] + 1][y] = h[y]
      BY <1>3, <2>2, <3>1, OneSolution
    <3> QED BY <1>2, <3>2
  <2> QED BY <1>4, <2>2, <2>3, <2>4 DEF Local
<1> QED BY <1>4, <1>5 DEF SolvesAll

(***************************************************************************)
(* FlattenSeq, of SequencesExt: the concatenation of the elements of s.    *)
(***************************************************************************)
Concatenates(X, s, f) ==  \* f holds the concatenations of the first elements of s
  /\ f \in [0 .. Len(s) -> Seq(X)] /\ f[0] = <<>>
  /\ \A i \in 1 .. Len(s) : f[i] = f[i - 1] \o s[i]

LEMMA FlatExists ==
  ASSUME NEW X, NEW s \in Seq(Seq(X))
  PROVE  \E f : Concatenates(X, s, f)
<1> DEFINE n == Len(s)
           step == [i \in 1 .. n |-> [t \in Seq(X) |-> t \o s[i]]]
<1>1. n \in Nat /\ <<>> \in Seq(X) /\ step \in [1 .. n -> [Seq(X) -> Seq(X)]]
  OBVIOUS
<1>2. \E f : Solves(f, Seq(X), <<>>, step, n)
  <2> HIDE DEF step, n
  <2> QED BY <1>1, Solvable
<1>3. ASSUME NEW f, Solves(f, Seq(X), <<>>, step, n) PROVE Concatenates(X, s, f)
  <2>1. f \in [0 .. n -> Seq(X)] /\ f[0] = <<>> /\ \A i \in 1 .. n : f[i] = step[i][f[i - 1]]
    <3> HIDE DEF step, n
    <3> QED BY <1>3 DEF Solves
  <2>2. ASSUME NEW i \in 1 .. n PROVE f[i] = f[i - 1] \o s[i]
    <3>1. i - 1 \in 0 .. n
      BY <1>1
    <3> QED BY <2>1, <3>1
  <2> QED BY <2>1, <2>2 DEF Concatenates
<1> QED BY <1>2, <1>3

LEMMA FlattenSolved ==
  ASSUME NEW X, NEW s \in Seq(Seq(X)), s # <<>>, NEW f, Concatenates(X, s, f)
  PROVE  FlattenSeq(s) = f[Len(s)]
<1> DEFINE n == Len(s)
           E(g) == [i \in 1 .. n |-> IF i = 1 THEN s[i] ELSE g[i - 1] \o s[i]]
           g == CHOOSE g : g = E(g)
           h == [i \in 1 .. n |-> f[i]]
<1>1. n \in Nat \ {0} /\ \A i \in 1 .. n : s[i] \in Seq(X)
  OBVIOUS
<1>2. f \in [0 .. n -> Seq(X)] /\ f[0] = <<>> /\ \A i \in 1 .. n : f[i] = f[i - 1] \o s[i]
  BY DEF Concatenates
<1>3. f[1] = s[1]
  <2> HIDE DEF n
  <2>1. 1 \in 1 .. n
    BY <1>1
  <2>2. f[1] = f[1 - 1] \o s[1]
    BY <1>2, <2>1
  <2>3. f[1 - 1] = <<>>
    BY <1>2
  <2>4. <<>> \o s[1] = s[1]
    BY <1>1, <2>1
  <2> QED BY <2>2, <2>3, <2>4
<1>4. h = E(h)
  <2>1. ASSUME NEW i \in 1 .. n PROVE f[i] = IF i = 1 THEN s[i] ELSE h[i - 1] \o s[i]
    <3>1. i # 1 => h[i - 1] = f[i - 1]
      BY <1>1
    <3> HIDE DEF h
    <3> QED BY <1>2, <1>3, <3>1
  <2> QED BY <2>1
<1>5. FlattenSeq(s) = g[n]
  BY <1>1 DEF FlattenSeq
<1>6. g = E(g)
  <2> HIDE DEF h, E
  <2> QED BY <1>4
<1> HIDE DEF g
<1>7. \A i \in 1 .. n : g[i] = IF i = 1 THEN s[i] ELSE g[i - 1] \o s[i]
  BY <1>6
<1> DEFINE a == [i \in 0 .. n - 1 |-> f[i + 1]]
           b == [i \in 0 .. n - 1 |-> g[i + 1]]
<1>8. a[0] = b[0]
  BY <1>1, <1>3, <1>7
<1>9. ASSUME NEW i \in 1 .. n - 1, a[i - 1] = b[i - 1] PROVE a[i] = b[i]
  <2>1. i + 1 \in 1 .. n /\ i + 1 # 1 /\ (i + 1) - 1 = i /\ f[i] = g[i]
    BY <1>1, <1>9
  <2>2. f[i + 1] = f[i] \o s[i + 1] /\ g[i + 1] = g[i] \o s[i + 1]
    BY <1>2, <1>7, <2>1
  <2>3. i \in 0 .. n - 1
    BY <1>1
  <2>4. a[i] = f[i + 1] /\ b[i] = g[i + 1]
    BY <2>3
  <2> HIDE DEF a, b
  <2> QED BY <2>1, <2>2, <2>4
<1>10. a[n - 1] = b[n - 1]
  <2> HIDE DEF a, b, n
  <2>1. n - 1 \in Nat /\ n - 1 \in 0 .. n - 1
    BY <1>1
  <2> QED BY <1>8, <1>9, <2>1, Agree, ZenonT(40)
<1>11. f[n] = g[n]
  BY <1>1, <1>10
<1> QED BY <1>5, <1>11

LEMMA FlattenFlat ==
  ASSUME NEW X, NEW s \in Seq(Seq(X))
  PROVE  \E f : Concatenates(X, s, f) /\ FlattenSeq(s) = f[Len(s)]
<1>1. PICK f : Concatenates(X, s, f)
  BY FlatExists
<1>2. CASE s = <<>>
  <2>1. FlattenSeq(s) = <<>> /\ Len(s) = 0
    BY <1>2 DEF FlattenSeq
  <2> QED BY <1>1, <2>1 DEF Concatenates
<1>3. CASE s # <<>>
  BY <1>1, <1>3, FlattenSolved
<1> QED BY <1>2, <1>3

LEMMA FlattenEmpty == FlattenSeq(<<>>) = <<>>
BY DEF FlattenSeq

LEMMA FlattenAppend ==
  ASSUME NEW X, NEW s \in Seq(Seq(X)), NEW x \in Seq(X)
  PROVE  FlattenSeq(s) \in Seq(X) /\ FlattenSeq(Append(s, x)) = FlattenSeq(s) \o x
<1>1. PICK n \in Nat : n = Len(s)
  OBVIOUS
<1>2. PICK t \in Seq(Seq(X)) : t = Append(s, x)
  <2>1. Append(s, x) \in Seq(Seq(X))
    OBVIOUS
  <2> QED BY <2>1
<1>3. Len(t) = n + 1 /\ t[n + 1] = x /\ \A i \in 1 .. n : t[i] = s[i]
  BY <1>1, <1>2
<1>4. PICK f : Concatenates(X, s, f) /\ FlattenSeq(s) = f[n]
  BY <1>1, FlattenFlat
<1>5. PICK g : Concatenates(X, t, g) /\ FlattenSeq(t) = g[n + 1]
  BY <1>3, FlattenFlat
<1>6. f[0] = g[0] /\ f \in [0 .. n -> Seq(X)] /\ \A i \in 1 .. n : f[i] = f[i - 1] \o s[i]
  BY <1>1, <1>4, <1>5 DEF Concatenates
<1>7. \A i \in 1 .. n + 1 : g[i] = g[i - 1] \o t[i]
  BY <1>3, <1>5 DEF Concatenates
<1>8. ASSUME NEW i \in 1 .. n, f[i - 1] = g[i - 1] PROVE f[i] = g[i]
  <2>1. i \in 1 .. n + 1
    OBVIOUS
  <2>2. f[i] = f[i - 1] \o s[i] /\ g[i] = g[i - 1] \o t[i] /\ t[i] = s[i]
    BY <1>3, <1>6, <1>7, <2>1
  <2> QED BY <1>8, <2>2
<1>9. \A i \in 0 .. n : f[i] = g[i]
  <2>1. f[0] = g[0]
    BY <1>6
  <2> QED BY <1>8, <2>1, Agree, ZenonT(40)
<1>10. n \in 0 .. n /\ n + 1 \in 1 .. n + 1 /\ (n + 1) - 1 = n
  OBVIOUS
<1>11. FlattenSeq(t) = f[n] \o x
  BY <1>3, <1>5, <1>7, <1>9, <1>10
<1> QED BY <1>2, <1>4, <1>6, <1>10, <1>11
=============================================================================
