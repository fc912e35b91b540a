----------------------- MODULE SessionContext_proofs -----------------------
(***************************************************************************)
(* Lemmas about paths of entries: what a selection of a sequence holds,    *)
(* and what a compaction names.                                            *)
(*                                                                         *)
(* Induction over the naturals and over sequences is stated for a set, so  *)
(* that the provers can use it: a set that has 0 and with n also n + 1 has *)
(* every natural.                                                          *)
(***************************************************************************)
EXTENDS SessionContext, TLAPS, WellFoundedInduction, SequenceTheorems

-----------------------------------------------------------------------------
(* Induction.                                                              *)

\* The least number that is not in the set would be the successor of one that is.
LEMMA Induction ==
  ASSUME NEW S, 0 \in S, \A n \in Nat : n \in S => n + 1 \in S
  PROVE  Nat \subseteq S
<1> DEFINE T == Nat \ S
           R == {p \in Nat \X Nat : p[1] < p[2]}
<1>1. IsWellFoundedOn(R, Nat)
  BY NatLessThanWellFounded DEF OpToRel
<1>2. ASSUME T # {} PROVE FALSE
  <2>1. PICK x \in T : \A y \in T : ~(<<y, x>> \in R)
    <3> HIDE DEF R
    <3> QED
      BY <1>1, <1>2, WFMin
  <2>2. x - 1 \in Nat /\ x = (x - 1) + 1 /\ x \in Nat
    BY <2>1
  <2>3. <<x - 1, x>> \in R
    BY <2>2
  <2>4. x - 1 \in S
    BY <2>1, <2>2, <2>3
  <2> QED
    BY <2>1, <2>2, <2>4
<1> QED
  BY <1>2

-----------------------------------------------------------------------------
(* Selections.                                                             *)

\* The function of which Selected takes the last value.
Selects(f, seq, positions) ==
  f = [n \in 0..Len(seq) |->
         IF n = 0 THEN <<>>
         ELSE IF n \in positions THEN Append(f[n - 1], seq[n]) ELSE f[n - 1]]

LEMMA SelectsExists ==
  ASSUME NEW seq, Len(seq) \in Nat, NEW positions
  PROVE  \E f : Selects(f, seq, positions)
<1> DEFINE Sel(f, m) ==
             f = [n \in 0..m |-> IF n = 0 THEN <<>>
                                 ELSE IF n \in positions THEN Append(f[n - 1], seq[n]) ELSE f[n - 1]]
           S == {m \in Nat : \E f : Sel(f, m)}
<1>1. 0 \in S
  <2> DEFINE f == [n \in 0..0 |-> <<>>]
  <2>1. Sel(f, 0)
    OBVIOUS
  <2> QED
    BY <2>1
<1>2. ASSUME NEW m \in Nat, m \in S PROVE m + 1 \in S
  <2>1. PICK f : Sel(f, m)
    BY <1>2
  <2> DEFINE next == IF m + 1 \in positions THEN Append(f[m], seq[m + 1]) ELSE f[m]
             g == [n \in 0..(m + 1) |-> IF n = m + 1 THEN next ELSE f[n]]
  <2>2. \A n \in 0..m : g[n] = f[n]
    OBVIOUS
  <2>3. \A n \in 0..m : f[n] = IF n = 0 THEN <<>>
                               ELSE IF n \in positions THEN Append(f[n - 1], seq[n]) ELSE f[n - 1]
    BY <2>1
  <2>4. \A n \in 0..(m + 1) : g[n] = IF n = 0 THEN <<>>
                               ELSE IF n \in positions THEN Append(g[n - 1], seq[n]) ELSE g[n - 1]
    <3> TAKE n \in 0..(m + 1)
    <3>1. CASE n = m + 1
      <4>1. g[n] = next /\ g[n - 1] = f[m] /\ n # 0
        BY <3>1
      <4> HIDE DEF g
      <4> QED
        BY <3>1, <4>1
    <3>2. CASE n \in 0..m
      <4>1. n # 0 => n - 1 \in 0..m
        BY <3>2
      <4> HIDE DEF g
      <4> QED
        BY <2>2, <2>3, <3>2, <4>1
    <3> QED
      BY <3>1, <3>2
  <2>5. Sel(g, m + 1)
    BY <2>4
  <2> QED
    <3> HIDE DEF g, Sel
    <3> QED
      BY <2>5
<1>3. Nat \subseteq S
  <2> HIDE DEF S
  <2> QED
    BY <1>1, <1>2, Induction
<1> QED
  BY <1>3 DEF Selects

LEMMA SelectedIs ==
  ASSUME NEW seq, Len(seq) \in Nat, NEW positions
  PROVE  \E f : Selects(f, seq, positions) /\ Selected(seq, positions) = f[Len(seq)]
<1> DEFINE f == CHOOSE g : Selects(g, seq, positions)
<1>1. Selects(f, seq, positions)
  BY SelectsExists
<1>2. Selected(seq, positions) = f[Len(seq)]
  BY DEF Selected, Selects
<1> QED
  BY <1>1, <1>2

LEMMA SelectsStep ==
  ASSUME NEW f, NEW s, NEW P, Selects(f, s, P), NEW n \in 0..Len(s)
  PROVE  f[n] = IF n = 0 THEN <<>>
                ELSE IF n \in P THEN Append(f[n - 1], s[n]) ELSE f[n - 1]
BY DEF Selects

\* What is selected of the first m depends on them alone.
LEMMA SelectsSame ==
  ASSUME NEW s, NEW t, NEW P, NEW Q, NEW f, NEW g, Selects(f, s, P), Selects(g, t, Q),
         Len(s) \in Nat, Len(t) \in Nat, NEW m \in Nat, m <= Len(s), m <= Len(t),
         \A n \in 1..m : s[n] = t[n] /\ (n \in P <=> n \in Q)
  PROVE  f[m] = g[m]
<1> DEFINE S == {k \in Nat : k <= m => f[k] = g[k]}
<1>0. /\ \A n \in 0..m : f[n] = IF n = 0 THEN <<>>
                                ELSE IF n \in P THEN Append(f[n - 1], s[n]) ELSE f[n - 1]
      /\ \A n \in 0..m : g[n] = IF n = 0 THEN <<>>
                                ELSE IF n \in Q THEN Append(g[n - 1], t[n]) ELSE g[n - 1]
  <2>1. \A n \in 0..m : n \in 0..Len(s) /\ n \in 0..Len(t)
    OBVIOUS
  <2> QED
    BY <2>1, SelectsStep
<1>1. 0 \in S
  BY <1>0
<1>2. ASSUME NEW k \in Nat, k \in S PROVE k + 1 \in S
  <2>1. SUFFICES ASSUME k + 1 <= m PROVE f[k + 1] = g[k + 1]
    OBVIOUS
  <2>2. k + 1 \in 0..m /\ k + 1 \in 1..m /\ k + 1 # 0 /\ (k + 1) - 1 = k
    BY <2>1
  <2>3. f[k] = g[k] /\ s[k + 1] = t[k + 1] /\ (k + 1 \in P <=> k + 1 \in Q)
    BY <1>2, <2>1, <2>2
  <2>4. f[k + 1] = (IF k + 1 \in P THEN Append(f[k], s[k + 1]) ELSE f[k])
    BY <1>0, <2>2
  <2>5. g[k + 1] = (IF k + 1 \in Q THEN Append(g[k], t[k + 1]) ELSE g[k])
    BY <1>0, <2>2
  <2> QED
    BY <2>3, <2>4, <2>5
<1>3. Nat \subseteq S
  <2> HIDE DEF S
  <2> QED
    BY <1>1, <1>2, Induction
<1> QED
  BY <1>3

LEMMA SelectedEmpty ==
  ASSUME NEW P
  PROVE  Selected(<<>>, P) = <<>>
<1>1. Len(<<>>) = 0
  OBVIOUS
<1>2. PICK f : Selects(f, <<>>, P) /\ Selected(<<>>, P) = f[0]
  BY <1>1, SelectedIs
<1> QED
  BY <1>1, <1>2 DEF Selects

LEMMA SelectedSame ==
  ASSUME NEW s, Len(s) \in Nat, NEW P, NEW Q, \A n \in 1..Len(s) : n \in P <=> n \in Q
  PROVE  Selected(s, P) = Selected(s, Q)
<1>1. PICK f : Selects(f, s, P) /\ Selected(s, P) = f[Len(s)]
  BY SelectedIs
<1>2. PICK g : Selects(g, s, Q) /\ Selected(s, Q) = g[Len(s)]
  BY SelectedIs
<1> QED
  BY <1>1, <1>2, SelectsSame

LEMMA SelectedAppend ==
  ASSUME NEW T, NEW s \in Seq(T), NEW e \in T, NEW P
  PROVE  /\ Len(s) + 1 \in P => Selected(Append(s, e), P) = Append(Selected(s, P), e)
         /\ Len(s) + 1 \notin P => Selected(Append(s, e), P) = Selected(s, P)
<1> DEFINE t == Append(s, e)
<1>1. Len(s) \in Nat /\ Len(t) = Len(s) + 1 /\ t[Len(s) + 1] = e /\ \A n \in 1..Len(s) : t[n] = s[n]
  OBVIOUS
<1> HIDE DEF t
<1>2. PICK f : Selects(f, s, P) /\ Selected(s, P) = f[Len(s)]
  BY <1>1, SelectedIs
<1>3. PICK g : Selects(g, t, P) /\ Selected(t, P) = g[Len(t)]
  BY <1>1, SelectedIs
<1>4. f[Len(s)] = g[Len(s)]
  BY <1>1, <1>2, <1>3, SelectsSame
<1>5. Len(t) \in 0..Len(t) /\ Len(t) # 0 /\ Len(t) - 1 = Len(s)
  BY <1>1
<1>6. g[Len(t)] = IF Len(t) \in P THEN Append(g[Len(t) - 1], t[Len(t)]) ELSE g[Len(t) - 1]
  BY <1>3, <1>5 DEF Selects
<1> QED
  BY <1>1, <1>2, <1>3, <1>4, <1>5, <1>6 DEF t


\* A sequence that is not empty is another one with a member behind it.
LEMMA LastOfSequence ==
  ASSUME NEW T, NEW s \in Seq(T), NEW n \in Nat, Len(s) = n + 1
  PROVE  \E u \in Seq(T), e \in T : s = Append(u, e) /\ Len(u) = n
<1> DEFINE u == [i \in 1..n |-> s[i]]
<1>1. u \in Seq(T) /\ Len(u) = n /\ s[n + 1] \in T
  OBVIOUS
<1>2. s = Append(u, s[n + 1])
  OBVIOUS
<1> QED
  BY <1>1, <1>2

\* The members of a selection stand in s, in the same order, and none is left out.
Stands(h, s, P, u) ==
  /\ h \in [1..Len(u) -> 1..Len(s)]
  /\ \A i \in 1..Len(u) : h[i] \in P /\ u[i] = s[h[i]]
  /\ \A i, j \in 1..Len(u) : i < j => h[i] < h[j]
  /\ \A n \in 1..Len(s) : n \in P => \E i \in 1..Len(u) : h[i] = n

LEMMA SelectedPlaces ==
  ASSUME NEW T, NEW s \in Seq(T), NEW P
  PROVE  Selected(s, P) \in Seq(T) /\ \E h : Stands(h, s, P, Selected(s, P))
<1> DEFINE Holds(r) == Selected(r, P) \in Seq(T) /\ \E h : Stands(h, r, P, Selected(r, P))
           S == {n \in Nat : \A r \in Seq(T) : Len(r) = n => Holds(r)}
<1>1. 0 \in S
  <2> SUFFICES ASSUME NEW r \in Seq(T), Len(r) = 0 PROVE Holds(r)
    OBVIOUS
  <2>1. r = <<>>
    OBVIOUS
  <2>2. Selected(r, P) = <<>>
    BY <2>1, SelectedEmpty
  <2>3. Stands(<<>>, r, P, <<>>)
    BY <2>1 DEF Stands
  <2> QED
    BY <2>2, <2>3
<1>2. ASSUME NEW n \in Nat, n \in S PROVE n + 1 \in S
  <2> SUFFICES ASSUME NEW r \in Seq(T), Len(r) = n + 1 PROVE Holds(r)
    OBVIOUS
  <2>1. PICK q \in Seq(T), e \in T : r = Append(q, e) /\ Len(q) = n
    BY LastOfSequence
  <2>2. Holds(q)
    BY <1>2, <2>1
  <2> DEFINE u == Selected(q, P)
  <2>3. PICK h : Stands(h, q, P, u)
    BY <2>2
  <2>4. u \in Seq(T) /\ Len(u) \in Nat
    BY <2>2
  <2>5. r[n + 1] = e /\ \A i \in 1..n : r[i] = q[i]
    BY <2>1
  <2>6. CASE n + 1 \in P
    <3> DEFINE v == Append(u, e)
               g == [i \in 1..(Len(u) + 1) |-> IF i = Len(u) + 1 THEN n + 1 ELSE h[i]]
    <3>1. Selected(r, P) = v
      BY <2>1, <2>6, SelectedAppend
    <3> HIDE DEF u
    <3>2. v \in Seq(T) /\ Len(v) = Len(u) + 1 /\ v[Len(u) + 1] = e /\ \A i \in 1..Len(u) : v[i] = u[i]
      BY <2>4
    <3>3. /\ h \in [1..Len(u) -> 1..n]
          /\ \A i \in 1..Len(u) : h[i] \in P /\ u[i] = q[h[i]]
          /\ \A i, j \in 1..Len(u) : i < j => h[i] < h[j]
          /\ \A k \in 1..n : k \in P => \E i \in 1..Len(u) : h[i] = k
      BY <2>1, <2>3 DEF Stands
    <3>4. g[Len(u) + 1] = n + 1 /\ \A i \in 1..Len(u) : g[i] = h[i] /\ h[i] \in 1..n
      BY <2>4, <3>3
    <3>5. g \in [1..Len(v) -> 1..Len(r)]
      BY <2>4, <3>2, <3>3
    <3> HIDE DEF g, v
    <3>6. \A i \in 1..Len(v) : g[i] \in P /\ v[i] = r[g[i]]
      <4> TAKE i \in 1..Len(v)
      <4>1. CASE i = Len(u) + 1
        BY <2>5, <2>6, <3>2, <3>4, <4>1
      <4>2. CASE i \in 1..Len(u)
        BY <2>5, <3>2, <3>3, <3>4, <4>2
      <4> QED
        BY <2>4, <3>2, <4>1, <4>2
    <3>7. \A i, j \in 1..Len(v) : i < j => g[i] < g[j]
      <4> TAKE i, j \in 1..Len(v)
      <4> HAVE i < j
      <4>0. Len(u) \in Nat /\ i \in 1..(Len(u) + 1) /\ j \in 1..(Len(u) + 1)
        BY <2>4, <3>2
      <4>1. i \in 1..Len(u) /\ (j = Len(u) + 1 \/ j \in 1..Len(u))
        BY <4>0
      <4>2. CASE j = Len(u) + 1
        <5>1. h[i] \in 1..n /\ g[j] = n + 1 /\ g[i] = h[i]
          BY <3>4, <4>1, <4>2
        <5> QED
          BY <5>1
      <4>3. CASE j \in 1..Len(u)
        BY <3>3, <3>4, <4>1, <4>3
      <4> QED
        BY <4>1, <4>2, <4>3
    <3>8. \A k \in 1..Len(r) : k \in P => \E i \in 1..Len(v) : g[i] = k
      <4> TAKE k \in 1..Len(r)
      <4> HAVE k \in P
      <4>1. CASE k = n + 1
        BY <2>4, <3>2, <3>4, <4>1
      <4>2. CASE k \in 1..n
        <5>1. PICK i \in 1..Len(u) : h[i] = k
          BY <3>3, <4>2
        <5> QED
          BY <2>4, <3>2, <3>4, <5>1
      <4> QED
        BY <4>1, <4>2
    <3>9. Stands(g, r, P, v)
      BY <3>5, <3>6, <3>7, <3>8 DEF Stands
    <3> QED
      BY <3>1, <3>2, <3>9
  <2>7. CASE n + 1 \notin P
    <3>1. Selected(r, P) = u
      BY <2>1, <2>7, SelectedAppend
    <3> HIDE DEF u
    <3>2. /\ h \in [1..Len(u) -> 1..n]
          /\ \A i \in 1..Len(u) : h[i] \in P /\ u[i] = q[h[i]]
          /\ \A i, j \in 1..Len(u) : i < j => h[i] < h[j]
          /\ \A k \in 1..n : k \in P => \E i \in 1..Len(u) : h[i] = k
      BY <2>1, <2>3 DEF Stands
    <3>3. \A k \in 1..Len(r) : k \in P => k \in 1..n
      BY <2>7
    <3>6. \A i \in 1..Len(u) : h[i] \in 1..n /\ u[i] = q[h[i]]
      BY <3>2
    <3>7. 1..n \subseteq 1..Len(r)
      OBVIOUS
    <3>8. h \in [1..Len(u) -> 1..Len(r)]
      BY <3>2, <3>7
    <3>9. \A i \in 1..Len(u) : u[i] = r[h[i]]
      BY <2>5, <3>6
    <3>4. h \in [1..Len(u) -> 1..Len(r)] /\ \A i \in 1..Len(u) : u[i] = r[h[i]]
      BY <3>8, <3>9
    <3>5. Stands(h, r, P, u)
      BY <3>2, <3>3, <3>4 DEF Stands
    <3> QED
      BY <2>4, <3>1, <3>5
  <2> QED
    BY <2>6, <2>7
<1>3. Nat \subseteq S
  <2> HIDE DEF S
  <2> QED
    BY <1>1, <1>2, Induction
<1> QED
  BY <1>3

\* Nothing is left out.
LEMMA SelectedAll ==
  ASSUME NEW T, NEW s \in Seq(T), NEW P, 1..Len(s) \subseteq P
  PROVE  Selected(s, P) = s
<1> DEFINE Holds(r) == 1..Len(r) \subseteq P => Selected(r, P) = r
           S == {n \in Nat : \A r \in Seq(T) : Len(r) = n => Holds(r)}
<1>1. 0 \in S
  <2> SUFFICES ASSUME NEW r \in Seq(T), Len(r) = 0 PROVE Selected(r, P) = r
    OBVIOUS
  <2>1. r = <<>>
    OBVIOUS
  <2> QED
    BY <2>1, SelectedEmpty
<1>2. ASSUME NEW n \in Nat, n \in S PROVE n + 1 \in S
  <2> SUFFICES ASSUME NEW r \in Seq(T), Len(r) = n + 1, 1..Len(r) \subseteq P
               PROVE  Selected(r, P) = r
    OBVIOUS
  <2>1. PICK q \in Seq(T), e \in T : r = Append(q, e) /\ Len(q) = n
    BY LastOfSequence
  <2>2. 1..Len(q) \subseteq P /\ Len(q) + 1 \in P
    BY <2>1
  <2>3. Selected(q, P) = q
    BY <1>2, <2>1, <2>2
  <2> QED
    BY <2>1, <2>2, <2>3, SelectedAppend
<1>3. Nat \subseteq S
  <2> HIDE DEF S
  <2> QED
    BY <1>1, <1>2, Induction
<1> QED
  BY <1>3

-----------------------------------------------------------------------------
(* Where a compaction may cut.                                             *)

\* A set of numbers that is bounded has a greatest member, and one has a least.
LEMMA Greatest ==
  ASSUME NEW n \in Nat, NEW A, A \subseteq 0..n, A # {}
  PROVE  Max(A) \in A /\ \A y \in A : y <= Max(A)
<1> DEFINE T(m) == \A B \in SUBSET (0..m) : B # {} => \E x \in B : \A y \in B : x >= y
           S == {m \in Nat : T(m)}
<1>1. 0 \in S
  <2>1. ASSUME NEW B \in SUBSET (0..0), B # {}
        PROVE  \E x \in B : \A y \in B : x >= y
    <3>1. PICK x \in B : TRUE
      BY <2>1
    <3>2. \A y \in B : y = 0
      OBVIOUS
    <3> QED
      BY <3>1, <3>2
  <2> QED
    BY <2>1
<1>2. ASSUME NEW m \in Nat, m \in S PROVE m + 1 \in S
  <2>1. ASSUME NEW B \in SUBSET (0..(m + 1)), B # {}
        PROVE  \E x \in B : \A y \in B : x >= y
    <3>1. CASE m + 1 \in B
      <4>1. \A y \in B : m + 1 >= y
        OBVIOUS
      <4> QED
        BY <3>1, <4>1
    <3>2. CASE m + 1 \notin B
      <4>1. B \in SUBSET (0..m)
        BY <3>2
      <4> QED
        BY <1>2, <2>1, <4>1
    <3> QED
      BY <3>1, <3>2
  <2>2. T(m + 1) /\ m + 1 \in Nat
    BY <2>1
  <2> QED
    BY <2>2
<1>3. Nat \subseteq S
  <2> HIDE DEF S
  <2> QED
    BY <1>1, <1>2, Induction
<1>4. \E x \in A : \A y \in A : x >= y
  BY <1>3
<1>5. Max(A) \in A /\ \A y \in A : Max(A) >= y
  BY <1>4 DEF Max
<1> QED
  BY <1>5

LEMMA Least ==
  ASSUME NEW A, A \subseteq Nat, A # {}
  PROVE  Min(A) \in A /\ \A y \in A : Min(A) <= y
<1> DEFINE S == {m \in Nat : \A x \in 0..m : x \notin A}
<1>1. SUFFICES \E x \in A : \A y \in A : x =< y
  <2>1. Min(A) \in A /\ \A y \in A : Min(A) =< y
    BY <1>1 DEF Min
  <2> QED
    BY <2>1
<1>2. SUFFICES ASSUME \A x \in A : \E y \in A : ~(x =< y) PROVE FALSE
  OBVIOUS
<1>3. 0 \in S
  <2>1. ASSUME 0 \in A PROVE FALSE
    <3>1. \A y \in A : 0 =< y
      OBVIOUS
    <3> QED
      BY <1>2, <2>1, <3>1
  <2> QED
    BY <2>1
<1>4. ASSUME NEW m \in Nat, m \in S PROVE m + 1 \in S
  <2>1. ASSUME m + 1 \in A PROVE FALSE
    <3>1. PICK y \in A : ~(m + 1 =< y)
      BY <1>2, <2>1
    <3>2. y \in 0..m
      BY <3>1
    <3> QED
      BY <1>4, <3>2
  <2>2. \A x \in 0..(m + 1) : x \in 0..m \/ x = m + 1
    OBVIOUS
  <2> QED
    BY <1>4, <2>1, <2>2
<1>5. Nat \subseteq S
  <2> HIDE DEF S
  <2> QED
    BY <1>3, <1>4, Induction
<1>6. PICK x \in A : x \in S
  BY <1>5
<1>7. x \in 0..x
  OBVIOUS
<1> QED
  BY <1>6, <1>7

LEMMA Positions ==
  ASSUME NEW T, NEW path \in Seq(T)
  PROVE  /\ LatestCompaction(path) \in 0..Len(path)
         /\ \A id : PositionOf(path, id) \in 0..Len(path)
         /\ BoundaryStart(path) \in Nat \ {0}
<1>1. LatestCompaction(path) \in 0..Len(path)
  <2> DEFINE A == {0} \cup {i \in DOMAIN path : IsCompaction(path[i])}
  <2>1. A \subseteq 0..Len(path) /\ A # {} /\ Len(path) \in Nat
    OBVIOUS
  <2> HIDE DEF A
  <2>2. Max(A) \in A
    BY <2>1, Greatest
  <2>3. LatestCompaction(path) = Max(A)
    BY DEF LatestCompaction, A
  <2> QED
    BY <2>1, <2>2, <2>3
<1>2. ASSUME NEW id PROVE PositionOf(path, id) \in 0..Len(path)
  <2> DEFINE A == {0} \cup {i \in DOMAIN path : path[i].id = id}
  <2>1. A \subseteq 0..Len(path) /\ A # {} /\ Len(path) \in Nat
    OBVIOUS
  <2> HIDE DEF A
  <2>2. Max(A) \in A
    BY <2>1, Greatest
  <2>3. PositionOf(path, id) = Max(A)
    BY DEF PositionOf, A
  <2> QED
    BY <2>1, <2>2, <2>3
<1>3. BoundaryStart(path) \in Nat \ {0}
  <2> DEFINE c == LatestCompaction(path)
             k == PositionOf(path, path[c].kept)
  <2>1. c \in Nat /\ k \in Nat
    <3>1. k \in 0..Len(path)
      BY <1>2
    <3> HIDE DEF k
    <3> QED
      BY <1>1, <3>1
  <2>2. BoundaryStart(path) = IF c = 0 THEN 1 ELSE IF k # 0 THEN k ELSE c + 1
    BY DEF BoundaryStart
  <2> HIDE DEF c, k
  <2> QED
    BY <2>1, <2>2
<1> QED
  BY <1>1, <1>2, <1>3

\* A compaction keeps from an entry of the path on, and covers entries of the path
\* and what a compaction on it covers.
LEMMA PreparationsName ==
  ASSUME NEW T, NEW path \in Seq(T), NEW p \in Preparations(path)
  PROVE  /\ \E i \in 1..Len(path) : p.kept = path[i].id
         /\ \A x \in p.covers : \E i \in 1..Len(path) : x = path[i].id \/ x \in path[i].covers
<1>1. PICK cut \in CutPoints(path) :
        p = [kept   |-> path[WithMetadata(path, cut)].id,
             covers |-> CoveredUpTo(path, WithMetadata(path, cut))]
  BY DEF Preparations
<1> DEFINE b == BoundaryStart(path)
           w == WithMetadata(path, cut)
           c == LatestCompaction(path)
<1>2. b \in Nat \ {0} /\ c \in 0..Len(path) /\ Len(path) \in Nat
  BY Positions
<1>3. cut \in b..Len(path)
  BY DEF CutPoints
<1>4. w \in b..cut
  <2> DEFINE A == {i \in b..cut : \A j \in i..(cut - 1) : ~IsVisible(path[j])}
  <2>1. w = Min(A)
    BY DEF WithMetadata
  <2> HIDE DEF b
  <2>2. cut \in A
    BY <1>2, <1>3
  <2>3. A \subseteq b..cut /\ A \subseteq Nat /\ A # {}
    BY <1>2, <1>3, <2>2
  <2> HIDE DEF A, w
  <2>4. Min(A) \in A
    BY <2>3, Least
  <2> QED
    BY <2>1, <2>3, <2>4
<1> HIDE DEF b, w, c
<1>5. w \in 1..Len(path)
  BY <1>2, <1>3, <1>4
<1>6. p.kept = path[w].id /\ p.covers = CoveredUpTo(path, w)
  BY <1>1 DEF w
<1>7. ASSUME NEW x \in CoveredUpTo(path, w)
      PROVE  \E i \in 1..Len(path) : x = path[i].id \/ x \in path[i].covers
  <2>1. \/ \E i \in b..(w - 1) : x = path[i].id
        \/ c # 0 /\ x \in path[c].covers
    BY DEF CoveredUpTo, b, c
  <2>2. b..(w - 1) \subseteq 1..Len(path)
    BY <1>2, <1>5
  <2>3. c # 0 => c \in 1..Len(path)
    BY <1>2
  <2> QED
    BY <2>1, <2>2, <2>3
<1> QED
  BY <1>5, <1>6, <1>7

=============================================================================
