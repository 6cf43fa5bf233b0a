-------------------------- MODULE SequenceLemmas ---------------------------
(***************************************************************************)
(* Induction over numbers, and what the operators on sequences that the    *)
(* models are built from return: where the parts of a sequence are that    *)
(* was put together.                                                       *)
(***************************************************************************)
EXTENDS Integers, Sequences, FiniteSets, FiniteSetsExt, SequencesExt,
        TLAPS, SequenceTheorems, FiniteSetTheorems, WellFoundedInduction

\* Induction over numbers, with a set in the place of the predicate.
LEMMA NumberInduction ==
  ASSUME NEW Good, 0 \in Good, \A n \in Nat : n \in Good => n + 1 \in Good
  PROVE  \A n \in Nat : n \in Good
<1> DEFINE Bad == {n \in Nat : n \notin Good}
<1> SUFFICES ASSUME Bad # {} PROVE FALSE
  OBVIOUS
<1>1. PICK n \in Bad : \A m \in Bad : ~ (<<m, n>> \in OpToRel(<, Nat))
  <2>1. Bad \subseteq Nat  OBVIOUS
  <2> HIDE DEF Bad
  <2> QED  BY <2>1, NatLessThanWellFounded, WFMin
<1>2. n \in Nat /\ n # 0 /\ n - 1 \in Nat /\ n - 1 < n  OBVIOUS
<1>3. n - 1 \in Good
  <2>1. <<n - 1, n>> \in OpToRel(<, Nat)  BY <1>2 DEF OpToRel
  <2> QED  BY <1>1, <1>2, <2>1
<1> QED  BY <1>2, <1>3

\* The function that FlattenSeq is defined by, and what it joins.
IsJoin(g, s, N) == g = [i \in 1 .. N |-> IF i = 1 THEN s[i] ELSE g[i - 1] \o s[i]]
Join(s, N) == CHOOSE g : IsJoin(g, s, N)

LEMMA JoinExists ==
  ASSUME NEW s, NEW N \in Nat
  PROVE  IsJoin(Join(s, N), s, N)
<1> DEFINE Good == {n \in Nat : \E g : IsJoin(g, s, n)}
<1>1. 0 \in Good
  <2>1. IsJoin([i \in 1 .. 0 |-> i], s, 0)  BY DEF IsJoin
  <2> QED  BY <2>1
<1>2. ASSUME NEW n \in Nat, n \in Good PROVE n + 1 \in Good
  <2>1. PICK g : IsJoin(g, s, n)  BY <1>2
  <2> DEFINE h == [i \in 1 .. n + 1 |-> IF i = 1 THEN s[i] ELSE g[i - 1] \o s[i]]
  <2>0. \A i \in 1 .. n : g[i] = IF i = 1 THEN s[i] ELSE g[i - 1] \o s[i]
    BY <2>1, Zenon DEF IsJoin
  <2>2. \A i \in 1 .. n : h[i] = g[i]  BY <2>0
  <2>3. \A i \in 1 .. n + 1 : i = 1 \/ i - 1 \in 1 .. n  OBVIOUS
  <2>4. \A i \in 1 .. n + 1 : h[i] = IF i = 1 THEN s[i] ELSE h[i - 1] \o s[i]
    BY <2>2, <2>3
  <2>5. h = [i \in 1 .. n + 1 |-> IF i = 1 THEN s[i] ELSE h[i - 1] \o s[i]]
    BY <2>4
  <2>6. IsJoin(h, s, n + 1)  BY <2>5 DEF IsJoin
  <2> QED  BY <2>6
<1>3. N \in Good
  <2> HIDE DEF Good
  <2> QED  BY <1>1, <1>2, NumberInduction
<1> QED  BY <1>3 DEF Join

LEMMA JoinDef ==
  ASSUME NEW s, NEW N \in Nat
  PROVE  \A i \in 1 .. N : Join(s, N)[i] = IF i = 1 THEN s[i] ELSE Join(s, N)[i - 1] \o s[i]
<1> DEFINE g == Join(s, N)
<1>1. IsJoin(g, s, N)  BY JoinExists
<1> HIDE DEF g
<1>2. \A i \in 1 .. N : g[i] = IF i = 1 THEN s[i] ELSE g[i - 1] \o s[i]
  BY <1>1, Zenon DEF IsJoin
<1> QED  BY <1>2 DEF g

\* The first n of the sequences s, joined.
Joined(s, n) == IF n = 0 THEN << >> ELSE Join(s, Len(s))[n]

LEMMA JoinedStep ==
  ASSUME NEW S, NEW s \in Seq(Seq(S))
  PROVE  /\ Joined(s, 0) = << >>
         /\ \A n \in 1 .. Len(s) :
              Joined(s, n - 1) \in Seq(S) /\ Joined(s, n) = Joined(s, n - 1) \o s[n]
         /\ Joined(s, Len(s)) \in Seq(S)
<1> DEFINE Good == {n \in Nat : n <= Len(s) => Joined(s, n) \in Seq(S)}
<1>0. Joined(s, 0) = << >> /\ Len(s) \in Nat  BY DEF Joined
<1> DEFINE g == Join(s, Len(s))
<1>1. \A i \in 1 .. Len(s) : g[i] = IF i = 1 THEN s[i] ELSE g[i - 1] \o s[i]
  BY <1>0, JoinDef
<1>2. Joined(s, 1) = g[1] /\ \A n : n # 0 => Joined(s, n) = g[n]  BY DEF Joined
<1> HIDE DEF g
<1>3. \A n \in 1 .. Len(s) : n # 1 => Joined(s, n) = Joined(s, n - 1) \o s[n]
  <2> SUFFICES ASSUME NEW n \in 1 .. Len(s), n # 1
               PROVE  Joined(s, n) = Joined(s, n - 1) \o s[n]
    OBVIOUS
  <2>1. n # 0 /\ n - 1 # 0  BY <1>0
  <2>2. g[n] = g[n - 1] \o s[n]  BY <1>1
  <2> QED  BY <1>2, <2>1, <2>2
<1>4. Len(s) >= 1 => Joined(s, 1) = s[1]
  <2>1. Len(s) >= 1 => 1 \in 1 .. Len(s)  BY <1>0
  <2>2. 1 \in 1 .. Len(s) => g[1] = s[1]  BY <1>1
  <2> QED  BY <1>2, <2>1, <2>2
<1>5. \A n \in 1 .. Len(s) : s[n] \in Seq(S)  OBVIOUS
<1>6. 0 \in Good
  <2>1. << >> \in Seq(S)  BY EmptySeq
  <2> QED  BY <1>0, <2>1
<1>7. ASSUME NEW n \in Nat, n \in Good PROVE n + 1 \in Good
  <2>1. CASE n + 1 <= Len(s) /\ n # 0
    <3> DEFINE m == n + 1
    <3>1. m \in 1 .. Len(s) /\ m # 1 /\ m - 1 = n /\ n <= Len(s)  BY <1>0, <2>1
    <3>2. Joined(s, n) \in Seq(S)  BY <1>7, <3>1
    <3> HIDE DEF m
    <3>3. Joined(s, m) = Joined(s, n) \o s[m]  BY <1>3, <3>1
    <3>4. Joined(s, m) \in Seq(S)  BY <1>5, <3>1, <3>2, <3>3
    <3> QED  BY <3>4 DEF m
  <2>2. CASE n = 0  BY <1>4, <1>5, <2>2
  <2> QED  BY <2>1, <2>2
<1>8. \A n \in 0 .. Len(s) : Joined(s, n) \in Seq(S)
  <2>1. \A n \in Nat : n \in Good
    <3> HIDE DEF Good
    <3> QED  BY <1>6, <1>7, NumberInduction
  <2> QED  BY <2>1
<1>9. ASSUME NEW n \in 1 .. Len(s)
      PROVE  Joined(s, n - 1) \in Seq(S) /\ Joined(s, n) = Joined(s, n - 1) \o s[n]
  <2>1. Joined(s, n - 1) \in Seq(S)  BY <1>8, <1>0
  <2>2. CASE n = 1
    <3>1. n - 1 = 0 /\ s[n] \in Seq(S)  BY <1>5, <2>2
    <3>2. Joined(s, n - 1) = << >>  BY <1>0, <3>1
    <3>3. Joined(s, n) = s[n]  BY <1>0, <1>4, <2>2
    <3>4. << >> \o s[n] = s[n]  BY <3>1, ConcatEmptySeq
    <3> QED  BY <2>1, <3>2, <3>3, <3>4
  <2> QED  BY <1>3, <2>1, <2>2
<1>10. Joined(s, Len(s)) \in Seq(S)
  <2>1. Len(s) \in 0 .. Len(s)  BY <1>0
  <2> QED  BY <1>8, <2>1
<1> QED  BY <1>0, <1>9, <1>10

LEMMA FlattenJoined ==
  ASSUME NEW S, NEW s \in Seq(S)
  PROVE  FlattenSeq(s) = Joined(s, Len(s))
<1>1. CASE Len(s) = 0  BY <1>1 DEF FlattenSeq, Joined
<1>2. CASE Len(s) # 0  BY <1>2 DEF FlattenSeq, Joined, Join, IsJoin
<1> QED  BY <1>1, <1>2

LEMMA ConcatAt ==
  ASSUME NEW S, NEW s \in Seq(S), NEW t \in Seq(S)
  PROVE  /\ s \o t \in Seq(S) /\ Len(s \o t) = Len(s) + Len(t)
         /\ Len(s) \in Nat /\ Len(t) \in Nat
         /\ \A i \in 1 .. Len(s) : (s \o t)[i] = s[i]
         /\ \A i \in 1 .. Len(t) : (s \o t)[Len(s) + i] = t[i]
<1> DEFINE u == s \o t
<1>1. /\ u \in Seq(S) /\ Len(u) = Len(s) + Len(t)
      /\ \A i \in 1 .. Len(s) + Len(t) : u[i] = IF i <= Len(s) THEN s[i] ELSE t[i - Len(s)]
  BY ConcatProperties
<1>2. Len(s) \in Nat /\ Len(t) \in Nat  OBVIOUS
<1> HIDE DEF u
<1>3. \A i \in 1 .. Len(s) : u[i] = s[i]  BY <1>1, <1>2
<1>4. ASSUME NEW i \in 1 .. Len(t) PROVE u[Len(s) + i] = t[i]
  <2>1. /\ Len(s) + i \in 1 .. Len(s) + Len(t) /\ ~ (Len(s) + i <= Len(s))
        /\ (Len(s) + i) - Len(s) = i
    BY <1>2
  <2> QED  BY <1>1, <2>1
<1> QED  BY <1>1, <1>2, <1>3, <1>4 DEF u

\* What is joined begins with what its first sequences are joined to.
LEMMA JoinedPrefix ==
  ASSUME NEW S, NEW s \in Seq(Seq(S))
  PROVE  \A n \in 0 .. Len(s), k \in 0 .. Len(s) : k <= n =>
           /\ Len(Joined(s, k)) \in Nat /\ Len(Joined(s, k)) <= Len(Joined(s, n))
           /\ \A j \in 1 .. Len(Joined(s, k)) : Joined(s, n)[j] = Joined(s, k)[j]
<1> DEFINE Begins(k, n) ==
             /\ Len(Joined(s, k)) <= Len(Joined(s, n))
             /\ \A j \in 1 .. Len(Joined(s, k)) : Joined(s, n)[j] = Joined(s, k)[j]
           Good == {n \in Nat : n <= Len(s) => \A k \in 0 .. n : Begins(k, n)}
<1>1. \A n \in 0 .. Len(s) : Joined(s, n) \in Seq(S) /\ Len(Joined(s, n)) \in Nat
  <2> SUFFICES ASSUME NEW n \in 0 .. Len(s) PROVE Joined(s, n) \in Seq(S)
    OBVIOUS
  <2>1. CASE n = Len(s)  BY <2>1, JoinedStep
  <2>2. CASE n # Len(s)
    <3> DEFINE m == n + 1
    <3>1. m \in 1 .. Len(s) /\ m - 1 = n  BY <2>2
    <3> HIDE DEF m
    <3>2. Joined(s, m - 1) \in Seq(S)  BY <3>1, JoinedStep
    <3> QED  BY <3>1, <3>2
  <2> QED  BY <2>1, <2>2
<1>2. 0 \in Good
  <2>1. \A k \in 0 .. 0 : Begins(k, 0)
    <3>1. \A k \in 0 .. 0 : k = 0  OBVIOUS
    <3>2. Len(Joined(s, 0)) \in Nat  BY <1>1
    <3>3. Begins(0, 0)  BY <3>2
    <3> QED  BY <3>1, <3>3
  <2> QED  BY <2>1
<1>3. ASSUME NEW n \in Nat, n \in Good PROVE n + 1 \in Good
  <2> DEFINE m == n + 1
  <2> SUFFICES ASSUME m <= Len(s), NEW k \in 0 .. m PROVE Begins(k, m)
    OBVIOUS
  <2>1. m \in 1 .. Len(s) /\ m - 1 = n /\ n \in 0 .. Len(s) /\ m \in 0 .. Len(s)
    OBVIOUS
  <2>2. k \in 0 .. n \/ k = m  OBVIOUS
  <2> HIDE DEF m
  <2>3. Joined(s, m) = Joined(s, n) \o s[m]  BY <2>1, JoinedStep
  <2>4. s[m] \in Seq(S) /\ Joined(s, n) \in Seq(S)  BY <1>1, <2>1
  <2>5. Begins(n, m)  BY <2>3, <2>4, ConcatAt
  <2>6. CASE k \in 0 .. n
    <3>1. Begins(k, n)  BY <1>3, <2>1, <2>6
    <3>2. Len(Joined(s, k)) \in Nat /\ Len(Joined(s, n)) \in Nat /\ Len(Joined(s, m)) \in Nat
      BY <1>1, <2>1, <2>6
    <3> QED  BY <2>5, <3>1, <3>2
  <2>7. CASE k = m
    <3>1. Len(Joined(s, m)) \in Nat  BY <1>1, <2>1
    <3> QED  BY <2>7, <3>1
  <2> QED  BY <2>2, <2>6, <2>7
<1>4. \A n \in Nat : n \in Good
  <2> HIDE DEF Good
  <2> QED  BY <1>2, <1>3, NumberInduction
<1> QED  BY <1>1, <1>4

\* Where the k-th of the sequences is.
LEMMA JoinedAt ==
  ASSUME NEW S, NEW s \in Seq(Seq(S)), NEW k \in 1 .. Len(s)
  PROVE  /\ Len(Joined(s, k - 1)) \in Nat
         /\ Len(Joined(s, k)) = Len(Joined(s, k - 1)) + Len(s[k])
         /\ Len(Joined(s, k)) <= Len(Joined(s, Len(s)))
         /\ \A j \in 1 .. Len(s[k]) :
              Joined(s, Len(s))[Len(Joined(s, k - 1)) + j] = s[k][j]
<1> DEFINE before == Joined(s, k - 1)
           upto   == Joined(s, k)
           all    == Joined(s, Len(s))
<1>0. s[k] \in Seq(S)  OBVIOUS
<1>1. before \in Seq(S) /\ upto = before \o s[k]
  <2>1. \A n \in 1 .. Len(s) :
          Joined(s, n - 1) \in Seq(S) /\ Joined(s, n) = Joined(s, n - 1) \o s[n]
    BY JoinedStep
  <2> QED  BY <2>1
<1>2. k \in 0 .. Len(s) /\ Len(s) \in 0 .. Len(s) /\ k <= Len(s)  OBVIOUS
<1>3. /\ Len(upto) \in Nat /\ Len(upto) <= Len(all)
      /\ \A j \in 1 .. Len(upto) : all[j] = upto[j]
  BY <1>2, JoinedPrefix
<1> HIDE DEF before, upto, all
<1>4. /\ Len(upto) = Len(before) + Len(s[k]) /\ Len(before) \in Nat /\ Len(s[k]) \in Nat
      /\ \A i \in 1 .. Len(s[k]) : upto[Len(before) + i] = s[k][i]
  BY <1>0, <1>1, ConcatAt
<1>5. ASSUME NEW j \in 1 .. Len(s[k]) PROVE all[Len(before) + j] = s[k][j]
  <2>1. Len(before) + j \in 1 .. Len(upto)  BY <1>4
  <2> QED  BY <1>3, <1>4, <2>1
<1> QED  BY <1>3, <1>4, <1>5 DEF before, upto, all

\* s is in v, behind its first n elements.
At(v, n, s) ==
  /\ n \in Nat /\ Len(s) \in Nat /\ n + Len(s) <= Len(v)
  /\ \A i \in 1 .. Len(s) : v[n + i] = s[i]

LEMMA CatAt ==
  ASSUME NEW S, NEW s \in Seq(S), NEW t \in Seq(S)
  PROVE  /\ s \o t \in Seq(S) /\ Len(s \o t) = Len(s) + Len(t)
         /\ Len(s) \in Nat /\ Len(t) \in Nat
         /\ At(s \o t, 0, s) /\ At(s \o t, Len(s), t)
BY ConcatAt DEF At

LEMMA AtFirst ==
  ASSUME NEW v, NEW s, At(v, 0, s)
  PROVE  Len(s) \in Nat /\ Len(s) <= Len(v) /\ \A i \in 1 .. Len(s) : v[i] = s[i]
<1>1. Len(s) \in Nat /\ 0 + Len(s) <= Len(v) /\ \A i \in 1 .. Len(s) : v[0 + i] = s[i]
  BY DEF At
<1>2. 0 + Len(s) = Len(s) /\ \A i \in 1 .. Len(s) : 0 + i = i  BY <1>1
<1> QED  BY <1>1, <1>2

LEMMA AtIn ==
  ASSUME NEW u, NEW v, NEW s, NEW n, NEW m, At(u, n, v), At(v, m, s), Len(u) \in Nat
  PROVE  At(u, n + m, s)
<1>1. n \in Nat /\ m \in Nat /\ Len(s) \in Nat /\ Len(v) \in Nat  BY DEF At
<1>2. n + m \in Nat /\ (n + m) + Len(s) <= Len(u)  BY <1>1 DEF At
<1>3. ASSUME NEW i \in 1 .. Len(s) PROVE u[(n + m) + i] = s[i]
  <2>1. m + i \in 1 .. Len(v) /\ n + (m + i) = (n + m) + i  BY <1>1 DEF At
  <2>2. v[m + i] = s[i] /\ u[n + (m + i)] = v[m + i]  BY <2>1 DEF At
  <2> QED  BY <2>1, <2>2
<1> QED  BY <1>1, <1>2, <1>3 DEF At

\* Three sequences, one after the other.
Three(s, t, u) == s \o t \o u

LEMMA Around ==
  ASSUME NEW S, NEW s \in Seq(S), NEW t \in Seq(S), NEW u \in Seq(S)
  PROVE  /\ Three(s, t, u) \in Seq(S) /\ Len(Three(s, t, u)) = Len(s) + Len(t) + Len(u)
         /\ Len(s) \in Nat /\ Len(t) \in Nat /\ Len(u) \in Nat
         /\ At(Three(s, t, u), 0, s) /\ At(Three(s, t, u), Len(s), t)
         /\ At(Three(s, t, u), Len(s) + Len(t), u)
<1> DEFINE st  == s \o t
           all == st \o u
<1>1. /\ st \in Seq(S) /\ Len(st) = Len(s) + Len(t) /\ Len(s) \in Nat /\ Len(t) \in Nat
      /\ At(st, 0, s) /\ At(st, Len(s), t)
  BY CatAt
<1> HIDE DEF st
<1>2. /\ all \in Seq(S) /\ Len(all) = Len(st) + Len(u) /\ Len(u) \in Nat /\ Len(all) \in Nat
      /\ At(all, 0, st) /\ At(all, Len(st), u)
  BY <1>1, CatAt
<1>3. all = Three(s, t, u)  BY DEF all, st, Three
<1> HIDE DEF all
<1>4. At(all, 0 + 0, s) /\ At(all, 0 + Len(s), t)  BY <1>1, <1>2, AtIn
<1>5. 0 + 0 = 0 /\ 0 + Len(s) = Len(s)  BY <1>1
<1>6. At(all, 0, s) /\ At(all, Len(s), t)  BY <1>4, <1>5
<1> QED  BY <1>1, <1>2, <1>3, <1>6

LEMMA Tuples ==
  ASSUME NEW S, NEW d \in S, NEW e \in S, NEW f \in S
  PROVE  /\ <<d>> \in Seq(S) /\ Len(<<d>>) = 1 /\ <<d>>[1] = d
         /\ <<d, e>> \in Seq(S) /\ Len(<<d, e>>) = 2 /\ <<d, e>>[1] = d /\ <<d, e>>[2] = e
         /\ <<d, e, f>> \in Seq(S) /\ Len(<<d, e, f>>) = 3
         /\ <<d, e, f>>[1] = d /\ <<d, e, f>>[2] = e /\ <<d, e, f>>[3] = f
OBVIOUS

LEMMA MinIn ==
  ASSUME NEW S \in SUBSET Nat, S # {}
  PROVE  Min(S) \in S /\ \A y \in S : Min(S) <= y
<1>1. PICK n \in S : \A m \in S : ~ (<<m, n>> \in OpToRel(<, Nat))
  BY NatLessThanWellFounded, WFMin
<1>2. \A m \in S : n <= m
  <2> SUFFICES ASSUME NEW m \in S, ~ (n <= m) PROVE FALSE
    OBVIOUS
  <2>1. m < n /\ m \in Nat /\ n \in Nat  OBVIOUS
  <2>2. <<m, n>> \in OpToRel(<, Nat)  BY <2>1 DEF OpToRel
  <2> QED  BY <1>1, <2>2
<1> QED  BY <1>2 DEF Min

LEMMA MaxIn ==
  ASSUME NEW N \in Nat, NEW S \in SUBSET (0 .. N), S # {}
  PROVE  Max(S) \in S /\ \A y \in S : y <= Max(S)
<1> DEFINE Away == {N - y : y \in S}
<1>1. Away \in SUBSET Nat /\ Away # {}
  <2>1. \A y \in S : y \in 0 .. N  OBVIOUS
  <2>2. \A y \in S : N - y \in Nat  BY <2>1
  <2>3. PICK y \in S : TRUE  OBVIOUS
  <2>4. N - y \in Away  OBVIOUS
  <2> QED  BY <2>2, <2>4
<1>2. PICK x0 \in S : N - x0 = Min(Away)
  <2>1. Min(Away) \in Away
    <3> HIDE DEF Away
    <3> QED  BY <1>1, MinIn
  <2> QED  BY <2>1
<1>3. \A y \in S : N - x0 <= N - y
  <2>1. \A d \in Away : Min(Away) <= d
    <3> HIDE DEF Away
    <3> QED  BY <1>1, MinIn
  <2> QED  BY <1>2, <2>1
<1>4. \A y \in S : y <= x0  BY <1>3
<1> QED  BY <1>4 DEF Max

LEMMA SubSeqGrows ==
  ASSUME NEW S, NEW s \in Seq(S), NEW m \in Nat \ {0}, NEW n \in Nat, m - 1 <= n, n < Len(s)
  PROVE  Append(SubSeq(s, m, n), s[n + 1]) = SubSeq(s, m, n + 1)
<1> DEFINE k == n + 1
           u == SubSeq(s, m, n)
<1>0. Len(s) \in Nat  OBVIOUS
<1>1. m \in 1 .. Len(s) /\ k \in m .. Len(s) /\ k - 1 = n  BY <1>0
<1>2. SubSeq(s, m, k) = SubSeq(s, m, k - 1) \o <<s[k]>>
  <2> HIDE DEF k
  <2> QED  BY <1>1, SubSeqRecursiveSecond
<1>3. u \in Seq(S) /\ s[k] \in S
  <2>1. \A i \in 1 .. Len(s) : s[i] \in S  BY ElementOfSeq
  <2>2. \A i \in m .. n : s[i] \in S  BY <2>1, <1>0
  <2>3. m \in Int /\ n \in Int /\ k \in 1 .. Len(s)  BY <1>1
  <2>4. SubSeq(s, m, n) \in Seq(S)  BY <2>2, <2>3, SubSeqProperties
  <2> QED  BY <2>1, <2>3, <2>4
<1>4. Append(u, s[k]) = u \o <<s[k]>>
  <2> HIDE DEF u, k
  <2> QED  BY <1>3, AppendIsConcat
<1>5. SubSeq(s, m, k - 1) = u  BY <1>1
<1> QED  BY <1>2, <1>4, <1>5

LEMMA PrefixAt ==
  ASSUME NEW S, NEW s \in Seq(S), NEW t \in Seq(S)
  PROVE  IsPrefix(s, t) <=> Len(s) <= Len(t) /\ \A i \in 1 .. Len(s) : s[i] = t[i]
<1>1. Len(s) \in Nat /\ Len(t) \in Nat  OBVIOUS
<1>2. CASE Len(s) <= Len(t)
  <2> DEFINE n == Len(s)
             a == SubSeq(s, 1, n)
             b == SubSeq(t, 1, n)
  <2>1. (\A i \in 1 .. n : s[i] \in S) /\ (\A i \in 1 .. n : t[i] \in S)
    BY <1>1, <1>2, ElementOfSeq
  <2>2. n \in Nat /\ 1 \in Int /\ n \in Int  BY <1>1
  <2> HIDE DEF n
  <2>3. /\ a \in Seq(S) /\ b \in Seq(S)
        /\ Len(a) = (IF 1 <= n THEN n - 1 + 1 ELSE 0) /\ Len(b) = (IF 1 <= n THEN n - 1 + 1 ELSE 0)
        /\ \A i \in 1 .. n - 1 + 1 : a[i] = s[1 + i - 1] /\ b[i] = t[1 + i - 1]
    BY <2>1, <2>2, SubSeqProperties
  <2> HIDE DEF a, b
  <2>4. Len(a) = n /\ Len(b) = n  BY <2>2, <2>3
  <2>5. \A i \in 1 .. n : i \in 1 .. n - 1 + 1 /\ 1 + i - 1 = i  BY <2>2
  <2>6. \A i \in 1 .. n : a[i] = s[i] /\ b[i] = t[i]  BY <2>3, <2>5
  <2>7. a = b <=> \A i \in 1 .. n : s[i] = t[i]
    <3>1. ASSUME \A i \in 1 .. n : s[i] = t[i] PROVE a = b
      <4>1. \A i \in 1 .. Len(a) : a[i] = b[i]  BY <2>4, <2>6, <3>1
      <4> QED  BY <2>3, <2>4, <4>1, SeqEqual
    <3>2. ASSUME a = b PROVE \A i \in 1 .. n : s[i] = t[i]
      BY <2>6, <3>2
    <3> QED  BY <3>1, <3>2
  <2> QED  BY <1>2, <2>7 DEF IsPrefix, a, b, n
<1>3. CASE ~ (Len(s) <= Len(t))  BY <1>3 DEF IsPrefix
<1> QED  BY <1>2, <1>3

LEMMA PrefixSelf ==
  ASSUME NEW S, NEW s \in Seq(S)
  PROVE  IsPrefix(s, s)
<1>1. Len(s) <= Len(s)  OBVIOUS
<1> QED  BY <1>1, PrefixAt

LEMMA PrefixSub ==
  ASSUME NEW S, NEW s \in Seq(S), NEW n \in 0 .. Len(s)
  PROVE  IsPrefix(SubSeq(s, 1, n), s) /\ SubSeq(s, 1, n) \in Seq(S) /\ Len(SubSeq(s, 1, n)) = n
<1> DEFINE a == SubSeq(s, 1, n)
<1>0. Len(s) \in Nat /\ n \in Int /\ 1 \in Int /\ n \in Nat /\ n <= Len(s)  OBVIOUS
<1>1. \A i \in 1 .. n : s[i] \in S  BY <1>0, ElementOfSeq
<1>2. /\ a \in Seq(S) /\ Len(a) = (IF 1 <= n THEN n - 1 + 1 ELSE 0)
      /\ \A i \in 1 .. n - 1 + 1 : a[i] = s[1 + i - 1]
  BY <1>0, <1>1, SubSeqProperties
<1> HIDE DEF a
<1>3. Len(a) = n  BY <1>0, <1>2
<1>4. \A i \in 1 .. n : i \in 1 .. n - 1 + 1 /\ 1 + i - 1 = i  BY <1>0
<1>5. \A i \in 1 .. Len(a) : a[i] = s[i]  BY <1>2, <1>3, <1>4
<1>6. IsPrefix(a, s)  BY <1>0, <1>2, <1>3, <1>5, PrefixAt
<1> QED  BY <1>2, <1>3, <1>6 DEF a

LEMMA PrefixAppend ==
  ASSUME NEW S, NEW s \in Seq(S), NEW t \in Seq(S), NEW e \in S, IsPrefix(s, t)
  PROVE  IsPrefix(s, Append(t, e))
<1> DEFINE u == Append(t, e)
<1>1. u \in Seq(S) /\ Len(u) = Len(t) + 1 /\ \A i \in 1 .. Len(t) : u[i] = t[i]
  BY AppendProperties
<1> HIDE DEF u
<1>2. Len(s) \in Nat /\ Len(t) \in Nat  OBVIOUS
<1>3. Len(s) <= Len(t) /\ \A i \in 1 .. Len(s) : s[i] = t[i]  BY PrefixAt
<1>4. Len(s) <= Len(u) /\ \A i \in 1 .. Len(s) : s[i] = u[i]  BY <1>1, <1>2, <1>3
<1>5. IsPrefix(s, u)  BY <1>1, <1>4, PrefixAt
<1> QED  BY <1>5 DEF u

LEMMA ConcatFront ==
  ASSUME NEW S, NEW s \in Seq(S), NEW t \in Seq(S)
  PROVE  SubSeq(s \o t, 1, Len(s)) = s
<1> DEFINE u == s \o t
<1>1. /\ u \in Seq(S) /\ Len(u) = Len(s) + Len(t) /\ Len(s) \in Nat /\ Len(t) \in Nat
      /\ \A i \in 1 .. Len(s) : u[i] = s[i]
  BY ConcatAt
<1> HIDE DEF u
<1>2. Len(s) <= Len(u)  BY <1>1
<1>3. IsPrefix(s, u)  BY <1>1, <1>2, PrefixAt
<1>4. SubSeq(s, 1, Len(s)) = s  BY SubSeqFull
<1>5. SubSeq(u, 1, Len(s)) = s  BY <1>3, <1>4 DEF IsPrefix
<1> QED  BY <1>5 DEF u

=============================================================================
