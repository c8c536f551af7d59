------------------------------ MODULE DataFacts ------------------------------
(***************************************************************************)
(* Facts about data that the proofs of several components need.            *)
(*                                                                         *)
(* Induction is a statement about sets of naturals: no operator is a       *)
(* parameter, so each use names the set of the numbers for which its claim *)
(* holds.  It is what the proofs about recursive functions rest on.        *)
(***************************************************************************)
EXTENDS Integers, Sequences, WellFoundedInduction, TLAPS

(* A step that takes longer than the usual limits is given more time, so   *)
(* that what is proved does not depend on how fast the machine is.         *)
USE SMT, Zenon, SMTT(60), ZenonT(60)

(* A set of naturals that is not empty has a least element. *)
LEMMA LeastNatural ==
    ASSUME NEW S, S \subseteq Nat, S # {}
    PROVE  \E x \in S : \A y \in S : x <= y
<1>. DEFINE R == OpToRel(<, Nat)
<1>1. IsWellFoundedOn(R, Nat)  BY NatLessThanWellFounded
<1>2. \A x, y \in Nat : x < y => <<x, y>> \in R  BY DEF OpToRel
<1>. HIDE DEF R
<1>3. PICK x \in S : \A y \in S : ~ (<<y, x>> \in R)  BY <1>1, WFMin
<1>4. \A y \in S : ~ (y < x)  BY <1>2, <1>3
<1>5. \A y \in S : x <= y  BY <1>4
<1>. QED BY <1>5

LEMMA SetInduction ==
    ASSUME NEW S, 0 \in S, \A n \in Nat : n \in S => n + 1 \in S
    PROVE  Nat \subseteq S
<1>. SUFFICES ASSUME Nat \ S # {} PROVE FALSE  OBVIOUS
<1>1. PICK x \in Nat \ S : \A y \in Nat \ S : x <= y  BY LeastNatural
<1>2. x # 0 /\ x - 1 \in Nat  BY <1>1
<1>3. x - 1 \in S  BY <1>1, <1>2
<1>. QED BY <1>2, <1>3

(* Induction up to a bound. *)
LEMMA BoundedInduction ==
    ASSUME NEW S, NEW m \in Nat, 0 \in S, \A n \in 0 .. m - 1 : n \in S => n + 1 \in S
    PROVE  0 .. m \subseteq S
<1>. DEFINE T == {n \in Nat : n <= m => n \in S}
<1>1. 0 \in T  OBVIOUS
<1>2. \A n \in Nat : n \in T => n + 1 \in T  OBVIOUS
<1>. HIDE DEF T
<1>3. Nat \subseteq T  BY <1>1, <1>2, SetInduction
<1>. QED BY <1>3 DEF T

(* A function applied again and again. *)
IsOrbit(h, S, F, x) == /\ h \in [Nat -> S] /\ h[0] = x
                       /\ \A n \in Nat : h[n+1] = F[h[n]]

LEMMA Iteration ==
    ASSUME NEW S, NEW F \in [S -> S], NEW x \in S
    PROVE  \E h : IsOrbit(h, S, F, x)
<1>. DEFINE IsRun(h, n) == /\ h \in [0 .. n -> S] /\ h[0] = x
                           /\ \A k \in 0 .. n - 1 : h[k+1] = F[h[k]]
<1>1. \A n \in Nat : \E h : IsRun(h, n)
  <2>. DEFINE T == {n \in Nat : \E h : IsRun(h, n)}
  <2>1. 0 \in T
    <3>1. IsRun([k \in 0 .. 0 |-> x], 0)  OBVIOUS
    <3>. HIDE DEF IsRun
    <3>. QED BY <3>1
  <2>2. ASSUME NEW n \in Nat, n \in T PROVE n + 1 \in T
    <3>. HIDE DEF IsRun
    <3>1. PICK h : IsRun(h, n)  BY <2>2
    <3>. DEFINE g == [k \in 0 .. n + 1 |-> IF k <= n THEN h[k] ELSE F[h[n]]]
    <3>2. IsRun(g, n + 1)
      <4>1. /\ h \in [0 .. n -> S] /\ h[0] = x
            /\ \A k \in 0 .. n - 1 : h[k+1] = F[h[k]]
        BY <3>1 DEF IsRun
      <4>2. g \in [0 .. n + 1 -> S]  BY <4>1
      <4>3. g[0] = x  BY <4>1
      <4>4. \A k \in 0 .. n : g[k+1] = F[g[k]]
        <5>. TAKE k \in 0 .. n
        <5>1. CASE k = n  BY <5>1, <4>1
        <5>2. CASE k # n
          <6>1. k \in 0 .. n - 1 /\ k + 1 <= n  BY <5>2
          <6>. QED BY <6>1, <4>1
        <5>. QED BY <5>1, <5>2
      <4>5. (n + 1) - 1 = n  OBVIOUS
      <4>. HIDE DEF g
      <4>. QED BY <4>2, <4>3, <4>4, <4>5 DEF IsRun
    <3>. QED BY <3>2
  <2>. HIDE DEF T
  <2>3. Nat \subseteq T  BY <2>1, <2>2, SetInduction
  <2>. QED BY <2>3 DEF T
<1>2. ASSUME NEW g, NEW h, NEW m \in Nat, NEW n \in Nat, m <= n, IsRun(g, m), IsRun(h, n)
      PROVE  g[m] = h[m]
  <2>. DEFINE T == {k \in Nat : g[k] = h[k]}
  <2>1. 0 \in T  BY <1>2
  <2>2. ASSUME NEW k \in 0 .. m - 1, k \in T PROVE k + 1 \in T
    <3>1. k \in 0 .. n - 1  BY <1>2
    <3>. QED BY <2>2, <3>1, <1>2
  <2>. HIDE DEF T
  <2>3. 0 .. m \subseteq T  BY <2>1, <2>2, BoundedInduction
  <2>. QED BY <2>3 DEF T
<1>. DEFINE R(n) == CHOOSE h : IsRun(h, n)
            H == [n \in Nat |-> R(n)[n]]
<1>. HIDE DEF IsRun
<1>3. \A n \in Nat : IsRun(R(n), n)  BY <1>1
<1>. HIDE DEF R
<1>4. \A n \in Nat : R(n)[n] \in S  BY <1>3 DEF IsRun
<1>5. \A n \in Nat : R(n+1)[n] = R(n)[n]
  <2>. TAKE n \in Nat
  <2>1. n + 1 \in Nat /\ n <= n + 1  OBVIOUS
  <2>2. IsRun(R(n), n) /\ IsRun(R(n+1), n+1)  BY <1>3, <2>1
  <2>. QED BY <1>2, <2>1, <2>2
<1>6. \A n \in Nat : R(n+1)[n+1] = F[R(n+1)[n]]
  <2>. TAKE n \in Nat
  <2>1. IsRun(R(n+1), n+1)  BY <1>3
  <2>2. n \in 0 .. (n + 1) - 1  OBVIOUS
  <2>. QED BY <2>1, <2>2 DEF IsRun
<1>7. H \in [Nat -> S]  BY <1>4
<1>8. H[0] = x  BY <1>3 DEF IsRun
<1>9. \A n \in Nat : H[n+1] = F[H[n]]
  <2>. TAKE n \in Nat
  <2>1. H[n+1] = R(n+1)[n+1] /\ H[n] = R(n)[n]  OBVIOUS
  <2>. QED BY <2>1, <1>5, <1>6
<1>. HIDE DEF H
<1>. QED BY <1>7, <1>8, <1>9 DEF IsOrbit

(* The running sums of a sequence of integers. *)
LEMMA RunningSum ==
    ASSUME NEW c \in Int, NEW f \in [Nat -> Int]
    PROVE  \E h \in [Nat -> Int] : h[0] = c /\ \A n \in Nat : h[n+1] = h[n] + f[n]
<1>. DEFINE S == Nat \X Int
            F == [p \in S |-> <<p[1] + 1, p[2] + f[p[1]]>>]
<1>1. F \in [S -> S] /\ <<0, c>> \in S  OBVIOUS
<1>2. \A n \in Nat, v \in Int : F[<<n, v>>] = <<n + 1, v + f[n]>>  OBVIOUS
<1>3. \A p \in S : \E n \in Nat, v \in Int : p = <<n, v>>  OBVIOUS
<1>4. \A p \in S : p[2] \in Int  OBVIOUS
<1>. HIDE DEF F, S
<1>5. PICK g \in [Nat -> S] : g[0] = <<0, c>> /\ \A n \in Nat : g[n+1] = F[g[n]]
  <2>. DEFINE x == <<0, c>>
  <2>1. x \in S  BY <1>1
  <2>. HIDE DEF x
  <2>2. \E g : IsOrbit(g, S, F, x)  BY <1>1, <2>1, Iteration
  <2>. QED BY <2>2 DEF x, IsOrbit
<1>. DEFINE T == {n \in Nat : \E v \in Int : g[n] = <<n, v>>}
<1>6. 0 \in T  BY <1>5
<1>7. ASSUME NEW n \in Nat, n \in T PROVE n + 1 \in T
  <2>1. PICK v \in Int : g[n] = <<n, v>>  BY <1>7
  <2>2. g[n+1] = <<n + 1, v + f[n]>>  BY <2>1, <1>2, <1>5
  <2>3. v + f[n] \in Int  OBVIOUS
  <2>. QED BY <2>2, <2>3
<1>. HIDE DEF T
<1>8. Nat \subseteq T  BY <1>6, <1>7, SetInduction
<1>. DEFINE h == [n \in Nat |-> g[n][2]]
<1>9. h \in [Nat -> Int]
  <2>1. \A n \in Nat : g[n] \in S  BY <1>5
  <2>. QED BY <2>1, <1>4
<1>10. h[0] = c  BY <1>5
<1>11. \A n \in Nat : h[n+1] = h[n] + f[n]
  <2>. TAKE n \in Nat
  <2>1. PICK v \in Int : g[n] = <<n, v>>  BY <1>8 DEF T
  <2>2. g[n+1] = <<n + 1, v + f[n]>>  BY <2>1, <1>2, <1>5
  <2>3. h[n+1] = g[n+1][2] /\ h[n] = g[n][2]  OBVIOUS
  <2>. QED BY <2>1, <2>2, <2>3
<1>. HIDE DEF h
<1>. QED BY <1>9, <1>10, <1>11

(***************************************************************************)
(* Recursive functions of a number: that a table that solves the recursion *)
(* exists is what must be shown before anything is known of the function.  *)
(***************************************************************************)

(* A table of place values to a base. *)
IsPlaces(h, b, m) == h = [n \in 0 .. m |-> IF n = 0 THEN 1 ELSE b * h[n-1]]

LEMMA PlacesExist ==
    ASSUME NEW b \in Nat \ {0}, NEW m \in Nat
    PROVE  \E h : IsPlaces(h, b, m)
<1>. DEFINE S == Nat \ {0}
            F == [p \in S |-> b * p]
<1>0. \A p \in S : b * p \in S  OBVIOUS
<1>1. F \in [S -> S] /\ 1 \in S  BY <1>0
<1>2. \A p \in S : F[p] = b * p  OBVIOUS
<1>. HIDE DEF F, S
<1>3. PICK g : IsOrbit(g, S, F, 1)  BY <1>1, Iteration
<1>4. \A n \in Nat : g[n] \in S /\ g[n+1] = b * g[n]  BY <1>2, <1>3 DEF IsOrbit
<1>. DEFINE h == [n \in 0 .. m |-> g[n]]
<1>5. ASSUME NEW n \in 0 .. m PROVE h[n] = IF n = 0 THEN 1 ELSE b * h[n-1]
  <2>1. CASE n = 0  BY <2>1, <1>3 DEF IsOrbit
  <2>2. CASE n # 0
    <3>1. n - 1 \in Nat /\ n - 1 \in 0 .. m /\ (n - 1) + 1 = n  BY <2>2
    <3>2. g[n] = b * g[n-1]  BY <3>1, <1>4
    <3>. QED BY <2>2, <3>1, <3>2
  <2>. QED BY <2>1, <2>2
<1>6. DOMAIN h = 0 .. m /\ h = [n \in DOMAIN h |-> h[n]]  OBVIOUS
<1>. HIDE DEF h
<1>7. h = [n \in 0 .. m |-> IF n = 0 THEN 1 ELSE b * h[n-1]]  BY <1>5, <1>6
<1>. QED BY <1>7 DEF IsPlaces

LEMMA PlacesFacts ==
    ASSUME NEW b \in Nat \ {0}, NEW m \in Nat, NEW h, IsPlaces(h, b, m)
    PROVE  /\ h[0] = 1
           /\ \A n \in 0 .. m : h[n] \in Nat \ {0}
           /\ \A n \in 0 .. m - 1 : h[n+1] = b * h[n]
<1>1. \A n \in 0 .. m : h[n] = IF n = 0 THEN 1 ELSE b * h[n-1]  BY DEF IsPlaces
<1>2. h[0] = 1  BY <1>1
<1>3. ASSUME NEW n \in 0 .. m - 1 PROVE h[n+1] = b * h[n]
  <2>1. n + 1 \in 0 .. m /\ n + 1 # 0 /\ (n + 1) - 1 = n  OBVIOUS
  <2>. QED BY <2>1, <1>1
<1>. DEFINE T == {n \in Nat : h[n] \in Nat \ {0}}
<1>4. 0 \in T  BY <1>2
<1>5. ASSUME NEW n \in 0 .. m - 1, n \in T PROVE n + 1 \in T
  <2>1. b * h[n] \in Nat \ {0}  BY <1>5
  <2>. QED BY <2>1, <1>3
<1>. HIDE DEF T
<1>6. 0 .. m \subseteq T  BY <1>4, <1>5, BoundedInduction
<1>. QED BY <1>2, <1>3, <1>6 DEF T

(* A table of partial sums.                                               *)
IsSum(h, c, f, m) == h = [n \in 0 .. m |-> IF n = 0 THEN c ELSE h[n-1] + f[n-1]]

LEMMA SumExists ==
    ASSUME NEW c \in Int, NEW m \in Nat, NEW f, \A n \in 0 .. m - 1 : f[n] \in Int
    PROVE  \E h : IsSum(h, c, f, m)
<1>. DEFINE e == [n \in Nat |-> IF n < m THEN f[n] ELSE 0]
<1>1. e \in [Nat -> Int]
  <2>1. ASSUME NEW n \in Nat PROVE (IF n < m THEN f[n] ELSE 0) \in Int
    <3>1. CASE n < m
      <4>1. n \in 0 .. m - 1  BY <3>1
      <4>. QED BY <4>1, <3>1
    <3>. QED BY <3>1
  <2>. QED BY <2>1
<1>2. \A n \in 0 .. m - 1 : e[n] = f[n]  OBVIOUS
<1>. HIDE DEF e
<1>3. PICK g \in [Nat -> Int] : g[0] = c /\ \A n \in Nat : g[n+1] = g[n] + e[n]
  BY <1>1, RunningSum
<1>. DEFINE h == [n \in 0 .. m |-> g[n]]
<1>4. ASSUME NEW n \in 0 .. m PROVE h[n] = IF n = 0 THEN c ELSE h[n-1] + f[n-1]
  <2>1. CASE n = 0  BY <2>1, <1>3
  <2>2. CASE n # 0
    <3>1. n - 1 \in Nat /\ n - 1 \in 0 .. m - 1 /\ n - 1 \in 0 .. m /\ (n - 1) + 1 = n  BY <2>2
    <3>2. g[n] = g[n-1] + f[n-1]  BY <3>1, <1>2, <1>3
    <3>. QED BY <2>2, <3>1, <3>2
  <2>. QED BY <2>1, <2>2
<1>5. DOMAIN h = 0 .. m /\ h = [n \in DOMAIN h |-> h[n]]  OBVIOUS
<1>. HIDE DEF h
<1>6. h = [n \in 0 .. m |-> IF n = 0 THEN c ELSE h[n-1] + f[n-1]]  BY <1>4, <1>5
<1>. QED BY <1>6 DEF IsSum

LEMMA SumFacts ==
    ASSUME NEW c \in Int, NEW m \in Nat, NEW f, NEW h, IsSum(h, c, f, m),
           \A n \in 0 .. m - 1 : f[n] \in Int
    PROVE  /\ h[0] = c
           /\ \A n \in 0 .. m : h[n] \in Int
           /\ \A n \in 0 .. m - 1 : h[n+1] = h[n] + f[n]
<1>1. \A n \in 0 .. m : h[n] = IF n = 0 THEN c ELSE h[n-1] + f[n-1]  BY DEF IsSum
<1>2. h[0] = c  BY <1>1
<1>3. ASSUME NEW n \in 0 .. m - 1 PROVE h[n+1] = h[n] + f[n]
  <2>1. n + 1 \in 0 .. m /\ n + 1 # 0 /\ (n + 1) - 1 = n  OBVIOUS
  <2>. QED BY <2>1, <1>1
<1>. DEFINE T == {n \in Nat : h[n] \in Int}
<1>4. 0 \in T  BY <1>2
<1>5. ASSUME NEW n \in 0 .. m - 1, n \in T PROVE n + 1 \in T
  <2>1. h[n] + f[n] \in Int  BY <1>5
  <2>. QED BY <2>1, <1>3
<1>. HIDE DEF T
<1>6. 0 .. m \subseteq T  BY <1>4, <1>5, BoundedInduction
<1>. QED BY <1>2, <1>3, <1>6 DEF T

(***************************************************************************)
(* Division                                                                *)
(***************************************************************************)

(* Quotient and remainder, and the pair of them that is the only one. *)
LEMMA Euclid ==
    ASSUME NEW x \in Int, NEW m \in Nat \ {0}
    PROVE  /\ x \div m \in Int /\ x % m \in 0 .. m - 1
           /\ x = m * (x \div m) + (x % m)
<1>1. x \div m \in Int  OBVIOUS
<1>2. x % m \in 0 .. m - 1  OBVIOUS
<1>3. x = m * (x \div m) + (x % m)  OBVIOUS
<1>. QED BY <1>1, <1>2, <1>3

LEMMA NatQuotient ==
    ASSUME NEW x \in Nat, NEW m \in Nat \ {0}
    PROVE  x \div m \in Nat
OBVIOUS

LEMMA QuotientIs ==
    ASSUME NEW q \in Int, NEW m \in Nat \ {0}, NEW r \in 0 .. m - 1
    PROVE  /\ (m * q + r) \div m = q
           /\ (m * q + r) % m = r
<1>1. (m * q + r) \div m = q  OBVIOUS
<1>2. (m * q + r) % m = r OBVIOUS
<1>. QED BY <1>1, <1>2

LEMMA Small ==
    ASSUME NEW m \in Nat \ {0}, NEW r \in 0 .. m - 1
    PROVE  r % m = r /\ r \div m = 0
OBVIOUS

(* A remainder may be taken before or after adding. *)
LEMMA ModAdd ==
    ASSUME NEW x \in Int, NEW n \in Int, NEW m \in Nat \ {0}
    PROVE  ((x % m) + n) % m = (x + n) % m
<1>. DEFINE q == x \div m
            r == x % m
            y == r + n
            p == y \div m
            s == y % m
<1>1. q \in Int /\ r \in Int /\ x = m * q + r  BY Euclid
<1>2. y \in Int BY <1>1
<1>. HIDE DEF q, r, y
<1>3. p \in Int /\ s \in 0 .. m - 1 /\ y = m * p + s  BY <1>2, Euclid
<1>. HIDE DEF p, s
<1>4. q + p \in Int /\ x + n = m * (q + p) + s
  <2>1. x + n = (m * q) + y BY <1>1, <1>2 DEF y
  <2>2. \A a, b, c \in Int : a * (b + c) = a * b + a * c  OBVIOUS
  <2>3. m * (q + p) = m * q + m * p BY <1>1, <1>3, <2>2
  <2>. QED BY <2>1, <2>3, <1>1, <1>3
<1>5. (m * (q + p) + s) % m = s  BY <1>3, <1>4, QuotientIs
<1>. QED BY <1>4, <1>5 DEF s, y, r

(***************************************************************************)
(* Sequences                                                               *)
(***************************************************************************)

(* A sequence, of whatever elements. *)
Elements(s) == {s[k] : k \in 1 .. Len(s)}
IsSeq(s) == s \in Seq(Elements(s))

LEMMA IntoSeq ==
    ASSUME NEW S, NEW s \in Seq(S)
    PROVE  IsSeq(s)
<1>1. Len(s) \in Nat /\ s \in [1 .. Len(s) -> Elements(s)]  BY DEF Elements
<1>. QED BY <1>1 DEF IsSeq

LEMMA SeqFacts ==
    ASSUME NEW s, IsSeq(s)
    PROVE  Len(s) \in Nat /\ DOMAIN s = 1 .. Len(s)
BY DEF IsSeq

LEMMA EmptyFacts == IsSeq(<<>>) /\ Len(<<>>) = 0 /\ DOMAIN <<>> = {}
<1>1. <<>> \in Seq({})  OBVIOUS
<1>2. IsSeq(<<>>)  BY <1>1, IntoSeq
<1>3. Len(<<>>) = 0  OBVIOUS
<1>. QED BY <1>2, <1>3, SeqFacts

LEMMA OneFacts ==
    ASSUME NEW e
    PROVE  IsSeq(<<e>>) /\ Len(<<e>>) = 1 /\ <<e>>[1] = e
<1>1. <<e>> \in Seq({e})  OBVIOUS
<1>2. IsSeq(<<e>>)  BY <1>1, IntoSeq
<1>. QED BY <1>2

LEMMA AppendFacts ==
    ASSUME NEW s, NEW e, IsSeq(s)
    PROVE  /\ IsSeq(Append(s, e)) /\ Len(Append(s, e)) = Len(s) + 1
           /\ \A k \in 1 .. Len(s) : Append(s, e)[k] = s[k]
           /\ Append(s, e)[Len(s) + 1] = e
<1>. DEFINE S == Elements(s) \cup {e}
<1>1. Len(s) \in Nat /\ s \in [1 .. Len(s) -> S]  BY DEF IsSeq
<1>2. s \in Seq(S) /\ e \in S  BY <1>1
<1>. HIDE DEF S
<1>3. Append(s, e) \in Seq(S)  BY <1>2
<1>4. IsSeq(Append(s, e))  BY <1>3, IntoSeq
<1>. QED BY <1>2, <1>4

LEMMA TailFacts ==
    ASSUME NEW s, IsSeq(s), s # <<>>
    PROVE  /\ IsSeq(Tail(s)) /\ Len(s) > 0 /\ Len(Tail(s)) = Len(s) - 1 /\ Head(s) = s[1]
           /\ \A k \in 1 .. Len(Tail(s)) : k + 1 \in 1 .. Len(s) /\ Tail(s)[k] = s[k+1]
<1>. DEFINE S == Elements(s)
<1>1. s \in Seq(S)  BY DEF IsSeq
<1>. HIDE DEF S
<1>2. Tail(s) \in Seq(S) /\ Len(s) > 0 /\ Len(Tail(s)) = Len(s) - 1  BY <1>1
<1>3. IsSeq(Tail(s))  BY <1>2, IntoSeq
<1>. QED BY <1>1, <1>2, <1>3

LEMMA ConcatFacts ==
    ASSUME NEW s, NEW t, IsSeq(s), IsSeq(t)
    PROVE  /\ IsSeq(s \o t) /\ Len(s \o t) = Len(s) + Len(t)
           /\ \A k \in 1 .. Len(s) : (s \o t)[k] = s[k]
           /\ \A k \in 1 .. Len(s) + Len(t) : k > Len(s) => (s \o t)[k] = t[k - Len(s)]
<1>. DEFINE S == Elements(s) \cup Elements(t)
<1>1. /\ Len(s) \in Nat /\ s \in [1 .. Len(s) -> S]
      /\ Len(t) \in Nat /\ t \in [1 .. Len(t) -> S]
  BY DEF IsSeq
<1>2. s \in Seq(S) /\ t \in Seq(S)  BY <1>1
<1>. HIDE DEF S
<1>3. s \o t \in Seq(S)  BY <1>2
<1>4. IsSeq(s \o t)  BY <1>3, IntoSeq
<1>. QED BY <1>2, <1>4
=============================================================================
