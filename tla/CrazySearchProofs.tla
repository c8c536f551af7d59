------------------------- MODULE CrazySearchProofs -------------------------
(***************************************************************************)
(* The searches of tools/m8crazy.py, for words of any width and any        *)
(* command line: what they print may be followed step by step, no word is  *)
(* queued twice, the first solution is a shortest one, a search that says  *)
(* "no sequence found" within its limits is right, a plan of x -> x+1 does *)
(* increment, and the summary of a profile counts what it says.  The first *)
(* four do not look into what a step of either graph does; the others rest *)
(* on crazy and its inverses, trit by trit: the masks are the smallest     *)
(* ones, and there is a chain between every two words.                     *)
(***************************************************************************)
EXTENDS CrazySearch, DataFacts, FiniteSetTheorems, TLAPS

(* A step that takes longer than the usual limits is given more time, so   *)
(* that what is proved does not depend on how fast the machine is.         *)
USE SMT, Zenon, SMTT(60), ZenonT(60)

(***************************************************************************)
(* Words and their trits                                                   *)
(***************************************************************************)

Place(n) == place_of_trit[n]
Digit(x, n) == (x \div Place(n)) % 3

LEMMA Places ==
    /\ Place(0) = 1
    /\ \A n \in 0 .. Trits : Place(n) \in Nat \ {0}
    /\ \A n \in Position : Place(n+1) = 3 * Place(n)
<1>1. Trits \in Nat  BY TritsAssumption
<1>2. \E h : IsPlaces(h, 3, Trits)  BY <1>1, PlacesExist
<1>3. place_of_trit = CHOOSE h : IsPlaces(h, 3, Trits)  BY DEF place_of_trit, IsPlaces
<1>4. IsPlaces(place_of_trit, 3, Trits)  BY <1>2, <1>3
<1>. QED BY <1>1, <1>4, PlacesFacts DEF Place, Position

LEMMA Positions ==
    /\ Trits \in Nat /\ Trits \in 0 .. Trits /\ 0 \in 0 .. Trits
    /\ \A n \in Position : n \in 0 .. Trits /\ n + 1 \in 0 .. Trits /\ n \in Nat
BY TritsAssumption DEF Position

LEMMA WordModFacts ==
    /\ WORD_MOD = Place(Trits) /\ WORD_MOD \in Nat \ {0}
    /\ \A x \in Int : mod_word(x) \in Word
    /\ \A x \in Word : x \in Int /\ mod_word(x) = x
    /\ \A x \in Int, n \in Int : mod_word(mod_word(x) + n) = mod_word(x + n)
<1>1. WORD_MOD = Place(Trits) /\ WORD_MOD \in Nat \ {0}
  BY Places, Positions DEF WORD_MOD, Place
<1>2. \A x \in Int : mod_word(x) \in Word  BY <1>1, Euclid DEF mod_word, Word
<1>3. \A x \in Word : x \in Int /\ mod_word(x) = x  BY <1>1, Small DEF mod_word, Word
<1>4. \A x \in Int, n \in Int : mod_word(mod_word(x) + n) = mod_word(x + n)
  BY <1>1, ModAdd DEF mod_word
<1>. QED BY <1>1, <1>2, <1>3, <1>4

(* A place is a multiple of thrice every lower one. *)
LEMMA LowerPlace ==
    ASSUME NEW k \in Position
    PROVE  \A n \in 0 .. Trits : k < n => \E c \in Nat : Place(n) = Place(k) * (3 * c)
<1>. DEFINE S == {n \in 0 .. Trits : k < n => \E c \in Nat : Place(n) = Place(k) * (3 * c)}
<1>0. Trits \in Nat /\ k \in Nat /\ Place(k) \in Nat  BY Positions, Places
<1>1. 0 \in S  BY <1>0
<1>2. ASSUME NEW n \in 0 .. Trits - 1, n \in S PROVE n + 1 \in S
  <2>1. n \in Position /\ n + 1 \in 0 .. Trits  BY <1>0 DEF Position
  <2>2. Place(n+1) = 3 * Place(n)  BY <2>1, Places
  <2>3. CASE k = n
    <3>1. Place(n+1) = Place(k) * (3 * 1)  BY <1>0, <2>2, <2>3
    <3>. QED BY <2>1, <3>1
  <2>4. CASE k < n
    <3>1. PICK c \in Nat : Place(n) = Place(k) * (3 * c)  BY <1>2, <2>4
    <3>2. Place(n+1) = Place(k) * (3 * (3 * c))  BY <1>0, <2>2, <3>1
    <3>. QED BY <2>1, <3>2
  <2>5. CASE n < k
    BY <1>0, <2>1, <2>5
  <2>. QED BY <1>0, <2>1, <2>3, <2>4, <2>5
<1>. HIDE DEF S
<1>3. 0 .. Trits \subseteq S  BY <1>0, <1>1, <1>2, BoundedInduction
<1>. QED BY <1>3 DEF S

(* What a trit more at place p says of the number, and what it leaves. *)
LEMMA TopTrit ==
    ASSUME NEW p \in Nat \ {0}, NEW x \in 0 .. p - 1, NEW t \in Trit
    PROVE  x + t * p \in 0 .. 3 * p - 1 /\ ((x + t * p) \div p) % 3 = t
<1>1. x + t * p = p * t + x /\ t \in {0, 1, 2} /\ t \in Int  BY DEF Trit
<1>2. (p * t + x) \div p = t  BY <1>1, QuotientIs
<1>3. t % 3 = t  BY <1>1
<1>4. t * p \in {0, p, 2 * p}  BY <1>1
<1>5. x + t * p \in 0 .. 3 * p - 1  BY <1>4
<1>. QED BY <1>1, <1>2, <1>3, <1>5

LEMMA LowTrit ==
    ASSUME NEW p \in Nat \ {0}, NEW c \in Nat, NEW x \in Nat, NEW t \in Trit
    PROVE  ((x + t * (p * (3 * c))) \div p) % 3 = (x \div p) % 3
<1>. DEFINE q == x \div p
            r == x % p
            u == q \div 3
            v == q % 3
<1>0. t \in Nat  BY DEF Trit
<1>1. q \in Int /\ r \in 0 .. p - 1 /\ x = p * q + r  BY Euclid
<1>. HIDE DEF q, r
<1>2. u \in Int /\ v \in 0 .. 2 /\ q = 3 * u + v  BY <1>1, Euclid
<1>. HIDE DEF u, v
<1>3. t * c \in Int  BY <1>0
<1>4. t * (p * (3 * c)) = p * (3 * (t * c))  BY <1>0
<1>. DEFINE w == t * c
<1>5. w \in Int  BY <1>3
<1>. HIDE DEF w
<1>6. p * q + p * (3 * w) = p * (q + 3 * w)  BY <1>1, <1>5
<1>7. x + t * (p * (3 * c)) = p * (q + 3 * w) + r  BY <1>1, <1>4, <1>5, <1>6 DEF w
<1>8. q + 3 * w = 3 * (u + w) + v  BY <1>2, <1>5
<1>9. (p * (q + 3 * w) + r) \div p = q + 3 * w
  <2>1. q + 3 * w \in Int  BY <1>1, <1>5
  <2>. QED BY <1>1, <2>1, QuotientIs
<1>10. (3 * (u + w) + v) % 3 = v
  <2>1. u + w \in Int  BY <1>2, <1>5
  <2>2. v \in 0 .. 3 - 1 /\ 3 \in Nat \ {0}  BY <1>2
  <2>. QED BY <2>1, <2>2, QuotientIs
<1>. QED BY <1>7, <1>8, <1>9, <1>10 DEF q, v

(* A trit put before a number of n trits is the one at place n, and leaves *)
(* the others.                                                             *)
LEMMA OneMoreTrit ==
    ASSUME NEW n \in Position, NEW x \in 0 .. Place(n) - 1, NEW t \in Trit
    PROVE  /\ x + t * Place(n) \in 0 .. Place(n+1) - 1
           /\ Digit(x + t * Place(n), n) = t
           /\ \A k \in 0 .. n - 1 : Digit(x + t * Place(n), k) = Digit(x, k)
<1>1. n \in 0 .. Trits /\ Place(n) \in Nat \ {0} /\ Place(n+1) = 3 * Place(n) /\ x \in Nat
  BY Positions, Places
<1>2. x + t * Place(n) \in 0 .. Place(n+1) - 1 /\ Digit(x + t * Place(n), n) = t
  BY <1>1, TopTrit DEF Digit
<1>3. ASSUME NEW k \in 0 .. n - 1 PROVE Digit(x + t * Place(n), k) = Digit(x, k)
  <2>1. k \in Position /\ k < n /\ k \in 0 .. Trits  BY <1>1, Positions DEF Position
  <2>2. PICK c \in Nat : Place(n) = Place(k) * (3 * c)  BY <1>1, <2>1, LowerPlace
  <2>3. Place(k) \in Nat \ {0}  BY <2>1, Places
  <2>4. ((x + t * (Place(k) * (3 * c))) \div Place(k)) % 3 = (x \div Place(k)) % 3
    BY <1>1, <2>3, LowTrit
  <2>. QED BY <2>2, <2>4 DEF Digit
<1>. QED BY <1>2, <1>3

LEMMA DigitRange == \A x \in Nat, n \in 0 .. Trits : Digit(x, n) \in Trit
<1>. TAKE x \in Nat, n \in 0 .. Trits
<1>1. x \div Place(n) \in Nat  BY Places, NatQuotient
<1>2. \A y \in Nat : y % 3 \in {0, 1, 2}  OBVIOUS
<1>. QED BY <1>1, <1>2 DEF Digit, Trit

LEMMA ToTrits ==
    ASSUME NEW x \in Word
    PROVE  to_trits(x) = [n \in Position |-> Digit(x, n)] /\ to_trits(x) \in [Position -> Trit]
<1>1. mod_word(x) = x /\ x \in Nat  BY WordModFacts DEF Word
<1>2. to_trits(x) = [n \in Position |-> Digit(x, n)]  BY <1>1 DEF to_trits, Digit, Place
<1>3. \A n \in Position : Digit(x, n) \in Trit  BY <1>1, Positions, DigitRange
<1>. QED BY <1>2, <1>3

(* The sums of from_trits. *)
IsValue(h, trits) ==
    h = [n \in 0 .. Trits |-> IF n = 0 THEN 0 ELSE h[n-1] + trits[n-1] * place_of_trit[n-1]]
ValueSteps(h, trits) ==
    h[0] = 0 /\ \A n \in Position : h[n+1] = h[n] + trits[n] * Place(n)

LEMMA ValueExists ==
    ASSUME NEW trits \in [Position -> Trit]
    PROVE  \E h : IsValue(h, trits) /\ ValueSteps(h, trits) /\ from_trits(trits) = mod_word(h[Trits])
<1>. DEFINE f == [n \in 0 .. Trits - 1 |-> trits[n] * Place(n)]
<1>1. \A n \in 0 .. Trits - 1 : f[n] = trits[n] * Place(n) /\ f[n] \in Int
  <2>. TAKE n \in 0 .. Trits - 1
  <2>1. n \in Position  BY DEF Position
  <2>2. trits[n] \in Int /\ Place(n) \in Int  BY <2>1, Positions, Places DEF Trit
  <2>3. trits[n] * Place(n) \in Int  BY <2>2
  <2>. QED BY <2>3
<1>. HIDE DEF f
<1>2. ASSUME NEW h PROVE IsSum(h, 0, f, Trits) <=> IsValue(h, trits)
  <2>1. ASSUME NEW n \in 0 .. Trits
        PROVE  (IF n = 0 THEN 0 ELSE h[n-1] + f[n-1])
                 = IF n = 0 THEN 0 ELSE h[n-1] + trits[n-1] * place_of_trit[n-1]
    <3>1. CASE n = 0  BY <3>1
    <3>2. CASE n # 0
      <4>1. n - 1 \in 0 .. Trits - 1  BY <3>2, Positions
      <4>. QED BY <1>1, <4>1 DEF Place
    <3>. QED BY <3>1, <3>2
  <2>2. [n \in 0 .. Trits |-> IF n = 0 THEN 0 ELSE h[n-1] + f[n-1]]
        = [n \in 0 .. Trits |-> IF n = 0 THEN 0 ELSE h[n-1] + trits[n-1] * place_of_trit[n-1]]
    BY <2>1
  <2>. QED BY <2>2 DEF IsSum, IsValue
<1>. DEFINE H == CHOOSE h : IsValue(h, trits)
<1>3. from_trits(trits) = mod_word(H[Trits])  BY DEF from_trits, IsValue
<1>4. \E h : IsSum(h, 0, f, Trits)
  <2>1. Trits \in Nat /\ \A n \in 0 .. Trits - 1 : f[n] \in Int  BY <1>1, Positions
  <2>. QED BY <2>1, SumExists
<1>5. IsValue(H, trits)  BY <1>2, <1>4
<1>. HIDE DEF H
<1>6. IsSum(H, 0, f, Trits)  BY <1>2, <1>5
<1>7. H[0] = 0 /\ \A n \in 0 .. Trits - 1 : H[n+1] = H[n] + f[n]
  BY <1>1, <1>6, Positions, SumFacts
<1>8. ValueSteps(H, trits)  BY <1>1, <1>7 DEF ValueSteps, Position
<1>. QED BY <1>3, <1>5, <1>8

(* The sum of n trits is below the n-th place and has these trits. *)
LEMMA SumOfTrits ==
    ASSUME NEW trits \in [Position -> Trit]
    PROVE  \E h : /\ ValueSteps(h, trits) /\ from_trits(trits) = h[Trits] /\ h[Trits] \in Word
                  /\ \A n \in 0 .. Trits : h[n] \in Nat
                  /\ \A k \in Position : Digit(h[Trits], k) = trits[k]
<1>1. PICK h : ValueSteps(h, trits) /\ from_trits(trits) = mod_word(h[Trits])  BY ValueExists
<1>. DEFINE S == {n \in 0 .. Trits : h[n] \in 0 .. Place(n) - 1
                                     /\ \A k \in 0 .. n - 1 : Digit(h[n], k) = trits[k]}
<1>2. 0 \in S  BY <1>1, Positions, Places DEF ValueSteps
<1>3. ASSUME NEW n \in 0 .. Trits - 1, n \in S PROVE n + 1 \in S
  <2>1. n \in Position /\ n + 1 \in 0 .. Trits /\ n \in Nat  BY Positions DEF Position
  <2>2. h[n+1] = h[n] + trits[n] * Place(n) /\ trits[n] \in Trit  BY <1>1, <2>1 DEF ValueSteps
  <2>3. h[n] \in 0 .. Place(n) - 1 /\ \A k \in 0 .. n - 1 : Digit(h[n], k) = trits[k]  BY <1>3
  <2>4. /\ h[n+1] \in 0 .. Place(n+1) - 1 /\ Digit(h[n+1], n) = trits[n]
        /\ \A k \in 0 .. n - 1 : Digit(h[n+1], k) = Digit(h[n], k)
    BY <2>1, <2>2, <2>3, OneMoreTrit
  <2>5. \A k \in 0 .. (n + 1) - 1 : k \in 0 .. n - 1 \/ k = n  BY <2>1
  <2>6. \A k \in 0 .. (n + 1) - 1 : Digit(h[n+1], k) = trits[k]  BY <2>3, <2>4, <2>5
  <2>. QED BY <2>1, <2>4, <2>6
<1>. HIDE DEF S
<1>4. 0 .. Trits \subseteq S  BY <1>2, <1>3, Positions, BoundedInduction
<1>5. h[Trits] \in Word /\ \A k \in Position : Digit(h[Trits], k) = trits[k]
  <2>1. Trits \in S  BY <1>4, Positions
  <2>. QED BY <2>1, WordModFacts DEF S, Word, Position
<1>6. from_trits(trits) = h[Trits]  BY <1>1, <1>5, WordModFacts
<1>7. \A n \in 0 .. Trits : h[n] \in Nat
  <2>1. \A n \in 0 .. Trits : h[n] \in 0 .. Place(n) - 1  BY <1>4 DEF S
  <2>. QED BY <2>1
<1>. QED BY <1>1, <1>5, <1>6, <1>7

(* from_trits returns the word with these trits. *)
LEMMA FromTrits ==
    ASSUME NEW trits \in [Position -> Trit]
    PROVE  from_trits(trits) \in Word /\ to_trits(from_trits(trits)) = trits
<1>1. /\ from_trits(trits) \in Word
      /\ \A k \in Position : Digit(from_trits(trits), k) = trits[k]
  <2>1. PICK h : /\ from_trits(trits) = h[Trits] /\ h[Trits] \in Word
                 /\ \A k \in Position : Digit(h[Trits], k) = trits[k]
    BY SumOfTrits
  <2>. QED BY <2>1
<1>2. to_trits(from_trits(trits)) = [n \in Position |-> trits[n]]  BY <1>1, ToTrits
<1>. QED BY <1>1, <1>2

(* Of two words the one with the smaller trits is smaller. *)
LEMMA FromTritsMonotone ==
    ASSUME NEW f \in [Position -> Trit], NEW g \in [Position -> Trit],
           \A n \in Position : f[n] <= g[n]
    PROVE  from_trits(f) <= from_trits(g)
<1>1. PICK h : /\ ValueSteps(h, f) /\ from_trits(f) = h[Trits]
               /\ \A n \in 0 .. Trits : h[n] \in Nat
  BY SumOfTrits
<1>2. PICK k : /\ ValueSteps(k, g) /\ from_trits(g) = k[Trits]
               /\ \A n \in 0 .. Trits : k[n] \in Nat
  BY SumOfTrits
<1>. DEFINE S == {n \in 0 .. Trits : h[n] <= k[n]}
<1>3. 0 \in S  BY <1>1, <1>2, Positions DEF ValueSteps
<1>4. ASSUME NEW n \in 0 .. Trits - 1, n \in S PROVE n + 1 \in S
  <2>1. n \in Position /\ n \in 0 .. Trits /\ n + 1 \in 0 .. Trits  BY Positions DEF Position
  <2>2. h[n+1] = h[n] + f[n] * Place(n) /\ k[n+1] = k[n] + g[n] * Place(n)
    BY <1>1, <1>2, <2>1 DEF ValueSteps
  <2>3. h[n] \in Nat /\ k[n] \in Nat /\ h[n] <= k[n]  BY <1>1, <1>2, <1>4, <2>1
  <2>4. f[n] \in {0, 1, 2} /\ g[n] \in {0, 1, 2} /\ f[n] <= g[n]  BY <2>1 DEF Trit
  <2>5. Place(n) \in Nat  BY <2>1, Places
  <2>6. f[n] * Place(n) <= g[n] * Place(n)
    <3>. DEFINE p == Place(n)
                x == f[n]
                y == g[n]
    <3>1. p \in Nat /\ x \in {0, 1, 2} /\ y \in {0, 1, 2} /\ x <= y  BY <2>4, <2>5
    <3>. HIDE DEF p, x, y
    <3>2. x * p \in {0, p, 2 * p} /\ (x = 0 => x * p = 0) /\ (x = 1 => x * p = p) /\ (x = 2 => x * p = 2 * p)
      BY <3>1
    <3>3. (y = 0 => y * p = 0) /\ (y = 1 => y * p = p) /\ (y = 2 => y * p = 2 * p)  BY <3>1
    <3>4. x * p <= y * p  BY <3>1, <3>2, <3>3
    <3>. QED BY <3>4 DEF p, x, y
  <2>7. f[n] * Place(n) \in Int /\ g[n] * Place(n) \in Int
    <3>1. f[n] \in Int /\ g[n] \in Int /\ Place(n) \in Int  BY <2>4, <2>5
    <3>. QED BY <3>1
  <2>8. h[n+1] <= k[n+1]  BY <2>2, <2>3, <2>6, <2>7
  <2>. QED BY <2>1, <2>8
<1>. HIDE DEF S
<1>5. 0 .. Trits \subseteq S  BY <1>3, <1>4, Positions, BoundedInduction
<1>. QED BY <1>1, <1>2, <1>5, Positions DEF S

(* ... and a word is the only one with its trits. *)
LEMMA FromToTrits ==
    ASSUME NEW x \in Word
    PROVE  from_trits(to_trits(x)) = x
<1>. DEFINE trits == to_trits(x)
<1>1. trits \in [Position -> Trit] /\ \A n \in Position : trits[n] = Digit(x, n)  BY ToTrits
<1>2. x \in Nat  BY WordModFacts DEF Word
<1>. HIDE DEF trits
<1>3. PICK h : ValueSteps(h, trits) /\ from_trits(trits) = mod_word(h[Trits])  BY <1>1, ValueExists
<1>. DEFINE S == {n \in 0 .. Trits : h[n] = x % Place(n)}
<1>4. 0 \in S
  <2>1. x % 1 = 0  BY <1>2
  <2>. QED BY <1>3, <2>1, Positions, Places DEF ValueSteps
<1>5. ASSUME NEW n \in 0 .. Trits - 1, n \in S PROVE n + 1 \in S
  <2>. DEFINE p == Place(n)
              q == x \div p
              r == x % p
              u == q \div 3
              v == q % 3
  <2>1. n \in Position /\ n \in 0 .. Trits /\ n + 1 \in 0 .. Trits  BY Positions DEF Position
  <2>2. p \in Nat \ {0} /\ Place(n+1) = 3 * p  BY <2>1, Places
  <2>3. h[n+1] = r + v * p
    <3>1. h[n+1] = h[n] + trits[n] * Place(n)  BY <1>3, <2>1 DEF ValueSteps
    <3>2. trits[n] = v  BY <1>1, <2>1 DEF Digit
    <3>. QED BY <1>5, <3>1, <3>2
  <2>4. q \in Int /\ r \in 0 .. p - 1 /\ x = p * q + r
    <3>1. x \in Int /\ p \in Nat \ {0}  BY <1>2, <2>2
    <3>. HIDE DEF p
    <3>. QED BY <3>1, Euclid
  <2>. HIDE DEF p
  <2>. HIDE DEF q, r
  <2>5. u \in Int /\ v \in 0 .. 2 /\ q = 3 * u + v  BY <2>4, Euclid
  <2>. HIDE DEF u, v
  <2>6. x = (3 * p) * u + (r + v * p)
    <3>1. p * (3 * u + v) = (3 * p) * u + v * p  BY <2>2, <2>5
    <3>. QED BY <2>2, <2>4, <2>5, <3>1
  <2>7. r + v * p \in 0 .. 3 * p - 1
    <3>1. v * p \in {0, p, 2 * p}  BY <2>2, <2>5
    <3>. QED BY <2>2, <2>4, <3>1
  <2>8. 3 * p \in Nat \ {0}  BY <2>2
  <2>9. x % (3 * p) = r + v * p
    <3>. DEFINE m == 3 * p
                s == r + v * p
    <3>1. m \in Nat \ {0} /\ s \in 0 .. m - 1 /\ x = m * u + s  BY <2>6, <2>7, <2>8
    <3>. HIDE DEF m, s
    <3>2. (m * u + s) % m = s  BY <2>5, <3>1, QuotientIs
    <3>3. x % m = s  BY <3>1, <3>2
    <3>. QED BY <3>3 DEF m, s
  <2>. QED BY <2>1, <2>2, <2>3, <2>9 DEF p
<1>. HIDE DEF S
<1>6. 0 .. Trits \subseteq S  BY <1>4, <1>5, Positions, BoundedInduction
<1>7. h[Trits] = x % Place(Trits)  BY <1>6, Positions DEF S
<1>8. h[Trits] = x  BY <1>7, WordModFacts DEF mod_word
<1>. QED BY <1>3, <1>8, WordModFacts DEF trits

(***************************************************************************)
(* Inverses of crazy                                                       *)
(***************************************************************************)

LEMMA CrossRange == \A s, t \in Trit : Cross(s, t) \in Trit
<1>1. \A s, t \in {0, 1, 2} : CRAZY_TABLE[s + 1][t + 1] \in {0, 1, 2}  BY DEF CRAZY_TABLE
<1>. QED BY <1>1 DEF Cross, Trit

(* The trits crazy writes. *)
LEMMA CrazyTrits ==
    ASSUME NEW a \in Word, NEW d \in Word
    PROVE  /\ crazy(a, d) = from_trits([n \in Position |-> Cross(to_trits(d)[n], to_trits(a)[n])])
           /\ [n \in Position |-> Cross(to_trits(d)[n], to_trits(a)[n])] \in [Position -> Trit]
<1>1. \A n \in Position : to_trits(d)[n] \in Trit /\ to_trits(a)[n] \in Trit  BY ToTrits
<1>2. \A n \in Position : Cross(to_trits(d)[n], to_trits(a)[n]) \in Trit  BY <1>1, CrossRange
<1>. QED BY <1>2 DEF crazy

(* A word whose trits are those of solve_crazy leads to the target, and no *)
(* other does.                                                             *)
Solves(m, solve) == \A n \in Position : to_trits(m)[n] \in solve[n]

LEMMA SolveIsExact ==
    ASSUME NEW source \in Word, NEW target \in Word, NEW m \in Word
    PROVE  crazy(m, source) = target <=> Solves(m, solve_crazy(source, target))
<1>. DEFINE s == to_trits(source)
            t == to_trits(target)
            a == to_trits(m)
            g == [n \in Position |-> Cross(s[n], a[n])]
<1>1. s \in [Position -> Trit] /\ t \in [Position -> Trit] /\ a \in [Position -> Trit]  BY ToTrits
<1>2. crazy(m, source) = from_trits(g) /\ g \in [Position -> Trit]  BY CrazyTrits
<1>3. Solves(m, solve_crazy(source, target)) <=> \A n \in Position : Cross(s[n], a[n]) = t[n]
  <2>1. \A n \in Position : a[n] \in Trit  BY <1>1
  <2>. QED BY <2>1 DEF Solves, solve_crazy
<1>4. from_trits(t) = target  BY FromToTrits
<1>5. \A n \in Position : g[n] = Cross(s[n], a[n])  OBVIOUS
<1>. HIDE DEF s, a, g
<1>6. ASSUME crazy(m, source) = target
      PROVE  \A n \in Position : Cross(s[n], a[n]) = t[n]
  <2>1. to_trits(from_trits(g)) = g  BY <1>2, FromTrits
  <2>2. t = g  BY <1>2, <1>6, <2>1
  <2>. QED BY <1>5, <2>2
<1>7. ASSUME \A n \in Position : Cross(s[n], a[n]) = t[n]
      PROVE  crazy(m, source) = target
  <2>. HIDE DEF t
  <2>1. g = t  BY <1>1, <1>2, <1>5, <1>7
  <2>. QED BY <1>2, <1>4, <2>1 DEF t
<1>. QED BY <1>3, <1>6, <1>7

(* There is a mask just when every position has a choice. *)
LEMMA PossibleIsSolvable ==
    ASSUME NEW source \in Word, NEW target \in Word
    PROVE  possible(solve_crazy(source, target)) <=> \E m \in Word : crazy(m, source) = target
<1>. DEFINE solve == solve_crazy(source, target)
<1>1. \A n \in Position : solve[n] \subseteq Trit  BY DEF solve_crazy
<1>2. \A m \in Word : crazy(m, source) = target <=> Solves(m, solve)  BY SolveIsExact
<1>. HIDE DEF solve
<1>3. ASSUME possible(solve) PROVE \E m \in Word : Solves(m, solve)
  <2>. DEFINE f == [n \in Position |-> CHOOSE t \in Trit : t \in solve[n]]
  <2>1. \A n \in Position : \E t \in Trit : t \in solve[n]  BY <1>1, <1>3 DEF possible
  <2>2. f \in [Position -> Trit] /\ \A n \in Position : f[n] \in solve[n]  BY <2>1
  <2>. HIDE DEF f
  <2>3. from_trits(f) \in Word /\ to_trits(from_trits(f)) = f  BY <2>2, FromTrits
  <2>4. Solves(from_trits(f), solve)  BY <2>2, <2>3 DEF Solves
  <2>. QED BY <2>3, <2>4
<1>4. ASSUME NEW m \in Word, Solves(m, solve) PROVE possible(solve)
  BY <1>4 DEF Solves, possible
<1>5. possible(solve) <=> \E m \in Word : crazy(m, source) = target  BY <1>2, <1>3, <1>4
<1>. QED BY <1>5 DEF solve

(***************************************************************************)
(* Chains                                                                  *)
(***************************************************************************)

(* The same for solve_seed, whose seeds lie under D. *)
LEMMA SeedIsExact ==
    ASSUME NEW a \in Word, NEW target \in Word, NEW d \in Word
    PROVE  crazy(a, d) = target <=> Solves(d, solve_seed(a, target))
<1>. DEFINE s == to_trits(a)
            t == to_trits(target)
            e == to_trits(d)
            g == [n \in Position |-> Cross(e[n], s[n])]
<1>1. s \in [Position -> Trit] /\ t \in [Position -> Trit] /\ e \in [Position -> Trit]  BY ToTrits
<1>2. crazy(a, d) = from_trits(g) /\ g \in [Position -> Trit]  BY CrazyTrits
<1>3. Solves(d, solve_seed(a, target)) <=> \A n \in Position : Cross(e[n], s[n]) = t[n]
  <2>1. \A n \in Position : e[n] \in Trit  BY <1>1
  <2>. QED BY <2>1 DEF Solves, solve_seed
<1>4. from_trits(t) = target  BY FromToTrits
<1>5. \A n \in Position : g[n] = Cross(e[n], s[n])  OBVIOUS
<1>. HIDE DEF s, e, g
<1>6. ASSUME crazy(a, d) = target
      PROVE  \A n \in Position : Cross(e[n], s[n]) = t[n]
  <2>1. to_trits(from_trits(g)) = g  BY <1>2, FromTrits
  <2>2. t = g  BY <1>2, <1>6, <2>1
  <2>. QED BY <1>5, <2>2
<1>7. ASSUME \A n \in Position : Cross(e[n], s[n]) = t[n]
      PROVE  crazy(a, d) = target
  <2>. HIDE DEF t
  <2>1. g = t  BY <1>1, <1>2, <1>5, <1>7
  <2>. QED BY <1>2, <1>4, <2>1 DEF t
<1>. QED BY <1>3, <1>6, <1>7

(* The least trit of a choice. *)
LEMMA LeastTrit ==
    ASSUME NEW S, S \subseteq Trit, S # {}
    PROVE  Least(S) \in S /\ \A u \in S : Least(S) <= u
<1>1. S \subseteq Nat  BY DEF Trit
<1>2. \E x \in S : \A y \in S : x <= y  BY <1>1, LeastNatural
<1>. QED BY <1>2 DEF Least

(* smallest_seed is the smallest seed that leads from a to the target in   *)
(* one p step, if there is one.                                            *)
IsSmallestSeed(seed, a, target) ==
    \/ seed = None /\ \A d \in Word : crazy(a, d) # target
    \/ /\ seed # None /\ seed \in Word /\ crazy(a, seed) = target
       /\ \A d \in Word : crazy(a, d) = target => seed <= d

LEMMA SmallestSeed ==
    ASSUME NEW a \in Word, NEW target \in Word
    PROVE  IsSmallestSeed(smallest_seed(a, target), a, target)
<1>. DEFINE c == solve_seed(a, target)
            f == [n \in Position |-> Least(c[n])]
<1>1. \A n \in Position : c[n] \subseteq Trit  BY DEF solve_seed
<1>2. \A d \in Word : crazy(a, d) = target <=> Solves(d, c)  BY SeedIsExact
<1>3. smallest_seed(a, target) = IF \E n \in Position : c[n] = {} THEN None ELSE from_trits(f)
  BY DEF smallest_seed
<1>. HIDE DEF c
<1>4. CASE \E n \in Position : c[n] = {}
  <2>1. \A d \in Word : ~Solves(d, c)  BY <1>4 DEF Solves
  <2>2. smallest_seed(a, target) = None  BY <1>3, <1>4
  <2>. QED BY <1>2, <2>1, <2>2 DEF IsSmallestSeed
<1>5. CASE \A n \in Position : c[n] # {}
  <2>1. \A n \in Position : Least(c[n]) \in c[n] /\ \A u \in c[n] : Least(c[n]) <= u
    BY <1>1, <1>5, LeastTrit
  <2>2. f \in [Position -> Trit] /\ \A n \in Position : f[n] = Least(c[n])  BY <1>1, <2>1
  <2>3. smallest_seed(a, target) = from_trits(f)  BY <1>3, <1>5
  <2>. HIDE DEF f
  <2>4. from_trits(f) \in Word /\ to_trits(from_trits(f)) = f  BY <2>2, FromTrits
  <2>5. Solves(from_trits(f), c)  BY <2>1, <2>2, <2>4 DEF Solves
  <2>6. ASSUME NEW d \in Word, Solves(d, c) PROVE from_trits(f) <= d
    <3>1. to_trits(d) \in [Position -> Trit] /\ from_trits(to_trits(d)) = d  BY ToTrits, FromToTrits
    <3>2. \A n \in Position : f[n] <= to_trits(d)[n]  BY <2>1, <2>2, <2>6 DEF Solves
    <3>3. from_trits(f) <= from_trits(to_trits(d))  BY <2>2, <3>1, <3>2, FromTritsMonotone
    <3>. QED BY <3>1, <3>3
  <2>7. from_trits(f) # None  BY <2>4, WordModFacts DEF Word, None
  <2>8. crazy(a, from_trits(f)) = target  BY <1>2, <2>4, <2>5
  <2>9. \A d \in Word : crazy(a, d) = target => from_trits(f) <= d  BY <1>2, <2>6
  <2>. QED BY <2>3, <2>4, <2>7, <2>8, <2>9 DEF IsSmallestSeed
<1>. QED BY <1>4, <1>5

(* Every trit of ALL_TWOS is 2. *)
LEMMA AllTwos == ALL_TWOS \in Word /\ \A n \in Position : to_trits(ALL_TWOS)[n] = 2
<1>. DEFINE two == [n \in Position |-> 2]
<1>1. two \in [Position -> Trit] /\ \A n \in Position : two[n] = 2  BY DEF Trit
<1>. HIDE DEF two
<1>2. PICK h : ValueSteps(h, two) /\ from_trits(two) = h[Trits]  BY <1>1, SumOfTrits
<1>. DEFINE S == {n \in 0 .. Trits : h[n] = Place(n) - 1}
<1>3. 0 \in S  BY <1>2, Positions, Places DEF ValueSteps
<1>4. ASSUME NEW n \in 0 .. Trits - 1, n \in S PROVE n + 1 \in S
  <2>1. n \in Position /\ n \in 0 .. Trits /\ n + 1 \in 0 .. Trits  BY Positions DEF Position
  <2>2. h[n+1] = h[n] + 2 * Place(n)  BY <1>1, <1>2, <2>1 DEF ValueSteps
  <2>3. Place(n) \in Nat /\ Place(n+1) = 3 * Place(n)  BY <2>1, Places
  <2>4. h[n] = Place(n) - 1  BY <1>4
  <2>5. h[n+1] = Place(n+1) - 1  BY <2>2, <2>3, <2>4
  <2>. QED BY <2>1, <2>5
<1>. HIDE DEF S
<1>5. 0 .. Trits \subseteq S  BY <1>3, <1>4, Positions, BoundedInduction
<1>6. from_trits(two) = ALL_TWOS  BY <1>2, <1>5, Positions, WordModFacts DEF S, ALL_TWOS
<1>. QED BY <1>1, <1>6, FromTrits

(* Every word leads to ALL_TWOS in one p step, and it to every word. *)
LEMMA OverAllTwos ==
    ASSUME NEW w \in Word
    PROVE  smallest_seed(w, ALL_TWOS) # None /\ smallest_seed(ALL_TWOS, w) # None
<1>1. ALL_TWOS \in Word /\ \A n \in Position : to_trits(ALL_TWOS)[n] = 2  BY AllTwos
<1>2. \A n \in Position : to_trits(w)[n] \in Trit  BY ToTrits
<1>3. /\ \A x \in {0, 1, 2} : \E d \in {0, 1, 2} : CRAZY_TABLE[d + 1][x + 1] = 2
      /\ \A x \in {0, 1, 2} : \E d \in {0, 1, 2} : CRAZY_TABLE[d + 1][3] = x
  <2>1. /\ CRAZY_TABLE[1][3] = 0 /\ CRAZY_TABLE[2][3] = 2 /\ CRAZY_TABLE[3][3] = 1
        /\ CRAZY_TABLE[3][1] = 2 /\ CRAZY_TABLE[3][2] = 2
    BY DEF CRAZY_TABLE
  <2>. QED BY <2>1
<1>4. /\ \A x \in Trit : \E d \in Trit : Cross(d, x) = 2
      /\ \A x \in Trit : \E d \in Trit : Cross(d, 2) = x
  BY <1>3 DEF Cross, Trit
<1>5. \A n \in Position : solve_seed(w, ALL_TWOS)[n] # {}
  <2>. TAKE n \in Position
  <2>1. solve_seed(w, ALL_TWOS)[n] = {d \in Trit : Cross(d, to_trits(w)[n]) = to_trits(ALL_TWOS)[n]}
    BY DEF solve_seed
  <2>2. PICK d \in Trit : Cross(d, to_trits(w)[n]) = 2  BY <1>2, <1>4
  <2>. QED BY <1>1, <2>1, <2>2
<1>6. \A n \in Position : solve_seed(ALL_TWOS, w)[n] # {}
  <2>. TAKE n \in Position
  <2>1. solve_seed(ALL_TWOS, w)[n] = {d \in Trit : Cross(d, to_trits(ALL_TWOS)[n]) = to_trits(w)[n]}
    BY DEF solve_seed
  <2>2. PICK d \in Trit : Cross(d, 2) = to_trits(w)[n]  BY <1>2, <1>4
  <2>. QED BY <1>1, <2>1, <2>2
<1>7. \A a, target \in Word :
          (\A n \in Position : solve_seed(a, target)[n] # {}) => smallest_seed(a, target) # None
  <2>. SUFFICES ASSUME NEW a \in Word, NEW target \in Word,
                       \A n \in Position : solve_seed(a, target)[n] # {}
                PROVE  smallest_seed(a, target) # None
    OBVIOUS
  <2>. DEFINE c == solve_seed(a, target)
              f == [n \in Position |-> Least(c[n])]
  <2>1. \A n \in Position : c[n] \subseteq Trit  BY DEF solve_seed
  <2>2. smallest_seed(a, target) = from_trits(f)  BY DEF smallest_seed
  <2>. HIDE DEF c
  <2>3. \A n \in Position : c[n] # {}  BY DEF c
  <2>4. \A n \in Position : Least(c[n]) \in Trit  BY <2>1, <2>3, LeastTrit
  <2>5. f \in [Position -> Trit]  BY <2>4
  <2>. HIDE DEF f
  <2>6. from_trits(f) \in Word  BY <2>5, FromTrits
  <2>. QED BY <2>2, <2>6, WordModFacts DEF Word, None
<1>. QED BY <1>1, <1>5, <1>6, <1>7

(* chain_to_target finds a chain from every word to every word, so that    *)
(* plan_entry is never blocked for want of one: each of its seeds leads    *)
(* where it says, the last to the target, and it takes two steps only if   *)
(* no seed does it in one; for words of any width.                         *)
THEOREM ChainsAlwaysExist ==
    ASSUME NEW start \in Word, NEW target \in Word
    PROVE  LET chain == chain_to_target(start, target)
               From(k) == IF k = 1 THEN start ELSE chain[k-1].result
           IN  /\ Len(chain) \in 1 .. 2 /\ chain[Len(chain)].result = target
               /\ \A k \in 1 .. Len(chain) : crazy(From(k), chain[k].seed) = chain[k].result
               /\ Len(chain) = 1 <=> \E d \in Word : crazy(start, d) = target
<1>. DEFINE chain == chain_to_target(start, target)
            From(k) == IF k = 1 THEN start ELSE chain[k-1].result
            one == smallest_seed(start, target)
            first == smallest_seed(start, ALL_TWOS)
            second == smallest_seed(ALL_TWOS, target)
<1>1. ALL_TWOS \in Word  BY AllTwos
<1>2. first # None /\ second # None  BY OverAllTwos
<1>3. IsSmallestSeed(one, start, target)  BY SmallestSeed
<1>4. crazy(start, first) = ALL_TWOS  BY <1>1, <1>2, SmallestSeed DEF IsSmallestSeed
<1>5. crazy(ALL_TWOS, second) = target  BY <1>1, <1>2, SmallestSeed DEF IsSmallestSeed
<1>6. chain = IF one # None THEN <<ChainStep(one, target)>>
              ELSE <<ChainStep(first, ALL_TWOS), ChainStep(second, target)>>
  BY <1>2 DEF chain_to_target
<1>. HIDE DEF one, first, second, chain
<1>7. CASE one # None
  <2>1. chain = <<ChainStep(one, target)>>  BY <1>6, <1>7
  <2>2. Len(chain) = 1 /\ chain[1].seed = one /\ chain[1].result = target  BY <2>1 DEF ChainStep
  <2>3. one \in Word /\ crazy(start, one) = target  BY <1>3, <1>7 DEF IsSmallestSeed
  <2>4. \A k \in 1 .. Len(chain) : k = 1  BY <2>2
  <2>5. \A k \in 1 .. Len(chain) : crazy(From(k), chain[k].seed) = chain[k].result
    BY <2>2, <2>3, <2>4
  <2>6. Len(chain) = 1 <=> \E d \in Word : crazy(start, d) = target  BY <2>2, <2>3
  <2>. QED BY <2>2, <2>5, <2>6 DEF chain
<1>8. CASE one = None
  <2>1. chain = <<ChainStep(first, ALL_TWOS), ChainStep(second, target)>>  BY <1>6, <1>8
  <2>2. /\ Len(chain) = 2 /\ chain[1].seed = first /\ chain[1].result = ALL_TWOS
        /\ chain[2].seed = second /\ chain[2].result = target
    BY <2>1 DEF ChainStep
  <2>3. \A d \in Word : crazy(start, d) # target  BY <1>3, <1>8 DEF IsSmallestSeed
  <2>4. \A k \in 1 .. Len(chain) : k = 1 \/ k = 2  BY <2>2
  <2>5. From(1) = start /\ From(2) = ALL_TWOS  BY <2>2
  <2>. HIDE DEF From
  <2>6. \A k \in 1 .. Len(chain) : crazy(From(k), chain[k].seed) = chain[k].result
    BY <1>4, <1>5, <2>2, <2>4, <2>5
  <2>7. ~(Len(chain) = 1)  BY <2>2
  <2>8. Len(chain) \in 1 .. 2 /\ chain[Len(chain)].result = target  BY <2>2
  <2>. QED BY <2>3, <2>6, <2>7, <2>8 DEF chain, From
<1>. QED BY <1>7, <1>8

(***************************************************************************)
(* Masks                                                                   *)
(***************************************************************************)

(* A number of n trits, each a choice of its place. *)
IsPart(x, n, solve) == x \in 0 .. Place(n) - 1 /\ \A k \in 0 .. n - 1 : Digit(x, k) \in solve[k]
Parts(s, n, solve) == IsSeq(s) /\ \A k \in 1 .. Len(s) : IsPart(s[k], n, solve)

LEMMA PartsConcat ==
    ASSUME NEW s, NEW t, NEW n, NEW solve, Parts(s, n, solve), Parts(t, n, solve)
    PROVE  /\ Parts(s \o t, n, solve)
           /\ Len(s) > 0 \/ Len(t) > 0 => Len(s \o t) > 0
<1>1. IsSeq(s) /\ IsSeq(t) /\ Len(s) \in Nat /\ Len(t) \in Nat  BY SeqFacts DEF Parts
<1>. DEFINE u == s \o t
<1>2. /\ IsSeq(u) /\ Len(u) = Len(s) + Len(t)
      /\ \A k \in 1 .. Len(s) : u[k] = s[k]
      /\ \A k \in 1 .. Len(s) + Len(t) : k > Len(s) => u[k] = t[k - Len(s)]
  BY <1>1, ConcatFacts
<1>. HIDE DEF u
<1>3. ASSUME NEW k \in 1 .. Len(u) PROVE IsPart(u[k], n, solve)
  <2>1. CASE k \in 1 .. Len(s)  BY <1>2, <2>1 DEF Parts
  <2>2. CASE k \notin 1 .. Len(s)
    <3>1. k - Len(s) \in 1 .. Len(t) /\ u[k] = t[k - Len(s)]  BY <1>1, <1>2, <2>2
    <3>. QED BY <3>1 DEF Parts
  <2>. QED BY <2>1, <2>2
<1>4. Parts(u, n, solve)  BY <1>2, <1>3 DEF Parts
<1>5. Len(s) > 0 \/ Len(t) > 0 => Len(u) > 0  BY <1>1, <1>2
<1>. QED BY <1>4, <1>5 DEF u

(* The masks of masks_for_solve, one position at a time. *)
WithTrit(solve, masks, n, t) ==
    IF t \in solve[n] THEN [k \in DOMAIN masks |-> masks[k] + t * place_of_trit[n]] ELSE <<>>
MoreMasks(solve, masks, n) ==
    WithTrit(solve, masks, n, 0) \o WithTrit(solve, masks, n, 1) \o WithTrit(solve, masks, n, 2)
IsMasks(solve, h, m) ==
    h = [n \in 0 .. m |-> IF n = 0 THEN <<0>> ELSE MoreMasks(solve, h[n-1], n-1)]

LEMMA PartsWithTrit ==
    ASSUME NEW s, NEW n \in Position, NEW solve, Parts(s, n, solve), NEW t \in Trit
    PROVE  /\ Parts(WithTrit(solve, s, n, t), n + 1, solve)
           /\ t \in solve[n] /\ Len(s) > 0 => Len(WithTrit(solve, s, n, t)) > 0
<1>. DEFINE u == WithTrit(solve, s, n, t)
<1>1. IsSeq(s) /\ Len(s) \in Nat /\ DOMAIN s = 1 .. Len(s)  BY SeqFacts DEF Parts
<1>2. CASE t \notin solve[n]
  <2>1. u = <<>>  BY <1>2 DEF WithTrit
  <2>. HIDE DEF u
  <2>2. IsSeq(u) /\ \A k \in 1 .. Len(u) : FALSE  BY <2>1, EmptyFacts
  <2>3. Parts(u, n + 1, solve)  BY <2>2 DEF Parts
  <2>. QED BY <1>2, <2>3 DEF u
<1>3. CASE t \in solve[n]
  <2>1. u = [k \in 1 .. Len(s) |-> s[k] + t * Place(n)]  BY <1>1, <1>3 DEF WithTrit, Place
  <2>. DEFINE E == {s[k] + t * Place(n) : k \in 1 .. Len(s)}
  <2>2. u \in Seq(E)  BY <1>1, <2>1
  <2>. HIDE DEF E
  <2>3. IsSeq(u)  BY <2>2, IntoSeq
  <2>4. Len(u) = Len(s)  BY <1>1, <2>1, <2>2
  <2>5. \A k \in 1 .. Len(s) : u[k] = s[k] + t * Place(n)  BY <2>1
  <2>. HIDE DEF u
  <2>6. ASSUME NEW k \in 1 .. Len(u) PROVE IsPart(u[k], n + 1, solve)
    <3>1. s[k] \in 0 .. Place(n) - 1 /\ \A j \in 0 .. n - 1 : Digit(s[k], j) \in solve[j]
      BY <2>4 DEF Parts, IsPart
    <3>2. u[k] = s[k] + t * Place(n)  BY <2>4, <2>5
    <3>3. /\ u[k] \in 0 .. Place(n+1) - 1 /\ Digit(u[k], n) = t
          /\ \A j \in 0 .. n - 1 : Digit(u[k], j) = Digit(s[k], j)
      BY <3>1, <3>2, OneMoreTrit
    <3>4. \A j \in 0 .. (n + 1) - 1 : j \in 0 .. n - 1 \/ j = n  BY Positions
    <3>5. \A j \in 0 .. (n + 1) - 1 : Digit(u[k], j) \in solve[j]  BY <1>3, <3>1, <3>3, <3>4
    <3>. QED BY <3>3, <3>5 DEF IsPart
  <2>7. Parts(u, n + 1, solve)  BY <2>3, <2>6 DEF Parts
  <2>. QED BY <2>4, <2>7 DEF u
<1>. QED BY <1>2, <1>3

LEMMA PartsGrow ==
    ASSUME NEW s, NEW n \in Position, NEW solve, Parts(s, n, solve), solve[n] \subseteq Trit
    PROVE  /\ Parts(MoreMasks(solve, s, n), n + 1, solve)
           /\ Len(s) > 0 /\ solve[n] # {} => Len(MoreMasks(solve, s, n)) > 0
<1>. DEFINE a == WithTrit(solve, s, n, 0)
            b == WithTrit(solve, s, n, 1)
            c == WithTrit(solve, s, n, 2)
            m == n + 1
<1>1. 0 \in Trit /\ 1 \in Trit /\ 2 \in Trit  BY DEF Trit
<1>2. /\ Parts(a, m, solve) /\ (0 \in solve[n] /\ Len(s) > 0 => Len(a) > 0)
      /\ Parts(b, m, solve) /\ (1 \in solve[n] /\ Len(s) > 0 => Len(b) > 0)
      /\ Parts(c, m, solve) /\ (2 \in solve[n] /\ Len(s) > 0 => Len(c) > 0)
  BY <1>1, PartsWithTrit
<1>3. MoreMasks(solve, s, n) = (a \o b) \o c  BY DEF MoreMasks
<1>4. solve[n] # {} => 0 \in solve[n] \/ 1 \in solve[n] \/ 2 \in solve[n]  BY DEF Trit
<1>. HIDE DEF a, b, c, m
<1>5. Parts(a \o b, m, solve) /\ (Len(a) > 0 \/ Len(b) > 0 => Len(a \o b) > 0)
  BY <1>2, PartsConcat
<1>6. /\ Parts((a \o b) \o c, m, solve)
      /\ Len(a \o b) > 0 \/ Len(c) > 0 => Len((a \o b) \o c) > 0
  BY <1>2, <1>5, PartsConcat
<1>7. Len(s) > 0 /\ solve[n] # {} => Len((a \o b) \o c) > 0  BY <1>2, <1>4, <1>5, <1>6
<1>. QED BY <1>3, <1>6, <1>7 DEF m

LEMMA MasksExist ==
    ASSUME NEW solve, NEW m \in Nat
    PROVE  \E h : IsMasks(solve, h, m)
<1>. DEFINE Ok == {k \in Nat : \E h : IsMasks(solve, h, k)}
<1>1. 0 \in Ok
  <2>. DEFINE h == [n \in 0 .. 0 |-> <<0>>]
  <2>1. h = [n \in 0 .. 0 |-> IF n = 0 THEN <<0>> ELSE MoreMasks(solve, h[n-1], n-1)]  OBVIOUS
  <2>. QED BY <2>1 DEF IsMasks
<1>2. ASSUME NEW k \in Nat, k \in Ok PROVE k + 1 \in Ok
  <2>1. PICK h : IsMasks(solve, h, k)  BY <1>2
  <2>. DEFINE g == [n \in 0 .. k+1 |-> IF n = k+1 THEN MoreMasks(solve, h[k], k) ELSE h[n]]
  <2>2. ASSUME NEW n \in 0 .. k+1
        PROVE  g[n] = IF n = 0 THEN <<0>> ELSE MoreMasks(solve, g[n-1], n-1)
    <3>1. CASE n = k + 1
      <4>1. g[n-1] = h[k] /\ g[n] = MoreMasks(solve, h[k], k) /\ n # 0 /\ n - 1 = k  BY <3>1
      <4>. QED BY <4>1
    <3>2. CASE n \in 0 .. k
      <4>1. g[n] = h[n]  BY <3>2
      <4>2. n # 0 => n - 1 \in 0 .. k+1 /\ n - 1 # k + 1  BY <3>2
      <4>3. n # 0 => g[n-1] = h[n-1]  BY <4>2
      <4>4. h[n] = IF n = 0 THEN <<0>> ELSE MoreMasks(solve, h[n-1], n-1)
        BY <2>1, <3>2 DEF IsMasks
      <4>. QED BY <4>1, <4>3, <4>4
    <3>. QED BY <3>1, <3>2
  <2>3. g = [n \in 0 .. k+1 |-> g[n]]  OBVIOUS
  <2>. HIDE DEF g
  <2>4. IsMasks(solve, g, k + 1)  BY <2>2, <2>3 DEF IsMasks
  <2>. QED BY <2>4
<1>. HIDE DEF Ok
<1>3. m \in Ok  BY <1>1, <1>2, SetInduction
<1>. QED BY <1>3 DEF Ok

(* What masks_for_solve builds, and how much of it is returned. *)
Cut(s, limit) == IF limit < Len(s) THEN limit ELSE Len(s)

LEMMA MaskTable ==
    ASSUME NEW solve, NEW limit
    PROVE  \E h : /\ h[0] = <<0>>
                  /\ \A n \in 0 .. Trits - 1 : h[n+1] = MoreMasks(solve, h[n], n)
                  /\ masks_for_solve(solve, limit) = SubSeq(h[Trits], 1, Cut(h[Trits], limit))
<1>1. Trits \in Nat /\ Trits \in 0 .. Trits  BY Positions
<1>. DEFINE H == CHOOSE h : h = [n \in 0 .. Trits |->
                      IF n = 0 THEN <<0>> ELSE MoreMasks(solve, h[n-1], n-1)]
<1>2. masks_for_solve(solve, limit) = SubSeq(H[Trits], 1, Cut(H[Trits], limit))
  BY DEF masks_for_solve, MoreMasks, WithTrit, Cut
<1>3. IsMasks(solve, H, Trits)  BY <1>1, MasksExist DEF IsMasks
<1>. HIDE DEF H
<1>4. /\ H[0] = <<0>>
      /\ \A n \in 0 .. Trits - 1 : H[n+1] = MoreMasks(solve, H[n], n)
  BY <1>1, <1>3 DEF IsMasks
<1>. QED BY <1>2, <1>4

(* masks_for_solve gives words with the trits asked for, and one at least  *)
(* if there is any.                                                        *)
LEMMA MasksSolve ==
    ASSUME NEW solve, \A n \in Position : solve[n] \subseteq Trit, NEW limit \in Nat \ {0}
    PROVE  /\ IsSeq(masks_for_solve(solve, limit))
           /\ \A k \in 1 .. Len(masks_for_solve(solve, limit)) :
                  /\ masks_for_solve(solve, limit)[k] \in Word
                  /\ Solves(masks_for_solve(solve, limit)[k], solve)
           /\ possible(solve) => Len(masks_for_solve(solve, limit)) > 0
<1>1. Trits \in Nat /\ Trits \in 0 .. Trits  BY Positions
<1>2. PICK H : /\ H[0] = <<0>>
               /\ \A n \in 0 .. Trits - 1 : H[n+1] = MoreMasks(solve, H[n], n)
               /\ masks_for_solve(solve, limit) = SubSeq(H[Trits], 1, Cut(H[Trits], limit))
  BY MaskTable
<1>. DEFINE all == H[Trits]
            count == Cut(all, limit)
            masks == masks_for_solve(solve, limit)
<1>4. /\ H[0] = <<0>>
      /\ \A n \in 0 .. Trits - 1 : H[n+1] = MoreMasks(solve, H[n], n)
  BY <1>2
<1>3. masks = SubSeq(all, 1, count)  BY <1>2
<1>. DEFINE S == {n \in 0 .. Trits : Parts(H[n], n, solve) /\ (possible(solve) => Len(H[n]) > 0)}
<1>5. 0 \in S
  <2>1. IsSeq(H[0]) /\ Len(H[0]) = 1 /\ H[0][1] = 0  BY <1>4, OneFacts
  <2>2. IsPart(0, 0, solve)  BY Places DEF IsPart
  <2>. QED BY <1>1, <2>1, <2>2 DEF Parts
<1>6. ASSUME NEW n \in 0 .. Trits - 1, n \in S PROVE n + 1 \in S
  <2>1. n \in Position /\ n + 1 \in 0 .. Trits  BY <1>1 DEF Position
  <2>2. Parts(H[n], n, solve) /\ (possible(solve) => Len(H[n]) > 0)  BY <1>6
  <2>3. /\ Parts(H[n+1], n + 1, solve)
        /\ Len(H[n]) > 0 /\ solve[n] # {} => Len(H[n+1]) > 0
    BY <1>4, <2>1, <2>2, PartsGrow
  <2>4. possible(solve) => solve[n] # {}  BY <2>1 DEF possible
  <2>. QED BY <2>1, <2>2, <2>3, <2>4
<1>. HIDE DEF S
<1>7. 0 .. Trits \subseteq S  BY <1>1, <1>5, <1>6, BoundedInduction
<1>8. Parts(all, Trits, solve) /\ (possible(solve) => Len(all) > 0)  BY <1>1, <1>7 DEF S
<1>. HIDE DEF all
<1>9. all \in Seq(Elements(all)) /\ Len(all) \in Nat  BY <1>8, SeqFacts DEF Parts, IsSeq
<1>10. count \in 0 .. Len(all) /\ (Len(all) > 0 => count > 0)  BY <1>9 DEF Cut
<1>. HIDE DEF count
<1>11. /\ SubSeq(all, 1, count) \in Seq(Elements(all)) /\ Len(SubSeq(all, 1, count)) = count
       /\ \A k \in 1 .. count : SubSeq(all, 1, count)[k] = all[k]
  BY <1>9, <1>10
<1>. HIDE DEF masks
<1>12. IsSeq(masks) /\ Len(masks) = count  BY <1>3, <1>11, IntoSeq
<1>13. ASSUME NEW k \in 1 .. Len(masks) PROVE masks[k] \in Word /\ Solves(masks[k], solve)
  <2>1. k \in 1 .. Len(all) /\ masks[k] = all[k]  BY <1>3, <1>9, <1>10, <1>11, <1>12
  <2>2. IsPart(masks[k], Trits, solve)  BY <1>8, <2>1 DEF Parts
  <2>3. masks[k] \in Word  BY <2>2, WordModFacts DEF IsPart, Word
  <2>4. \A n \in Position : Digit(masks[k], n) \in solve[n]  BY <2>2 DEF IsPart, Position
  <2>5. Solves(masks[k], solve)  BY <2>3, <2>4, ToTrits DEF Solves
  <2>. QED BY <2>3, <2>5
<1>14. possible(solve) => Len(masks) > 0  BY <1>8, <1>10, <1>12
<1>. QED BY <1>12, <1>13, <1>14 DEF masks

(* The list before it is cut is in order and complete. *)
Sorted(s) == \A k, l \in 1 .. Len(s) : k < l => s[k] < s[l]
Holds(s, x) == \E k \in 1 .. Len(s) : s[k] = x
Spans(s, low, high) == IsSeq(s) /\ Sorted(s) /\ \A k \in 1 .. Len(s) : s[k] \in low .. high - 1

LEMMA SpansConcat ==
    ASSUME NEW low \in Int, NEW mid \in Int, NEW high \in Int, low <= mid, mid <= high,
           NEW s, NEW t, Spans(s, low, mid), Spans(t, mid, high)
    PROVE  /\ Spans(s \o t, low, high)
           /\ \A x : Holds(s, x) \/ Holds(t, x) => Holds(s \o t, x)
<1>1. IsSeq(s) /\ IsSeq(t) /\ Len(s) \in Nat /\ Len(t) \in Nat  BY SeqFacts DEF Spans
<1>. DEFINE u == s \o t
<1>2. /\ IsSeq(u) /\ Len(u) = Len(s) + Len(t)
      /\ \A k \in 1 .. Len(s) : u[k] = s[k]
      /\ \A k \in 1 .. Len(s) + Len(t) : k > Len(s) => u[k] = t[k - Len(s)]
  BY <1>1, ConcatFacts
<1>. HIDE DEF u
<1>3. \A k \in 1 .. Len(u) : \/ k \in 1 .. Len(s) /\ u[k] = s[k]
                             \/ k > Len(s) /\ k - Len(s) \in 1 .. Len(t) /\ u[k] = t[k - Len(s)]
  BY <1>1, <1>2
<1>4. /\ \A k \in 1 .. Len(s) : s[k] \in low .. mid - 1
      /\ \A k \in 1 .. Len(t) : t[k] \in mid .. high - 1
  BY DEF Spans
<1>5. \A k \in 1 .. Len(u) : u[k] \in low .. high - 1
  <2>. TAKE k \in 1 .. Len(u)
  <2>1. CASE k \in 1 .. Len(s) /\ u[k] = s[k]
    <3>1. s[k] \in low .. mid - 1  BY <1>4, <2>1
    <3>. QED BY <2>1, <3>1
  <2>2. CASE k - Len(s) \in 1 .. Len(t) /\ u[k] = t[k - Len(s)]
    <3>1. t[k - Len(s)] \in mid .. high - 1  BY <1>4, <2>2
    <3>. QED BY <2>2, <3>1
  <2>. QED BY <1>3, <2>1, <2>2
<1>6. ASSUME NEW k \in 1 .. Len(u), NEW l \in 1 .. Len(u), k < l PROVE u[k] < u[l]
  <2>1. CASE l \in 1 .. Len(s)
    <3>1. k \in 1 .. Len(s)  BY <1>6, <2>1
    <3>2. s[k] < s[l]  BY <1>6, <2>1, <3>1 DEF Spans, Sorted
    <3>. QED BY <1>2, <2>1, <3>1, <3>2
  <2>2. CASE l \notin 1 .. Len(s) /\ k \in 1 .. Len(s)
    <3>1. l - Len(s) \in 1 .. Len(t) /\ u[l] = t[l - Len(s)]  BY <1>3, <2>2
    <3>2. u[k] = s[k]  BY <1>2, <2>2
    <3>3. s[k] \in low .. mid - 1 /\ t[l - Len(s)] \in mid .. high - 1  BY <1>4, <2>2, <3>1
    <3>. QED BY <3>1, <3>2, <3>3
  <2>3. CASE l \notin 1 .. Len(s) /\ k \notin 1 .. Len(s)
    <3>. DEFINE e == k - Len(s)
                f == l - Len(s)
    <3>1. e \in 1 .. Len(t) /\ u[k] = t[e]  BY <1>3, <2>3
    <3>2. f \in 1 .. Len(t) /\ u[l] = t[f]  BY <1>3, <2>3
    <3>3. e < f  BY <1>1, <1>6
    <3>. HIDE DEF e, f
    <3>4. t[e] < t[f]  BY <3>1, <3>2, <3>3 DEF Spans, Sorted
    <3>. QED BY <3>1, <3>2, <3>4
  <2>. QED BY <2>1, <2>2, <2>3
<1>7. Sorted(u)  BY <1>6 DEF Sorted
<1>8. ASSUME NEW x, Holds(s, x) PROVE Holds(u, x)
  <2>1. PICK k \in 1 .. Len(s) : s[k] = x  BY <1>8 DEF Holds
  <2>2. k \in 1 .. Len(u) /\ u[k] = x  BY <1>1, <1>2, <2>1
  <2>. QED BY <2>2 DEF Holds
<1>9. ASSUME NEW x, Holds(t, x) PROVE Holds(u, x)
  <2>1. PICK k \in 1 .. Len(t) : t[k] = x  BY <1>9 DEF Holds
  <2>2. /\ Len(s) + k \in 1 .. Len(s) + Len(t) /\ Len(s) + k > Len(s)
        /\ (Len(s) + k) - Len(s) = k
    BY <1>1
  <2>3. Len(s) + k \in 1 .. Len(u) /\ u[Len(s) + k] = x  BY <1>2, <2>1, <2>2
  <2>. QED BY <2>3 DEF Holds
<1>10. Spans(u, low, high)  BY <1>2, <1>5, <1>7 DEF Spans
<1>. QED BY <1>8, <1>9, <1>10 DEF u

LEMMA SpansWithTrit ==
    ASSUME NEW s, NEW n \in Position, NEW solve, Spans(s, 0, Place(n)), NEW t \in Trit
    PROVE  /\ Spans(WithTrit(solve, s, n, t), t * Place(n), (t + 1) * Place(n))
           /\ \A x : t \in solve[n] /\ Holds(s, x) => Holds(WithTrit(solve, s, n, t), x + t * Place(n))
<1>. DEFINE u == WithTrit(solve, s, n, t)
            o == t * Place(n)
            p == Place(n)
<1>1. IsSeq(s) /\ Len(s) \in Nat /\ DOMAIN s = 1 .. Len(s)  BY SeqFacts DEF Spans
<1>2. p \in Nat /\ o \in Int /\ (t + 1) * p = o + p
  <2>1. p \in Nat  BY Positions, Places
  <2>2. t \in {0, 1, 2}  BY DEF Trit
  <2>. HIDE DEF p
  <2>3. t * p \in Int /\ (t + 1) * p = t * p + p  BY <2>1, <2>2
  <2>. QED BY <2>1, <2>3 DEF p
<1>3. CASE t \notin solve[n]
  <2>1. u = <<>>  BY <1>3 DEF WithTrit
  <2>. HIDE DEF u
  <2>2. IsSeq(u) /\ \A k \in 1 .. Len(u) : FALSE  BY <2>1, EmptyFacts
  <2>3. Spans(u, o, o + p)  BY <2>2 DEF Spans, Sorted
  <2>. QED BY <1>2, <1>3, <2>3 DEF u
<1>4. CASE t \in solve[n]
  <2>1. u = [k \in 1 .. Len(s) |-> s[k] + o]  BY <1>1, <1>4 DEF WithTrit, Place
  <2>. HIDE DEF o, p
  <2>. DEFINE E == {s[k] + o : k \in 1 .. Len(s)}
  <2>2. u \in Seq(E)  BY <1>1, <2>1
  <2>. HIDE DEF E
  <2>3. IsSeq(u)  BY <2>2, IntoSeq
  <2>4. Len(u) = Len(s)  BY <1>1, <2>1, <2>2
  <2>5. \A k \in 1 .. Len(s) : u[k] = s[k] + o  BY <2>1
  <2>. HIDE DEF u
  <2>6. \A k \in 1 .. Len(s) : s[k] \in 0 .. p - 1  BY DEF Spans, p
  <2>7. \A k \in 1 .. Len(u) : u[k] \in o .. (o + p) - 1
    <3>. TAKE k \in 1 .. Len(u)
    <3>1. u[k] = s[k] + o /\ s[k] \in 0 .. p - 1  BY <2>4, <2>5, <2>6
    <3>. QED BY <1>2, <3>1
  <2>8. Sorted(u)
    <3>1. ASSUME NEW k \in 1 .. Len(u), NEW l \in 1 .. Len(u), k < l PROVE u[k] < u[l]
      <4>1. u[k] = s[k] + o /\ u[l] = s[l] + o /\ s[k] \in Int /\ s[l] \in Int  BY <2>4, <2>5, <2>6
      <4>2. s[k] < s[l]  BY <2>4, <3>1 DEF Spans, Sorted
      <4>. QED BY <1>2, <4>1, <4>2
    <3>. QED BY <3>1 DEF Sorted
  <2>9. Spans(u, o, o + p)  BY <2>3, <2>7, <2>8 DEF Spans
  <2>10. ASSUME NEW x, Holds(s, x) PROVE Holds(u, x + o)
    <3>1. PICK k \in 1 .. Len(s) : s[k] = x  BY <2>10 DEF Holds
    <3>2. k \in 1 .. Len(u) /\ u[k] = x + o  BY <2>4, <2>5, <3>1
    <3>. QED BY <3>2 DEF Holds
  <2>. QED BY <1>2, <2>9, <2>10 DEF u, o, p
<1>. QED BY <1>3, <1>4

Complete(s, n, solve) == \A x \in 0 .. Place(n) - 1 : IsPart(x, n, solve) => Holds(s, x)

LEMMA SpansGrow ==
    ASSUME NEW s, NEW n \in Position, NEW solve, solve[n] \subseteq Trit,
           Spans(s, 0, Place(n)), Complete(s, n, solve)
    PROVE  /\ Spans(MoreMasks(solve, s, n), 0, Place(n+1))
           /\ Complete(MoreMasks(solve, s, n), n + 1, solve)
<1>. DEFINE a == WithTrit(solve, s, n, 0)
            b == WithTrit(solve, s, n, 1)
            c == WithTrit(solve, s, n, 2)
            p == Place(n)
            ab == a \o b
            abc == ab \o c
<1>1. 0 \in Trit /\ 1 \in Trit /\ 2 \in Trit  BY DEF Trit
<1>2. p \in Nat \ {0} /\ Place(n+1) = 3 * p /\ n \in Nat  BY Positions, Places
<1>. HIDE DEF p
<1>3. /\ 0 * p = 0 /\ (0 + 1) * p = p /\ 1 * p = p /\ (1 + 1) * p = 2 * p
      /\ (2 + 1) * p = 3 * p /\ p \in Int /\ 2 * p \in Int /\ 3 * p \in Int
      /\ 0 <= p /\ p <= 2 * p /\ 0 <= 2 * p /\ 2 * p <= 3 * p
  BY <1>2
<1>4. \A t \in Trit : Spans(WithTrit(solve, s, n, t), t * p, (t + 1) * p)  BY SpansWithTrit DEF p
<1>5. Spans(a, 0, p) /\ Spans(b, p, 2 * p) /\ Spans(c, 2 * p, 3 * p)
  <2>1. Spans(a, 0 * p, (0 + 1) * p)  BY <1>1, <1>4
  <2>2. Spans(b, 1 * p, (1 + 1) * p)  BY <1>1, <1>4
  <2>3. Spans(c, 2 * p, (2 + 1) * p)  BY <1>1, <1>4
  <2>. HIDE DEF a, b, c
  <2>. QED BY <1>3, <2>1, <2>2, <2>3
<1>6. \A t \in Trit : \A x : t \in solve[n] /\ Holds(s, x) => Holds(WithTrit(solve, s, n, t), x + t * p)
  BY SpansWithTrit DEF p
<1>7. MoreMasks(solve, s, n) = abc  BY DEF MoreMasks
<1>. HIDE DEF a, b, c
<1>8. Spans(ab, 0, 2 * p) /\ \A x : Holds(a, x) \/ Holds(b, x) => Holds(ab, x)
  BY <1>3, <1>5, SpansConcat
<1>. HIDE DEF ab
<1>9. Spans(abc, 0, 3 * p) /\ \A x : Holds(ab, x) \/ Holds(c, x) => Holds(abc, x)
  BY <1>3, <1>5, <1>8, SpansConcat
<1>. HIDE DEF abc
<1>10. ASSUME NEW x \in 0 .. Place(n+1) - 1, IsPart(x, n + 1, solve) PROVE Holds(abc, x)
  <2>. DEFINE t == x \div p
              r == x % p
  <2>1. x \in Int /\ x \in 0 .. 3 * p - 1  BY <1>2
  <2>2. r \in 0 .. p - 1 /\ t \in Int /\ x = p * t + r  BY <1>2, <2>1, Euclid
  <2>. HIDE DEF t, r
  <2>3. t \in {0, 1, 2}
    <3>1. t < 0 => p * t <= -p  BY <1>2, <2>2
    <3>2. t > 2 => p * t >= 3 * p  BY <1>2, <2>2
    <3>3. p * t \in Int  BY <1>2, <2>2
    <3>4. ~(t < 0)  BY <1>2, <2>1, <2>2, <3>1, <3>3
    <3>5. ~(t > 2)  BY <1>2, <2>1, <2>2, <3>2, <3>3
    <3>. QED BY <2>2, <3>4, <3>5
  <2>4. t \in Trit  BY <2>3 DEF Trit
  <2>5. x = r + t * p
    <3>1. p * t = t * p /\ t * p \in Int  BY <1>2, <2>2
    <3>. QED BY <2>2, <3>1
  <2>6. /\ Digit(r + t * p, n) = t
        /\ \A k \in 0 .. n - 1 : Digit(r + t * p, k) = Digit(r, k)
    BY <2>2, <2>4, OneMoreTrit DEF p
  <2>7. \A k \in 0 .. (n + 1) - 1 : Digit(x, k) \in solve[k]  BY <1>10 DEF IsPart
  <2>8. n \in 0 .. (n + 1) - 1 /\ \A k \in 0 .. n - 1 : k \in 0 .. (n + 1) - 1  BY <1>2
  <2>9. t \in solve[n]  BY <2>5, <2>6, <2>7, <2>8
  <2>10. \A k \in 0 .. n - 1 : Digit(r, k) \in solve[k]  BY <2>5, <2>6, <2>7, <2>8
  <2>11. Holds(s, r)  BY <2>2, <2>10 DEF Complete, IsPart, p
  <2>12. Holds(WithTrit(solve, s, n, t), x)  BY <1>6, <2>4, <2>5, <2>9, <2>11
  <2>13. Holds(a, x) \/ Holds(b, x) \/ Holds(c, x)  BY <2>3, <2>12 DEF a, b, c
  <2>. QED BY <1>8, <1>9, <2>13
<1>11. Complete(abc, n + 1, solve)  BY <1>10 DEF Complete
<1>. QED BY <1>2, <1>7, <1>9, <1>11

(* masks_for_solve returns the smallest masks, in order: only words under  *)
(* which p turns the source into the target, never more than the limit,    *)
(* and a word that does is left out only for smaller ones that fill the    *)
(* list; for words of any width.                                           *)
THEOREM MasksAreTheSmallest ==
    ASSUME NEW source \in Word, NEW target \in Word, NEW limit \in Nat \ {0}
    PROVE  LET masks == masks_for_solve(solve_crazy(source, target), limit)
           IN  /\ Len(masks) \in 0 .. limit
               /\ \A k \in 1 .. Len(masks) :
                      masks[k] \in Word /\ crazy(masks[k], source) = target
               /\ \A k, l \in 1 .. Len(masks) : k < l => masks[k] < masks[l]
               /\ \A m \in Word : crazy(m, source) = target =>
                      \/ \E k \in 1 .. Len(masks) : masks[k] = m
                      \/ Len(masks) = limit /\ \A k \in 1 .. Len(masks) : masks[k] < m
<1>. DEFINE solve == solve_crazy(source, target)
            masks == masks_for_solve(solve, limit)
<1>1. Trits \in Nat /\ Trits \in 0 .. Trits  BY Positions
<1>2. \A n \in Position : solve[n] \subseteq Trit  BY DEF solve_crazy
<1>3. \A m \in Word : crazy(m, source) = target <=> Solves(m, solve)  BY SolveIsExact
<1>. HIDE DEF solve
<1>4. PICK h : /\ h[0] = <<0>>
               /\ \A n \in 0 .. Trits - 1 : h[n+1] = MoreMasks(solve, h[n], n)
               /\ masks = SubSeq(h[Trits], 1, Cut(h[Trits], limit))
  BY MaskTable
<1>. DEFINE all == h[Trits]
            count == Cut(all, limit)
            S == {n \in 0 .. Trits : Spans(h[n], 0, Place(n)) /\ Complete(h[n], n, solve)}
<1>5. 0 \in S
  <2>1. IsSeq(h[0]) /\ Len(h[0]) = 1 /\ h[0][1] = 0  BY <1>4, OneFacts
  <2>2. \A k \in 1 .. Len(h[0]) : k = 1  BY <2>1
  <2>3. Place(0) = 1  BY Places
  <2>4. Spans(h[0], 0, Place(0))  BY <2>1, <2>2, <2>3 DEF Spans, Sorted
  <2>5. \A x \in 0 .. Place(0) - 1 : x = 0  BY <2>3
  <2>6. 1 \in 1 .. Len(h[0])  BY <2>1
  <2>7. Complete(h[0], 0, solve)  BY <2>1, <2>5, <2>6 DEF Complete, Holds
  <2>. QED BY <1>1, <2>4, <2>7
<1>6. ASSUME NEW n \in 0 .. Trits - 1, n \in S PROVE n + 1 \in S
  <2>1. n \in Position /\ n + 1 \in 0 .. Trits  BY <1>1 DEF Position
  <2>2. Spans(h[n], 0, Place(n)) /\ Complete(h[n], n, solve)  BY <1>6
  <2>3. Spans(h[n+1], 0, Place(n+1)) /\ Complete(h[n+1], n + 1, solve)
    BY <1>2, <1>4, <2>1, <2>2, SpansGrow
  <2>. QED BY <2>1, <2>3
<1>. HIDE DEF S
<1>7. 0 .. Trits \subseteq S  BY <1>1, <1>5, <1>6, BoundedInduction
<1>8. Spans(all, 0, Place(Trits)) /\ Complete(all, Trits, solve)  BY <1>1, <1>7 DEF S
<1>9. masks = SubSeq(all, 1, count)  BY <1>4
<1>. HIDE DEF all
<1>10. all \in Seq(Elements(all)) /\ Len(all) \in Nat  BY <1>8, SeqFacts DEF Spans, IsSeq
<1>11. /\ count \in 0 .. Len(all) /\ count <= limit /\ count \in Nat
       /\ count < Len(all) => count = limit
  BY <1>10 DEF Cut
<1>. HIDE DEF count
<1>12. /\ Len(SubSeq(all, 1, count)) = count
       /\ \A k \in 1 .. count : SubSeq(all, 1, count)[k] = all[k]
  BY <1>10, <1>11
<1>13. Len(masks) = count /\ \A k \in 1 .. count : masks[k] = all[k]  BY <1>9, <1>12
<1>. HIDE DEF masks
<1>14. Len(masks) \in 0 .. limit  BY <1>11, <1>13
<1>15. ASSUME NEW k \in 1 .. Len(masks), NEW l \in 1 .. Len(masks), k < l PROVE masks[k] < masks[l]
  <2>1. k \in 1 .. Len(all) /\ l \in 1 .. Len(all)  BY <1>10, <1>11, <1>13
  <2>2. all[k] < all[l]  BY <1>8, <1>15, <2>1 DEF Spans, Sorted
  <2>. QED BY <1>13, <2>2
<1>16. ASSUME NEW m \in Word, Solves(m, solve)
       PROVE  \/ \E k \in 1 .. Len(masks) : masks[k] = m
              \/ Len(masks) = limit /\ \A k \in 1 .. Len(masks) : masks[k] < m
  <2>1. m \in 0 .. Place(Trits) - 1  BY WordModFacts DEF Word
  <2>2. \A n \in Position : to_trits(m)[n] = Digit(m, n)  BY ToTrits
  <2>3. \A n \in 0 .. Trits - 1 : Digit(m, n) \in solve[n]  BY <1>16, <2>2 DEF Solves, Position
  <2>4. Holds(all, m)  BY <1>8, <2>1, <2>3 DEF Complete, IsPart
  <2>5. PICK k \in 1 .. Len(all) : all[k] = m  BY <2>4 DEF Holds
  <2>6. CASE k <= count
    <3>1. k \in 1 .. Len(masks) /\ masks[k] = m  BY <1>10, <1>13, <2>5, <2>6
    <3>. QED BY <3>1
  <2>7. CASE k > count
    <3>1. count = limit  BY <1>10, <1>11, <2>5, <2>7
    <3>2. ASSUME NEW j \in 1 .. Len(masks) PROVE masks[j] < m
      <4>1. j \in 1 .. Len(all) /\ j < k /\ masks[j] = all[j]  BY <1>10, <1>11, <1>13, <2>7
      <4>2. all[j] < all[k]  BY <1>8, <4>1 DEF Spans, Sorted
      <4>. QED BY <2>5, <4>1, <4>2
    <3>. QED BY <1>13, <3>1, <3>2
  <2>. QED BY <1>10, <1>11, <2>5, <2>6, <2>7
<1>17. IsSeq(masks) /\ \A k \in 1 .. Len(masks) : masks[k] \in Word /\ Solves(masks[k], solve)
  BY <1>2, MasksSolve DEF masks
<1>18. \A k \in 1 .. Len(masks) : masks[k] \in Word /\ crazy(masks[k], source) = target
  BY <1>3, <1>17
<1>19. \A m \in Word : crazy(m, source) = target =>
           \/ \E k \in 1 .. Len(masks) : masks[k] = m
           \/ Len(masks) = limit /\ \A k \in 1 .. Len(masks) : masks[k] < m
  BY <1>3, <1>16
<1>. QED BY <1>14, <1>15, <1>18, <1>19 DEF masks, solve

(* The masks of a value, whatever it is: each of them leads from it to the *)
(* next one, and there is one just when any word does.                     *)
Solvable(o) == \E m \in Word : crazy(m, Source(o)) = Target(o)

LEMMA SourceTarget ==
    ASSUME job \in Jobs, NEW o \in Int
    PROVE  Source(o) \in Word /\ Target(o) \in Word
<1>1. job.value + o \in Int  BY JobsAssumption
<1>2. Source(o) \in Word  BY <1>1, WordModFacts DEF Source
<1>3. Source(o) + 1 \in Int  BY <1>2, WordModFacts
<1>. QED BY <1>2, <1>3, WordModFacts DEF Target

LEMMA MaskFacts ==
    ASSUME job \in Jobs, NEW o \in Int
    PROVE  /\ IsSeq(Masks(o))
           /\ \A k \in 1 .. Len(Masks(o)) : Masks(o)[k] \in Word /\ crazy(Masks(o)[k], Source(o)) = Target(o)
           /\ Masks(o) # <<>> <=> Solvable(o)
<1>. DEFINE s == Source(o)
            t == Target(o)
            solve == solve_crazy(s, t)
            masks == masks_for_solve(solve, job.mask_limit)
<1>1. s \in Word /\ t \in Word  BY SourceTarget
<1>2. Masks(o) = IF possible(solve) THEN masks ELSE <<>>  BY DEF Masks
<1>3. Solvable(o) <=> possible(solve)  BY <1>1, PossibleIsSolvable DEF Solvable
<1>4. \A m \in Word : crazy(m, s) = t <=> Solves(m, solve)  BY <1>1, SolveIsExact
<1>5. \A n \in Position : solve[n] \subseteq Trit  BY DEF solve_crazy
<1>6. job.mask_limit \in Nat \ {0}  BY JobsAssumption
<1>. HIDE DEF solve, s, t
<1>7. /\ IsSeq(masks)
      /\ \A k \in 1 .. Len(masks) : masks[k] \in Word /\ Solves(masks[k], solve)
      /\ possible(solve) => Len(masks) > 0
  BY <1>5, <1>6, MasksSolve
<1>. HIDE DEF masks
<1>8. \A k \in 1 .. Len(masks) : masks[k] \in Word /\ crazy(masks[k], s) = t  BY <1>4, <1>7
<1>9. IsSeq(<<>>) /\ Len(<<>>) = 0  BY EmptyFacts
<1>10. CASE possible(solve)
  <2>1. Masks(o) = masks  BY <1>2, <1>10
  <2>2. masks # <<>>  BY <1>7, <1>9, <1>10
  <2>. QED BY <1>3, <1>7, <1>8, <1>10, <2>1, <2>2 DEF s, t
<1>11. CASE ~possible(solve)
  <2>1. Masks(o) = <<>>  BY <1>2, <1>11
  <2>. QED BY <1>3, <1>9, <1>11, <2>1
<1>. QED BY <1>10, <1>11

(***************************************************************************)
(* Plans                                                                   *)
(***************************************************************************)

LEMMA StepsSeq ==
    ASSUME job \in Jobs
    PROVE  IsSeq(Steps)
<1>1. job.constants \in Seq(Word)  BY JobsAssumption
<1>. DEFINE c == job.constants
            One(op) == [k \in DOMAIN c |-> Step(op, c[k])]
<1>2. \A op : One(op) \in Seq(Elements(One(op)))
  <2>. TAKE op
  <2>1. Len(c) \in Nat /\ DOMAIN c = 1 .. Len(c)  BY <1>1
  <2>. HIDE DEF c
  <2>2. One(op) \in Seq({Step(op, c[k]) : k \in 1 .. Len(c)})  BY <2>1
  <2>. QED BY <2>2, IntoSeq DEF IsSeq
<1>3. \A op : IsSeq(One(op))  BY <1>2 DEF IsSeq
<1>4. IsSeq(<<Step("rotA", 0)>>)  BY OneFacts
<1>5. IsSeq(toy_next_states(c))
  <2>1. toy_next_states(c) = <<Step("rotA", 0)>> \o One("crazy")  BY DEF toy_next_states
  <2>. HIDE DEF One, c
  <2>. QED BY <1>3, <1>4, <2>1, ConcatFacts
<1>6. IsSeq(runway_next_states(c))
  <2>1. runway_next_states(c) = One("p") \o One("*")  BY DEF runway_next_states
  <2>. HIDE DEF One, c
  <2>. QED BY <1>3, <2>1, ConcatFacts
<1>. QED BY <1>5, <1>6 DEF Steps, next_states

(* A runway has the steps p and *, on words. *)
LEMMA RunwaySteps ==
    ASSUME job \in Jobs, job.graph = "runway", NEW k \in 1 .. Len(Steps)
    PROVE  Steps[k].op \in {"p", "*"} /\ Steps[k].seed \in Word
<1>. DEFINE c == job.constants
            One(op) == [j \in DOMAIN c |-> Step(op, c[j])]
<1>1. c \in Seq(Word)  BY JobsAssumption
<1>2. Len(c) \in Nat /\ DOMAIN c = 1 .. Len(c) /\ \A j \in 1 .. Len(c) : c[j] \in Word  BY <1>1
<1>3. Steps = One("p") \o One("*")  BY DEF Steps, next_states, runway_next_states
<1>. HIDE DEF c
<1>4. ASSUME NEW op
      PROVE  /\ IsSeq(One(op)) /\ Len(One(op)) = Len(c)
             /\ \A j \in 1 .. Len(c) : One(op)[j].op = op /\ One(op)[j].seed \in Word
  <2>1. One(op) \in Seq({Step(op, c[j]) : j \in 1 .. Len(c)})  BY <1>2
  <2>2. IsSeq(One(op))  BY <2>1, IntoSeq
  <2>3. Len(One(op)) = Len(c)  BY <1>2, <2>1
  <2>4. ASSUME NEW j \in 1 .. Len(c) PROVE One(op)[j].op = op /\ One(op)[j].seed \in Word
    BY <1>2 DEF Step
  <2>. HIDE DEF One
  <2>. QED BY <2>2, <2>3, <2>4
<1>. HIDE DEF One
<1>5. /\ Len(Steps) = Len(c) + Len(c)
      /\ \A j \in 1 .. Len(c) : Steps[j] = One("p")[j]
      /\ \A j \in 1 .. Len(c) + Len(c) : j > Len(c) => Steps[j] = One("*")[j - Len(c)]
  <2>. DEFINE p == One("p")
              r == One("*")
  <2>1. IsSeq(p) /\ IsSeq(r) /\ Len(p) = Len(c) /\ Len(r) = Len(c) /\ Steps = p \o r  BY <1>3, <1>4
  <2>. HIDE DEF p, r
  <2>2. /\ Len(p \o r) = Len(p) + Len(r)
        /\ \A j \in 1 .. Len(p) : (p \o r)[j] = p[j]
        /\ \A j \in 1 .. Len(p) + Len(r) : j > Len(p) => (p \o r)[j] = r[j - Len(p)]
    BY <2>1, ConcatFacts
  <2>3. /\ Len(Steps) = Len(c) + Len(c)
        /\ \A j \in 1 .. Len(c) : Steps[j] = p[j]
        /\ \A j \in 1 .. Len(c) + Len(c) : j > Len(c) => Steps[j] = r[j - Len(c)]
    BY <2>1, <2>2
  <2>. QED BY <2>3 DEF p, r
<1>6. CASE k \in 1 .. Len(c)  BY <1>4, <1>5, <1>6
<1>7. CASE k \notin 1 .. Len(c)
  <2>1. k - Len(c) \in 1 .. Len(c) /\ Steps[k] = One("*")[k - Len(c)]  BY <1>2, <1>5, <1>7
  <2>. QED BY <1>4, <2>1
<1>. QED BY <1>6, <1>7

Labels == {Steps[k] : k \in 1 .. Len(Steps)}

Good(n) ==
    /\ IsSeq(n.steps) /\ IsSeq(n.path)
    /\ Replays(n) /\ Len(n.steps) <= job.max_depth
    /\ \A k \in 1 .. Len(n.steps) : n.steps[k] \in Labels

(* Every node in the queue, not only a solution, replays within the depth, *)
(* by steps of the graph.                                                  *)
PlanInv ==
    /\ job \in Jobs /\ IsSeq(queue) /\ IsSeq(found)
    /\ \A k \in 1 .. Len(queue) : Good(queue[k])
    /\ \A k \in 1 .. Len(found) : Good(found[k]) /\ found[k].value \in Head(goals)
    /\ node # Nobody => Good(node) /\ Len(node.steps) < job.max_depth /\ i \in Nat \ {0}

LEMMA RootGood ==
    ASSUME job \in Jobs
    PROVE  Good(Root(job.start))
<1>. DEFINE r == Root(job.start)
<1>1. r.steps = <<>> /\ r.path = <<mod_word(job.start)>> /\ r.value = mod_word(job.start)
  BY DEF Root, Node
<1>. HIDE DEF r
<1>2. IsSeq(r.steps) /\ Len(r.steps) = 0 /\ DOMAIN r.steps = {}  BY <1>1, EmptyFacts
<1>3. IsSeq(r.path) /\ Len(r.path) = 1 /\ r.path[1] = r.value  BY <1>1, OneFacts
<1>4. Replays(r)  BY <1>1, <1>2, <1>3 DEF Replays
<1>5. Good(r)  BY <1>2, <1>3, <1>4, JobsAssumption DEF Good
<1>. QED BY <1>5 DEF r

(* One step more, as Push records it. *)
LEMMA ChildGood ==
    ASSUME job \in Jobs, NEW n, Good(n), Len(n.steps) < job.max_depth, NEW s \in Labels
    PROVE  Good(Node(Apply(n.value, s), Append(n.steps, s), Append(n.path, Apply(n.value, s))))
<1>. DEFINE w == Apply(n.value, s)
            c == Node(w, Append(n.steps, s), Append(n.path, w))
<1>1. w = Apply(n.value, s)  OBVIOUS
<1>2. c.value = w /\ c.steps = Append(n.steps, s) /\ c.path = Append(n.path, w)  BY DEF Node
<1>. HIDE DEF w, c
<1>3. IsSeq(n.steps) /\ IsSeq(n.path) /\ Replays(n)  BY DEF Good
<1>4. /\ Len(n.path) = Len(n.steps) + 1 /\ Len(n.steps) \in Nat
      /\ DOMAIN n.steps = 1 .. Len(n.steps)
  BY <1>3, SeqFacts DEF Replays
<1>5. /\ IsSeq(c.steps) /\ Len(c.steps) = Len(n.steps) + 1
      /\ \A k \in 1 .. Len(n.steps) : c.steps[k] = n.steps[k]
      /\ c.steps[Len(n.steps) + 1] = s
  BY <1>2, <1>3, AppendFacts
<1>6. /\ IsSeq(c.path) /\ Len(c.path) = Len(n.path) + 1
      /\ \A k \in 1 .. Len(n.path) : c.path[k] = n.path[k]
      /\ c.path[Len(n.path) + 1] = w
  BY <1>2, <1>3, AppendFacts
<1>7. DOMAIN c.steps = 1 .. Len(n.steps) + 1  BY <1>4, <1>5, SeqFacts
<1>8. \A k \in 1 .. Len(n.steps) : c.path[k+1] = Apply(c.path[k], c.steps[k])
  <2>. TAKE k \in 1 .. Len(n.steps)
  <2>1. n.path[k+1] = Apply(n.path[k], n.steps[k])  BY <1>3, <1>4 DEF Replays
  <2>2. k \in 1 .. Len(n.path) /\ k + 1 \in 1 .. Len(n.path)  BY <1>4
  <2>. QED BY <1>5, <1>6, <2>1, <2>2
<1>9. c.path[Len(n.steps) + 2] = Apply(c.path[Len(n.steps) + 1], c.steps[Len(n.steps) + 1])
  <2>1. c.path[Len(n.steps) + 1] = n.value  BY <1>3, <1>4, <1>6 DEF Replays
  <2>2. c.path[Len(n.steps) + 2] = w  BY <1>4, <1>6
  <2>. QED BY <1>1, <1>5, <2>1, <2>2
<1>10. \A k \in DOMAIN c.steps : c.path[k+1] = Apply(c.path[k], c.steps[k])
  <2>. TAKE k \in DOMAIN c.steps
  <2>1. k \in 1 .. Len(n.steps) \/ (k = Len(n.steps) + 1 /\ k + 1 = Len(n.steps) + 2)
    BY <1>4, <1>7
  <2>. QED BY <1>8, <1>9, <2>1
<1>11. /\ Len(c.path) = Len(c.steps) + 1 /\ c.path[1] = mod_word(job.start)
       /\ c.path[Len(c.path)] = c.value
  BY <1>2, <1>3, <1>4, <1>5, <1>6 DEF Replays
<1>12. Replays(c)  BY <1>10, <1>11 DEF Replays
<1>13. Len(c.steps) <= job.max_depth  BY <1>4, <1>5, JobsAssumption
<1>14. \A k \in 1 .. Len(c.steps) : c.steps[k] \in Labels
  <2>1. \A k \in 1 .. Len(c.steps) : k \in 1 .. Len(n.steps) \/ k = Len(n.steps) + 1  BY <1>4, <1>5
  <2>. QED BY <1>5, <2>1 DEF Good
<1>16. Good(c)  BY <1>5, <1>6, <1>12, <1>13, <1>14 DEF Good
<1>. QED BY <1>16 DEF c, w

LEMMA PlanInit == Init => PlanInv
<1>. SUFFICES ASSUME Init PROVE PlanInv  OBVIOUS
<1>1. job \in Jobs /\ queue = <<Root(job.start)>> /\ found = <<>> /\ node = Nobody  BY DEF Init
<1>2. IsSeq(queue) /\ Len(queue) = 1 /\ queue[1] = Root(job.start)  BY <1>1, OneFacts
<1>3. IsSeq(found) /\ Len(found) = 0  BY <1>1, EmptyFacts
<1>4. \A k \in 1 .. Len(queue) : Good(queue[k])  BY <1>1, <1>2, RootGood
<1>. QED BY <1>1, <1>2, <1>3, <1>4 DEF PlanInv

(* Good speaks of the command line only, which no step changes. *)
LEMMA PlanCarried ==
    ASSUME job \in Jobs, UNCHANGED job, IsSeq(queue'), IsSeq(found'),
           \A k \in 1 .. Len(queue') : Good(queue'[k]),
           \A k \in 1 .. Len(found') : Good(found'[k]) /\ found'[k].value \in Head(goals'),
           node' # Nobody => Good(node') /\ Len(node'.steps) < job.max_depth /\ i' \in Nat \ {0}
    PROVE  PlanInv'
<1>1. Labels' = Labels  BY DEF Labels, Steps
<1>. QED BY <1>1 DEF PlanInv, Good, Replays

LEMMA RestartPlan ==
    ASSUME PlanInv, Restart, UNCHANGED job
    PROVE  PlanInv'
<1>1. queue' = <<Root(job.start)>> /\ found' = <<>> /\ node' = node  BY DEF Restart
<1>2. job \in Jobs  BY DEF PlanInv
<1>3. IsSeq(queue') /\ Len(queue') = 1 /\ queue'[1] = Root(job.start)  BY <1>1, OneFacts
<1>4. IsSeq(found') /\ Len(found') = 0  BY <1>1, EmptyFacts
<1>5. Good(Root(job.start))  BY <1>2, RootGood
<1>6. \A k \in 1 .. Len(queue') : Good(queue'[k])  BY <1>3, <1>5
<1>7. node' # Nobody => Good(node') /\ Len(node'.steps) < job.max_depth /\ i' \in Nat \ {0}
  BY <1>1 DEF Restart, PlanInv
<1>8. \A k \in 1 .. Len(found') : FALSE  BY <1>4
<1>. QED BY <1>2, <1>3, <1>4, <1>6, <1>7, <1>8, PlanCarried

LEMMA PlanNext == PlanInv /\ [Next]_vars => PlanInv'
<1>. SUFFICES ASSUME PlanInv, [Next]_vars PROVE PlanInv'  OBVIOUS
<1>0. job \in Jobs /\ IsSeq(queue) /\ IsSeq(found)  BY DEF PlanInv
<1>t. ASSUME Turning, queue' = Tail(queue)
      PROVE  /\ IsSeq(queue') /\ Good(Head(queue))
             /\ \A k \in 1 .. Len(queue') : Good(queue'[k])
  <2>1. queue # <<>>  BY <1>t DEF Turning
  <2>2. /\ IsSeq(Tail(queue)) /\ Len(queue) > 0 /\ Head(queue) = queue[1]
        /\ \A k \in 1 .. Len(Tail(queue)) : k + 1 \in 1 .. Len(queue) /\ Tail(queue)[k] = queue[k+1]
    BY <1>0, <2>1, TailFacts
  <2>3. 1 \in 1 .. Len(queue)  BY <1>0, <2>2, SeqFacts
  <2>. QED BY <1>t, <2>2, <2>3 DEF PlanInv
<1>1. CASE Find
  <2>1. /\ Turning /\ Accepts(Head(queue)) /\ queue' = Tail(queue)
        /\ found' = Append(found, Head(queue)) /\ UNCHANGED <<job, goals, node>>
    BY <1>1 DEF Find
  <2>2. IsSeq(queue') /\ Good(Head(queue)) /\ \A k \in 1 .. Len(queue') : Good(queue'[k])
    BY <1>t, <2>1
  <2>3. /\ IsSeq(found') /\ Len(found') = Len(found) + 1
        /\ \A k \in 1 .. Len(found) : found'[k] = found[k]
        /\ found'[Len(found) + 1] = Head(queue)
    BY <1>0, <2>1, AppendFacts
  <2>4. Head(queue).value \in Head(goals)  BY <2>1 DEF Accepts
  <2>5. \A k \in 1 .. Len(found') : Good(found'[k]) /\ found'[k].value \in Head(goals)
    <3>. TAKE k \in 1 .. Len(found')
    <3>1. k \in 1 .. Len(found) \/ k = Len(found) + 1  BY <1>0, <2>3, SeqFacts
    <3>. QED BY <2>2, <2>3, <2>4, <3>1 DEF PlanInv
  <2>. QED BY <1>0, <2>1, <2>2, <2>3, <2>5, PlanCarried DEF Turning
<1>2. CASE DropDeep
  <2>1. Turning /\ queue' = Tail(queue) /\ UNCHANGED <<job, goals, found, node>>
    BY <1>2 DEF DropDeep
  <2>2. IsSeq(queue') /\ \A k \in 1 .. Len(queue') : Good(queue'[k])  BY <1>t, <2>1
  <2>. QED BY <1>0, <2>1, <2>2, PlanCarried DEF PlanInv, Turning
<1>3. CASE Expand
  <2>1. /\ Turning /\ queue' = Tail(queue) /\ node' = Head(queue)
        /\ Len(Head(queue).steps) < job.max_depth /\ i' = 1 /\ UNCHANGED <<job, goals, found>>
    BY <1>3 DEF Expand
  <2>2. IsSeq(queue') /\ Good(Head(queue)) /\ \A k \in 1 .. Len(queue') : Good(queue'[k])
    BY <1>t, <2>1
  <2>. QED BY <1>0, <2>1, <2>2, PlanCarried DEF PlanInv
<1>4. CASE Skip
  BY <1>4 DEF Skip, PlanInv, Good, Replays, Labels, Steps
<1>5. CASE Push
  <2>. DEFINE child == Node(Reached, Append(node.steps, Steps[i]), Append(node.path, Reached))
  <2>1. node # Nobody /\ queue' = Append(queue, child) /\ UNCHANGED <<job, goals, found, node>>
    BY <1>5 DEF Push, Expanding
  <2>2. Good(node) /\ Len(node.steps) < job.max_depth  BY <2>1 DEF PlanInv
  <2>a. i \in Nat \ {0} /\ i <= Len(Steps) /\ i' = i + 1  BY <1>5, <2>1 DEF PlanInv, Push
  <2>b. Len(Steps) \in Nat  BY <1>0, StepsSeq, SeqFacts
  <2>c. Steps[i] \in Labels  BY <2>a, <2>b DEF Labels
  <2>3. Good(child)  BY <1>0, <2>2, <2>c, ChildGood DEF Reached
  <2>. HIDE DEF child
  <2>4. /\ IsSeq(queue') /\ Len(queue') = Len(queue) + 1
        /\ \A k \in 1 .. Len(queue) : queue'[k] = queue[k]
        /\ queue'[Len(queue) + 1] = child
    BY <1>0, <2>1, AppendFacts
  <2>5. \A k \in 1 .. Len(queue') : Good(queue'[k])
    <3>. TAKE k \in 1 .. Len(queue')
    <3>1. k \in 1 .. Len(queue) \/ k = Len(queue) + 1  BY <1>0, <2>4, SeqFacts
    <3>. QED BY <2>3, <2>4, <3>1 DEF PlanInv
  <2>. QED BY <1>0, <2>1, <2>2, <2>a, <2>4, <2>5, PlanCarried DEF PlanInv
<1>6. CASE Expanded
  BY <1>6 DEF Expanded, PlanInv, Good, Replays, Labels, Steps
<1>7. CASE NextMask
  BY <1>7, RestartPlan DEF NextMask
<1>8. CASE Tally
  <2>1. CASE Restart  BY <1>8, <2>1, RestartPlan DEF Tally
  <2>2. CASE UNCHANGED <<goals, search>>
    BY <1>8, <2>2 DEF Tally, search, PlanInv, Good, Replays, Labels, Steps
  <2>. QED BY <1>8, <2>1, <2>2 DEF Tally
<1>9. CASE UNCHANGED vars
  BY <1>9 DEF vars, search, PlanInv, Good, Replays, Labels, Steps
<1>. QED BY <1>1, <1>2, <1>3, <1>4, <1>5, <1>6, <1>7, <1>8, <1>9 DEF Next, Reported

(* Every solution printed can be followed from the start word to an        *)
(* accepted one within the depth, for every command line.                  *)
THEOREM PlansCanBeFollowed == Spec => []PlansReplay
<1>1. PlanInv => PlansReplay
  BY SeqFacts DEF PlanInv, PlansReplay, Good
<1>. QED BY <1>1, PlanInit, PlanNext, PTL DEF Spec

(***************************************************************************)
(* Words                                                                   *)
(***************************************************************************)

Distinct(s) == \A k, l \in 1 .. Len(s) : k # l => s[k].value # s[l].value
Apart(s, t) == \A k \in 1 .. Len(s), l \in 1 .. Len(t) : s[k].value # t[l].value
Within(s, S) == \A k \in 1 .. Len(s) : s[k].value \in S

Current == IF node = Nobody THEN <<>> ELSE <<node>>

(* What EachWordOnce says of one list, for its three parts and each pair   *)
(* of them; a word is marked before it is queued.                          *)
WordInv ==
    /\ IsSeq(queue) /\ IsSeq(found)
    /\ Distinct(queue) /\ Distinct(found)
    /\ Apart(found, queue) /\ Apart(found, Current) /\ Apart(Current, queue)
    /\ Within(queue, seen) /\ Within(found, seen) /\ Within(Current, seen)
    /\ goals = <<>> => node = Nobody

LEMMA ConcatDistinct ==
    ASSUME NEW s, NEW t, NEW S, IsSeq(s), IsSeq(t), Distinct(s), Distinct(t), Apart(s, t),
           Within(s, S), Within(t, S)
    PROVE  Distinct(s \o t) /\ Within(s \o t, S)
<1>. DEFINE u == s \o t
<1>1. Len(s) \in Nat /\ Len(t) \in Nat  BY SeqFacts
<1>2. /\ Len(u) = Len(s) + Len(t)
      /\ \A k \in 1 .. Len(s) : u[k] = s[k]
      /\ \A k \in 1 .. Len(s) + Len(t) : k > Len(s) => u[k] = t[k - Len(s)]
  BY ConcatFacts
<1>. HIDE DEF u
<1>3. \A k \in 1 .. Len(u) :
          \/ k \in 1 .. Len(s) /\ u[k] = s[k]
          \/ k > Len(s) /\ k - Len(s) \in 1 .. Len(t) /\ u[k] = t[k - Len(s)]
  BY <1>1, <1>2
<1>4. Within(u, S)  BY <1>3 DEF Within
<1>5. Distinct(u)
  <2>. SUFFICES ASSUME NEW k \in 1 .. Len(u), NEW l \in 1 .. Len(u), k # l
                PROVE  u[k].value # u[l].value
    BY DEF Distinct
  <2>1. CASE k \in 1 .. Len(s) /\ l \in 1 .. Len(s)  BY <1>1, <1>3, <2>1 DEF Distinct
  <2>2. CASE k \in 1 .. Len(s) /\ l \notin 1 .. Len(s)
    <3>1. u[k] = s[k]  BY <1>1, <1>2, <2>2
    <3>2. l - Len(s) \in 1 .. Len(t) /\ u[l] = t[l - Len(s)]  BY <1>3, <2>2
    <3>. QED BY <2>2, <3>1, <3>2 DEF Apart
  <2>3. CASE k \notin 1 .. Len(s) /\ l \in 1 .. Len(s)
    <3>1. u[l] = s[l]  BY <1>1, <1>2, <2>3
    <3>2. k - Len(s) \in 1 .. Len(t) /\ u[k] = t[k - Len(s)]  BY <1>3, <2>3
    <3>3. s[l].value # t[k - Len(s)].value  BY <2>3, <3>2 DEF Apart
    <3>. QED BY <3>1, <3>2, <3>3
  <2>4. CASE k \notin 1 .. Len(s) /\ l \notin 1 .. Len(s)
    <3>1. /\ k - Len(s) \in 1 .. Len(t) /\ l - Len(s) \in 1 .. Len(t) /\ k - Len(s) # l - Len(s)
          /\ u[k] = t[k - Len(s)] /\ u[l] = t[l - Len(s)]
      BY <1>1, <1>2, <1>3, <2>4
    <3>. QED BY <3>1 DEF Distinct
  <2>. QED BY <2>1, <2>2, <2>3, <2>4
<1>. QED BY <1>4, <1>5 DEF u

LEMMA CurrentFacts ==
    /\ IsSeq(Current) /\ Distinct(Current)
    /\ node = Nobody => Len(Current) = 0
    /\ node # Nobody => Len(Current) = 1 /\ Current[1] = node
<1>1. CASE node = Nobody
  <2>1. Current = <<>>  BY <1>1 DEF Current
  <2>2. IsSeq(Current) /\ Len(Current) = 0  BY <2>1, EmptyFacts
  <2>. QED BY <1>1, <2>2 DEF Distinct
<1>2. CASE node # Nobody
  <2>1. Current = <<node>>  BY <1>2 DEF Current
  <2>2. IsSeq(Current) /\ Len(Current) = 1 /\ Current[1] = node  BY <2>1, OneFacts
  <2>. QED BY <1>2, <2>2 DEF Distinct
<1>. QED BY <1>1, <1>2

(* A search begins: the root alone. *)
LEMMA FreshWords ==
    ASSUME NEW q, NEW r, q = <<Root(r)>>
    PROVE  /\ IsSeq(q) /\ Distinct(q) /\ Within(q, {mod_word(r)})
           /\ IsSeq(<<>>) /\ Distinct(<<>>) /\ Apart(<<>>, q) /\ Apart(<<>>, <<>>)
           /\ Within(<<>>, {mod_word(r)})
<1>1. IsSeq(q) /\ Len(q) = 1 /\ q[1] = Root(r)  BY OneFacts
<1>2. Root(r).value = mod_word(r)  BY DEF Root, Node
<1>3. IsSeq(<<>>) /\ Len(<<>>) = 0  BY EmptyFacts
<1>. QED BY <1>1, <1>2, <1>3 DEF Distinct, Within, Apart

LEMMA WordsInit == Init => WordInv
<1>. SUFFICES ASSUME Init PROVE WordInv  OBVIOUS
<1>1. queue = <<Root(job.start)>> /\ seen = {mod_word(job.start)} /\ found = <<>> /\ node = Nobody
  BY DEF Init
<1>2. Current = <<>>  BY <1>1 DEF Current
<1>. QED BY <1>1, <1>2, FreshWords DEF WordInv

LEMMA RestartWords ==
    ASSUME Restart, node = Nobody
    PROVE  WordInv'
<1>1. /\ queue' = <<Root(job.start)>> /\ seen' = {mod_word(job.start)} /\ found' = <<>>
      /\ node' = Nobody
  BY DEF Restart
<1>2. Current' = <<>>  BY <1>1 DEF Current
<1>. QED BY <1>1, <1>2, FreshWords DEF WordInv

(* Taking the head off the queue. *)
LEMMA TakeHead ==
    ASSUME WordInv, Turning
    PROVE  /\ IsSeq(Tail(queue)) /\ Distinct(Tail(queue)) /\ Within(Tail(queue), seen)
           /\ Apart(found, Tail(queue)) /\ Head(queue).value \in seen
           /\ \A k \in 1 .. Len(Tail(queue)) : Tail(queue)[k].value # Head(queue).value
           /\ \A k \in 1 .. Len(found) : found[k].value # Head(queue).value
<1>1. IsSeq(queue) /\ queue # <<>>  BY DEF WordInv, Turning
<1>2. /\ IsSeq(Tail(queue)) /\ Len(queue) > 0 /\ Len(Tail(queue)) = Len(queue) - 1
      /\ Head(queue) = queue[1]
      /\ \A k \in 1 .. Len(Tail(queue)) : k + 1 \in 1 .. Len(queue) /\ Tail(queue)[k] = queue[k+1]
  BY <1>1, TailFacts
<1>3. Len(queue) \in Nat /\ 1 \in 1 .. Len(queue)  BY <1>1, <1>2, SeqFacts
<1>4. Within(Tail(queue), seen) /\ Head(queue).value \in seen
  BY <1>2, <1>3 DEF WordInv, Within
<1>5. Apart(found, Tail(queue)) /\ \A k \in 1 .. Len(found) : found[k].value # Head(queue).value
  BY <1>2, <1>3 DEF WordInv, Apart
<1>6. Distinct(Tail(queue))
  <2>. SUFFICES ASSUME NEW k \in 1 .. Len(Tail(queue)), NEW l \in 1 .. Len(Tail(queue)), k # l
                PROVE  Tail(queue)[k].value # Tail(queue)[l].value
    BY DEF Distinct
  <2>1. k + 1 \in 1 .. Len(queue) /\ l + 1 \in 1 .. Len(queue) /\ k + 1 # l + 1  BY <1>2, <1>3
  <2>. QED BY <1>2, <2>1 DEF WordInv, Distinct
<1>7. \A k \in 1 .. Len(Tail(queue)) : Tail(queue)[k].value # Head(queue).value
  <2>. TAKE k \in 1 .. Len(Tail(queue))
  <2>1. k + 1 \in 1 .. Len(queue) /\ k + 1 # 1  BY <1>2, <1>3
  <2>. QED BY <1>2, <1>3, <2>1 DEF WordInv, Distinct
<1>. QED BY <1>2, <1>4, <1>5, <1>6, <1>7

(* Adding a node whose word is none of the others. *)
LEMMA AppendWord ==
    ASSUME NEW s, NEW n, NEW S, IsSeq(s), Distinct(s), Within(s, S),
           \A k \in 1 .. Len(s) : s[k].value # n.value
    PROVE  Distinct(Append(s, n)) /\ Within(Append(s, n), S \cup {n.value})
<1>. DEFINE u == Append(s, n)
<1>1. /\ Len(s) \in Nat /\ Len(u) = Len(s) + 1
      /\ \A k \in 1 .. Len(s) : u[k] = s[k]
      /\ u[Len(s) + 1] = n
  BY SeqFacts, AppendFacts
<1>. HIDE DEF u
<1>2. \A k \in 1 .. Len(u) : k \in 1 .. Len(s) \/ k = Len(s) + 1  BY <1>1
<1>3. Within(u, S \cup {n.value})  BY <1>1, <1>2 DEF Within
<1>4. Distinct(u)  BY <1>1, <1>2 DEF Distinct
<1>. QED BY <1>3, <1>4 DEF u

LEMMA AppendApart ==
    ASSUME NEW s, NEW t, NEW n, IsSeq(t), Apart(s, t),
           \A k \in 1 .. Len(s) : s[k].value # n.value
    PROVE  Apart(s, Append(t, n))
<1>1. /\ Len(t) \in Nat /\ Len(Append(t, n)) = Len(t) + 1
      /\ \A k \in 1 .. Len(t) : Append(t, n)[k] = t[k]
      /\ Append(t, n)[Len(t) + 1] = n
  BY SeqFacts, AppendFacts
<1>2. \A k \in 1 .. Len(Append(t, n)) : k \in 1 .. Len(t) \/ k = Len(t) + 1  BY <1>1
<1>. QED BY <1>1, <1>2 DEF Apart

LEMMA ApartSym ==
    ASSUME NEW s, NEW t, Apart(s, t)
    PROVE  Apart(t, s)
BY DEF Apart

(* While nothing is expanded only found and queue count. *)
LEMMA WithoutCurrent ==
    ASSUME node = Nobody
    PROVE  \A s, S : Apart(s, Current) /\ Apart(Current, s) /\ Within(Current, S)
<1>1. Len(Current) = 0  BY CurrentFacts
<1>. QED BY <1>1 DEF Apart, Within

LEMMA WordsNext == WordInv /\ [Next]_vars => WordInv'
<1>. SUFFICES ASSUME WordInv, [Next]_vars PROVE WordInv'  OBVIOUS
<1>1. CASE Find
  <2>1. /\ Turning /\ queue' = Tail(queue) /\ found' = Append(found, Head(queue))
        /\ UNCHANGED <<goals, seen, node>> /\ node = Nobody
    BY <1>1 DEF Find, Turning
  <2>2. IsSeq(found') /\ Distinct(found') /\ Within(found', seen \cup {Head(queue).value})
    BY <2>1, TakeHead, AppendFacts, AppendWord DEF WordInv
  <2>3. seen \cup {Head(queue).value} = seen  BY <2>1, TakeHead
  <2>4. Apart(queue', found)  BY <2>1, TakeHead, ApartSym
  <2>5. Apart(queue', found')  BY <2>1, <2>4, TakeHead, AppendApart DEF WordInv
  <2>6. Apart(found', queue')  BY <2>5, ApartSym
  <2>7. Current' = Current  BY <2>1 DEF Current
  <2>. QED BY <2>1, <2>2, <2>3, <2>6, <2>7, TakeHead, WithoutCurrent DEF WordInv
<1>2. CASE DropDeep
  <2>1. Turning /\ queue' = Tail(queue) /\ UNCHANGED <<goals, found, seen, node>> /\ node = Nobody
    BY <1>2 DEF DropDeep, Turning
  <2>2. Current' = Current  BY <2>1 DEF Current
  <2>. QED BY <2>1, <2>2, TakeHead, WithoutCurrent DEF WordInv
<1>3. CASE Expand
  <2>1. /\ Turning /\ queue' = Tail(queue) /\ node' = Head(queue) /\ goals # <<>>
        /\ UNCHANGED <<goals, found, seen>>
    BY <1>3 DEF Expand, Turning, Searching
  <2>2. \/ Len(Current') = 0
        \/ Len(Current') = 1 /\ Current'[1] = Head(queue)
    <3>1. CASE node' = Nobody
      BY <3>1, EmptyFacts DEF Current
    <3>2. CASE node' # Nobody
      BY <2>1, <3>2, OneFacts DEF Current
    <3>. QED BY <3>1, <3>2
  <2>3. Apart(found, Current') /\ Apart(Current', queue') /\ Within(Current', seen)
    BY <2>1, <2>2, TakeHead DEF Apart, Within
  <2>. QED BY <2>1, <2>3, TakeHead DEF WordInv
<1>4. CASE Skip
  <2>1. UNCHANGED <<goals, queue, seen, found, node>>  BY <1>4 DEF Skip
  <2>2. Current' = Current  BY <2>1 DEF Current
  <2>. QED BY <2>1, <2>2 DEF WordInv
<1>5. CASE Push
  <2>. DEFINE child == Node(Reached, Append(node.steps, Steps[i]), Append(node.path, Reached))
  <2>1. /\ Reached \notin seen /\ seen' = seen \cup {Reached} /\ queue' = Append(queue, child)
        /\ UNCHANGED <<goals, found, node>>
    BY <1>5 DEF Push
  <2>2. child.value = Reached  BY DEF Node
  <2>. HIDE DEF child
  <2>3. Current' = Current  BY <2>1 DEF Current
  <2>4. \A s : Within(s, seen) => \A k \in 1 .. Len(s) : s[k].value # child.value
    BY <2>1, <2>2 DEF Within
  <2>5. \A s : Within(s, seen) => Within(s, seen')  BY <2>1 DEF Within
  <2>6. IsSeq(queue') /\ Distinct(queue') /\ Within(queue', seen')
    BY <2>1, <2>2, <2>4, AppendFacts, AppendWord DEF WordInv
  <2>7. Apart(found, queue')  BY <2>1, <2>4, AppendApart DEF WordInv
  <2>8. Apart(Current, queue')  BY <2>1, <2>4, AppendApart DEF WordInv
  <2>. QED BY <2>1, <2>3, <2>5, <2>6, <2>7, <2>8 DEF WordInv
<1>6. CASE Expanded
  <2>1. UNCHANGED <<goals, queue, seen, found>> /\ node' = Nobody  BY <1>6 DEF Expanded
  <2>2. Len(Current') = 0  BY <2>1, EmptyFacts DEF Current
  <2>3. Apart(found, Current') /\ Apart(Current', queue) /\ Within(Current', seen)
    BY <2>2 DEF Apart, Within
  <2>. QED BY <2>1, <2>3 DEF WordInv
<1>7. CASE NextMask
  BY <1>7, RestartWords DEF NextMask, Returned
<1>8. CASE Tally
  <2>1. node = Nobody  BY <1>8 DEF Tally, Returned, WordInv
  <2>2. CASE Restart  BY <2>1, <2>2, RestartWords
  <2>3. CASE UNCHANGED <<goals, search>>
    <3>1. UNCHANGED <<goals, queue, seen, found, node>>  BY <2>3 DEF search
    <3>2. Current' = Current  BY <3>1 DEF Current
    <3>. QED BY <3>1, <3>2 DEF WordInv
  <2>. QED BY <1>8, <2>2, <2>3 DEF Tally
<1>9. CASE UNCHANGED vars
  <2>1. UNCHANGED <<goals, queue, seen, found, node>>  BY <1>9 DEF vars, search
  <2>2. Current' = Current  BY <2>1 DEF Current
  <2>. QED BY <2>1, <2>2 DEF WordInv
<1>. QED BY <1>1, <1>2, <1>3, <1>4, <1>5, <1>6, <1>7, <1>8, <1>9 DEF Next, Reported

(* bfs_find queues and reports every word at most once, whatever the graph *)
(* it searches.                                                            *)
THEOREM WordsAreQueuedOnce == Spec => []EachWordOnce
<1>1. WordInv => EachWordOnce
  <2>. SUFFICES ASSUME WordInv PROVE EachWordOnce  OBVIOUS
  <2>. DEFINE nodes == found \o Current \o queue
  <2>1. IsSeq(Current) /\ Distinct(Current)  BY CurrentFacts
  <2>2. Distinct(found \o Current) /\ Within(found \o Current, seen) /\ IsSeq(found \o Current)
    BY <2>1, ConcatDistinct, ConcatFacts DEF WordInv
  <2>3. Apart(found \o Current, queue)
    <3>1. /\ Len(found \o Current) = Len(found) + Len(Current)
          /\ \A k \in 1 .. Len(found) : (found \o Current)[k] = found[k]
          /\ \A k \in 1 .. Len(found) + Len(Current) :
                 k > Len(found) => (found \o Current)[k] = Current[k - Len(found)]
      BY <2>1, ConcatFacts DEF WordInv
    <3>2. Len(found) \in Nat /\ Len(Current) \in Nat  BY <2>1, SeqFacts DEF WordInv
    <3>3. \A k \in 1 .. Len(found) + Len(Current) :
              k \in 1 .. Len(found) \/ (k > Len(found) /\ k - Len(found) \in 1 .. Len(Current))
      BY <3>2
    <3>. DEFINE fc == found \o Current
    <3>4. Apart(found, queue) /\ Apart(Current, queue)  BY DEF WordInv
    <3>5. \A k \in 1 .. Len(fc) :
              \/ \E l \in 1 .. Len(found) : fc[k] = found[l]
              \/ \E l \in 1 .. Len(Current) : fc[k] = Current[l]
      BY <3>1, <3>3
    <3>. HIDE DEF fc
    <3>6. Apart(fc, queue)  BY <3>4, <3>5 DEF Apart
    <3>. QED BY <3>6 DEF fc
  <2>4. Distinct(nodes) /\ Within(nodes, seen) /\ IsSeq(nodes)
    BY <2>2, <2>3, ConcatDistinct, ConcatFacts DEF WordInv
  <2>5. DOMAIN nodes = 1 .. Len(nodes)  BY <2>4, SeqFacts
  <2>. HIDE DEF nodes
  <2>6. /\ \A k, l \in DOMAIN nodes : k # l => nodes[k].value # nodes[l].value
        /\ \A k \in DOMAIN nodes : nodes[k].value \in seen
    BY <2>4, <2>5 DEF Distinct, Within
  <2>. QED BY <2>6 DEF EachWordOnce, nodes, Current
<1>. QED BY <1>1, WordsInit, WordsNext, PTL DEF Spec

(***************************************************************************)
(* Layers                                                                  *)
(***************************************************************************)

D == job.max_depth
W(d) == Layer[d].seen
New(d) == Layer[d].new
Reach(S) == {Apply(v, Steps[k]) : v \in S, k \in DOMAIN Steps}
NextLayer(l) == [new |-> Reach(l.new) \ l.seen, seen |-> l.seen \cup Reach(l.new)]
FirstLayer == [new |-> {mod_word(job.start)}, seen |-> {mod_word(job.start)}]

(* A table of the layers up to m. *)
IsLayers(h, m) == h = [d \in 0 .. m |-> IF d = 0 THEN FirstLayer ELSE NextLayer(h[d-1])]

(* The recursion of cmd_profile has a solution, and Layer is it. *)
LEMMA LayersExist ==
    ASSUME NEW m \in Nat
    PROVE  \E h : IsLayers(h, m)
<1>. DEFINE Ok == {k \in Nat : \E h : IsLayers(h, k)}
<1>1. 0 \in Ok
  <2>. DEFINE h == [d \in 0 .. 0 |-> FirstLayer]
  <2>1. h = [d \in 0 .. 0 |-> IF d = 0 THEN FirstLayer ELSE NextLayer(h[d-1])]  OBVIOUS
  <2>. QED BY <2>1 DEF IsLayers
<1>2. ASSUME NEW k \in Nat, k \in Ok PROVE k + 1 \in Ok
  <2>1. PICK h : IsLayers(h, k)  BY <1>2
  <2>. DEFINE g == [d \in 0 .. k+1 |-> IF d = k+1 THEN NextLayer(h[k]) ELSE h[d]]
  <2>2. ASSUME NEW d \in 0 .. k+1
        PROVE  g[d] = IF d = 0 THEN FirstLayer ELSE NextLayer(g[d-1])
    <3>1. CASE d = k + 1
      <4>1. g[d-1] = h[k] /\ g[d] = NextLayer(h[k]) /\ d # 0  BY <3>1
      <4>. QED BY <4>1
    <3>2. CASE d \in 0 .. k
      <4>1. g[d] = h[d]  BY <3>2
      <4>2. d # 0 => d - 1 \in 0 .. k+1 /\ d - 1 # k + 1  BY <3>2
      <4>3. d # 0 => g[d-1] = h[d-1]  BY <4>2
      <4>4. h[d] = IF d = 0 THEN FirstLayer ELSE NextLayer(h[d-1])  BY <2>1, <3>2 DEF IsLayers
      <4>. QED BY <4>1, <4>3, <4>4
    <3>. QED BY <3>1, <3>2
  <2>3. g = [d \in 0 .. k+1 |-> g[d]]  OBVIOUS
  <2>. HIDE DEF g
  <2>4. IsLayers(g, k + 1)  BY <2>2, <2>3 DEF IsLayers
  <2>. QED BY <2>4
<1>. HIDE DEF Ok
<1>3. m \in Ok  BY <1>1, <1>2, SetInduction
<1>. QED BY <1>3 DEF Ok

LEMMA LayerRecursion ==
    ASSUME job \in Jobs
    PROVE  /\ D \in Nat /\ New(0) = {mod_word(job.start)} /\ W(0) = {mod_word(job.start)}
           /\ \A d \in 1 .. D : /\ New(d) = Reach(New(d-1)) \ W(d-1)
                                /\ W(d) = W(d-1) \cup Reach(New(d-1))
<1>1. D \in Nat  BY JobsAssumption DEF D
<1>2. Layer = CHOOSE h : h = [d \in 0 .. D |-> IF d = 0 THEN FirstLayer ELSE NextLayer(h[d-1])]
  BY DEF Layer, Layers, D, FirstLayer, NextLayer, Reach, Steps
<1>3. IsLayers(Layer, D)  BY <1>1, <1>2, LayersExist DEF IsLayers
<1>4. /\ Layer[0] = FirstLayer
      /\ \A d \in 1 .. D : d \in 0 .. D /\ Layer[d] = NextLayer(Layer[d-1])
  BY <1>1, <1>3 DEF IsLayers
<1>5. New(0) = {mod_word(job.start)} /\ W(0) = {mod_word(job.start)}
  BY <1>4 DEF New, W, FirstLayer
<1>6. \A l : NextLayer(l).new = Reach(l.new) \ l.seen /\ NextLayer(l).seen = l.seen \cup Reach(l.new)
  BY DEF NextLayer
<1>7. ASSUME NEW d \in 1 .. D
      PROVE  New(d) = Reach(New(d-1)) \ W(d-1) /\ W(d) = W(d-1) \cup Reach(New(d-1))
  <2>. DEFINE l == Layer[d-1]
  <2>1. Layer[d] = NextLayer(l)  BY <1>4
  <2>2. New(d-1) = l.new /\ W(d-1) = l.seen  BY DEF New, W
  <2>3. New(d) = NextLayer(l).new /\ W(d) = NextLayer(l).seen  BY <2>1 DEF New, W
  <2>. HIDE DEF l
  <2>. QED BY <1>6, <2>2, <2>3
<1>. QED BY <1>1, <1>5, <1>7

LEMMA LayersGrow ==
    ASSUME job \in Jobs
    PROVE  \A b \in 0 .. D : \A a \in 0 .. b : W(a) \subseteq W(b)
<1>. DEFINE S == {b \in 0 .. D : \A a \in 0 .. b : W(a) \subseteq W(b)}
<1>1. D \in Nat /\ \A d \in 1 .. D : W(d-1) \subseteq W(d)  BY LayerRecursion
<1>2. 0 \in S  BY <1>1
<1>3. ASSUME NEW b \in 0 .. D - 1, b \in S PROVE b + 1 \in S
  <2>1. b + 1 \in 1 .. D /\ (b + 1) - 1 = b /\ b + 1 \in 0 .. D  BY <1>1
  <2>2. W(b) \subseteq W(b+1)  BY <1>1, <2>1
  <2>3. ASSUME NEW a \in 0 .. b + 1 PROVE W(a) \subseteq W(b+1)
    <3>1. a = b + 1 \/ a \in 0 .. b  BY <2>1
    <3>2. a \in 0 .. b => W(a) \subseteq W(b)  BY <1>3
    <3>. QED BY <2>2, <3>1, <3>2
  <2>. QED BY <2>1, <2>3
<1>. HIDE DEF S
<1>4. 0 .. D \subseteq S  BY <1>1, <1>2, <1>3, BoundedInduction
<1>. QED BY <1>4 DEF S

(* A word of layer d that no earlier layer has is one of the new words, so *)
(* its successors are in the next layer.                                   *)
LEMMA SuccessorsNext ==
    ASSUME job \in Jobs, NEW d \in 0 .. D - 1, NEW w, w \in W(d), d > 0 => w \notin W(d-1),
           NEW k \in DOMAIN Steps
    PROVE  Apply(w, Steps[k]) \in W(d+1)
<1>1. D \in Nat /\ d + 1 \in 1 .. D /\ (d + 1) - 1 = d  BY LayerRecursion
<1>2. w \in New(d)
  <2>1. CASE d = 0  BY <2>1, LayerRecursion
  <2>2. CASE d > 0
    <3>1. d \in 1 .. D  BY <1>1, <2>2
    <3>. QED BY <2>2, <3>1, LayerRecursion
  <2>. QED BY <1>1, <2>1, <2>2
<1>3. Apply(w, Steps[k]) \in Reach(New(d))  BY <1>2 DEF Reach
<1>. QED BY <1>1, <1>3, LayerRecursion

(* A set with the start word and the successors of the words of W(d-1) has *)
(* all of W(d).                                                            *)
LEMMA ClosedHasLayer ==
    ASSUME job \in Jobs, NEW d \in 0 .. D, NEW S, mod_word(job.start) \in S,
           d > 0 => \A w \in S \cap W(d-1) : \A k \in DOMAIN Steps : Apply(w, Steps[k]) \in S
    PROVE  W(d) \subseteq S
<1>. DEFINE T == {b \in 0 .. d : W(b) \subseteq S /\ New(b) \subseteq W(b)}
<1>1. D \in Nat /\ d \in Nat  BY LayerRecursion
<1>2. 0 \in T  BY <1>1, LayerRecursion
<1>3. ASSUME NEW b \in 0 .. d - 1, b \in T PROVE b + 1 \in T
  <2>1. b + 1 \in 1 .. D /\ (b + 1) - 1 = b /\ b + 1 \in 0 .. d /\ d > 0
        /\ b \in 0 .. d - 1 /\ d - 1 \in 0 .. D
    BY <1>1
  <2>2. /\ W(b+1) = W(b) \cup Reach(New(b)) /\ New(b+1) = Reach(New(b)) \ W(b)
    BY <2>1, LayerRecursion
  <2>3. W(b) \subseteq S /\ New(b) \subseteq W(b)  BY <1>3
  <2>4. W(b) \subseteq W(d-1)  BY <2>1, LayersGrow
  <2>5. Reach(New(b)) \subseteq S  BY <2>1, <2>3, <2>4 DEF Reach
  <2>. QED BY <2>1, <2>2, <2>3, <2>5
<1>. HIDE DEF T
<1>4. 0 .. d \subseteq T  BY <1>1, <1>2, <1>3, BoundedInduction
<1>5. d \in 0 .. d  BY <1>1
<1>. QED BY <1>4, <1>5 DEF T

(***************************************************************************)
(* The search in layers                                                    *)
(***************************************************************************)

Depth(n) == Len(n.steps)

(* What a search is for, but for the start that it overlooks. *)
Counted(goal) == goal \ Overlooked

(* A node lies in the layer of its depth, and in no earlier one. *)
Placed(n) == n.value \in W(Depth(n)) /\ (Depth(n) > 0 => n.value \notin W(Depth(n) - 1))

(* The nodes still to come lie in two layers next to each other, in order; *)
(* while one is expanded, in its own and the next.                         *)
QueueOk(q) ==
    /\ \A k \in 1 .. Len(q) : Placed(q[k])
    /\ \A k, l \in 1 .. Len(q) : Depth(q[l]) <= Depth(q[k]) + 1
    /\ \A k, l \in 1 .. Len(q) : k < l => Depth(q[k]) <= Depth(q[l])

NodeOk(n, j, q, s) ==
    n # Nobody =>
        /\ Placed(n) /\ n.value \notin Counted(Head(goals))
        /\ \A k \in 1 .. Len(q) : Depth(q[k]) \in {Depth(n), Depth(n) + 1}
        /\ j \in Nat \ {0} /\ \A k \in DOMAIN Steps : k < j => Apply(n.value, Steps[k]) \in s

(* A word seen is still to be dealt with, or it is not what is looked for  *)
(* and its successors are seen, if they are within the depth.              *)
Pending(w, q, n) == (\E k \in 1 .. Len(q) : q[k].value = w) \/ (n # Nobody /\ n.value = w)

Settled(w, s) ==
    /\ w \notin Counted(Head(goals))
    /\ (D > 0 /\ w \in W(D - 1)) => \A k \in DOMAIN Steps : Apply(w, Steps[k]) \in s

SeenOk(s, q, n) ==
    /\ mod_word(job.start) \in s
    /\ \A w \in s : Pending(w, q, n) \/ Settled(w, s)

LayerInv ==
    found = <<>> =>
        /\ QueueOk(queue) /\ NodeOk(node, i, queue, seen) /\ SeenOk(seen, queue, node)

LEMMA GoodDepth ==
    ASSUME job \in Jobs, NEW n, Good(n)
    PROVE  /\ Depth(n) \in 0 .. D /\ n # Nobody
           /\ n.steps = <<>> => n.value = mod_word(job.start)
<1>1. D \in Nat  BY LayerRecursion
<1>2. /\ Len(n.steps) \in Nat /\ Len(n.steps) <= D /\ Len(n.path) = Len(n.steps) + 1
      /\ n.path[1] = mod_word(job.start) /\ n.path[Len(n.path)] = n.value
  BY SeqFacts DEF Good, Replays, D
<1>3. Nobody.path = <<>> /\ Nobody.steps = <<>>  BY DEF Nobody, Node
<1>4. n # Nobody  BY <1>2, <1>3, EmptyFacts
<1>5. n.steps = <<>> => Len(n.steps) = 0  BY EmptyFacts
<1>. QED BY <1>1, <1>2, <1>4, <1>5 DEF Depth

(* What the predicate rejects does not count as found. *)
LEMMA RejectedUncounted ==
    ASSUME job \in Jobs, NEW n, Good(n), ~Accepts(n)
    PROVE  n.value \notin Counted(Head(goals))
BY GoodDepth DEF Accepts, Counted, Overlooked

(* Once every node still to come is at depth d or beyond, all of layer d   *)
(* has been seen and everything before it is settled.                      *)
LEMMA SeenBelow ==
    ASSUME PlanInv, QueueOk(queue), NodeOk(node, i, queue, seen), SeenOk(seen, queue, node),
           NEW d \in 0 .. D,
           \A k \in 1 .. Len(queue) : Depth(queue[k]) >= d,
           node # Nobody => Depth(node) >= d
    PROVE  W(d) \subseteq seen /\ (d > 0 => \A w \in W(d-1) : Settled(w, seen))
<1>1. job \in Jobs /\ D \in Nat  BY LayerRecursion DEF PlanInv
<1>2. ASSUME NEW n, Good(n), Placed(n), Depth(n) >= d, d > 0
      PROVE  n.value \notin W(d-1)
  <2>1. Depth(n) \in 0 .. D  BY <1>1, <1>2, GoodDepth
  <2>2. Depth(n) - 1 \in 0 .. D /\ d - 1 \in 0 .. Depth(n) - 1 /\ Depth(n) > 0  BY <1>1, <1>2, <2>1
  <2>3. W(d-1) \subseteq W(Depth(n) - 1)  BY <1>1, <2>2, LayersGrow
  <2>. QED BY <1>2, <2>2, <2>3 DEF Placed
<1>3. ASSUME d > 0, NEW w \in seen \cap W(d-1) PROVE Settled(w, seen)
  <2>1. ~Pending(w, queue, node)
    <3>1. ASSUME NEW k \in 1 .. Len(queue) PROVE queue[k].value # w
      <4>1. Good(queue[k]) /\ Placed(queue[k]) /\ Depth(queue[k]) >= d  BY DEF PlanInv, QueueOk
      <4>. QED BY <1>2, <1>3, <4>1
    <3>2. ASSUME node # Nobody PROVE node.value # w
      <4>1. Good(node) /\ Placed(node) /\ Depth(node) >= d  BY <3>2 DEF PlanInv, NodeOk
      <4>. QED BY <1>2, <1>3, <4>1
    <3>. QED BY <3>1, <3>2 DEF Pending
  <2>. QED BY <2>1 DEF SeenOk
<1>4. ASSUME d > 0 PROVE W(d-1) \subseteq W(D-1) /\ W(d-1) \subseteq W(d) /\ D > 0
  <2>1. d - 1 \in 0 .. D - 1 /\ D - 1 \in 0 .. D /\ d - 1 \in 0 .. d /\ D > 0  BY <1>1, <1>4
  <2>. QED BY <1>1, <2>1, LayersGrow
<1>5. d > 0 => \A w \in seen \cap W(d-1) : \A k \in DOMAIN Steps : Apply(w, Steps[k]) \in seen
  BY <1>3, <1>4 DEF Settled
<1>6. W(d) \subseteq seen  BY <1>1, <1>5, ClosedHasLayer DEF SeenOk
<1>. QED BY <1>3, <1>4, <1>6

(* A search begins: everything is still to come. *)
LEMMA FreshLayers ==
    ASSUME job \in Jobs, NEW q, NEW s, NEW j, q = <<Root(job.start)>>, s = {mod_word(job.start)}
    PROVE  QueueOk(q) /\ NodeOk(Nobody, j, q, s) /\ SeenOk(s, q, Nobody)
<1>1. IsSeq(q) /\ Len(q) = 1 /\ q[1] = Root(job.start)  BY OneFacts
<1>2. Root(job.start).value = mod_word(job.start) /\ Root(job.start).steps = <<>>  BY DEF Root, Node
<1>3. Depth(q[1]) = 0 /\ q[1].value = mod_word(job.start)  BY <1>1, <1>2, EmptyFacts DEF Depth
<1>4. Placed(q[1])  BY <1>3, LayerRecursion DEF Placed
<1>5. \A k \in 1 .. Len(q) : k = 1  BY <1>1
<1>6. QueueOk(q)  BY <1>3, <1>4, <1>5 DEF QueueOk
<1>7. SeenOk(s, q, Nobody)  BY <1>1, <1>3 DEF SeenOk, Pending
<1>. QED BY <1>6, <1>7 DEF NodeOk

(* The head of the queue taken off. *)
LEMMA Popped ==
    ASSUME PlanInv, Turning, QueueOk(queue), SeenOk(seen, queue, node)
    PROVE  /\ QueueOk(Tail(queue)) /\ Placed(Head(queue)) /\ Good(Head(queue))
           /\ \A k \in 1 .. Len(queue) : Depth(queue[k]) >= Depth(Head(queue))
           /\ \A k \in 1 .. Len(Tail(queue)) :
                  Depth(Tail(queue)[k]) \in {Depth(Head(queue)), Depth(Head(queue)) + 1}
           /\ \A n : \A w \in seen :
                  w = Head(queue).value \/ Pending(w, Tail(queue), n) \/ Settled(w, seen)
<1>. DEFINE t == Tail(queue)
            h == Head(queue)
<1>1. IsSeq(queue) /\ queue # <<>> /\ node = Nobody /\ job \in Jobs  BY DEF PlanInv, Turning
<1>2. /\ Len(queue) > 0 /\ Len(t) = Len(queue) - 1 /\ h = queue[1] /\ Len(queue) \in Nat
      /\ \A k \in 1 .. Len(t) : k + 1 \in 1 .. Len(queue) /\ t[k] = queue[k+1]
  BY <1>1, TailFacts, SeqFacts
<1>3. \A k \in 1 .. Len(queue) : k = 1 \/ (k - 1 \in 1 .. Len(t) /\ t[k-1] = queue[k])  BY <1>2
<1>4. 1 \in 1 .. Len(queue) /\ Len(t) \in Nat  BY <1>2
<1>. HIDE DEF t, h
<1>5. \A k \in 1 .. Len(queue) : Depth(queue[k]) \in Nat
  BY <1>1, GoodDepth, LayerRecursion DEF PlanInv
<1>6. Placed(h) /\ Good(h)  BY <1>2, <1>4 DEF QueueOk, PlanInv
<1>7. \A k \in 1 .. Len(queue) : Depth(queue[k]) >= Depth(h)
  <2>. TAKE k \in 1 .. Len(queue)
  <2>1. k = 1 \/ 1 < k  BY <1>2
  <2>. QED BY <1>2, <1>4, <1>5, <2>1 DEF QueueOk
<1>8. \A k \in 1 .. Len(t) : Depth(t[k]) \in {Depth(h), Depth(h) + 1}
  BY <1>2, <1>4, <1>5, <1>7 DEF QueueOk
<1>9. QueueOk(t)
  <2>1. \A k, l \in 1 .. Len(t) : k < l => k + 1 < l + 1  BY <1>4
  <2>. QED BY <1>2, <2>1 DEF QueueOk
<1>10. ASSUME NEW n, NEW w \in seen PROVE w = h.value \/ Pending(w, t, n) \/ Settled(w, seen)
  <2>1. Settled(w, seen) \/ \E k \in 1 .. Len(queue) : queue[k].value = w
    BY <1>1 DEF SeenOk, Pending
  <2>. QED BY <1>2, <1>3, <2>1 DEF Pending
<1>. QED BY <1>6, <1>7, <1>8, <1>9, <1>10 DEF t, h

(* What the first solution found leaves behind: nothing shorter. *)
FoundOk(f) ==
    (f # <<>> /\ f[1].steps # <<>>) => Counted(Head(goals)) \cap W(Len(f[1].steps) - 1) = {}

LEMMA LayerFind ==
    ASSUME PlanInv, LayerInv, FoundOk(found), Find
    PROVE  found' # <<>> /\ FoundOk(found')
<1>1. Turning /\ found' = Append(found, Head(queue)) /\ IsSeq(found)  BY DEF Find, PlanInv
<1>2. /\ Len(found) \in Nat /\ Len(found') = Len(found) + 1
      /\ \A k \in 1 .. Len(found) : found'[k] = found[k]
      /\ found'[Len(found) + 1] = Head(queue)
  BY <1>1, AppendFacts, SeqFacts
<1>3. found' # <<>>  BY <1>2, EmptyFacts
<1>4. CASE found # <<>>
  <2>1. Len(found) # 0  BY <1>1, <1>4 DEF IsSeq
  <2>2. found'[1] = found[1]  BY <1>2, <2>1
  <2>. QED BY <1>3, <1>4, <2>2 DEF FoundOk
<1>5. CASE found = <<>>
  <2>. DEFINE h == Head(queue)
  <2>1. found'[1] = h  BY <1>2, <1>5, EmptyFacts
  <2>2. QueueOk(queue) /\ NodeOk(node, i, queue, seen) /\ SeenOk(seen, queue, node)
        /\ node = Nobody /\ job \in Jobs
    BY <1>1, <1>5 DEF LayerInv, Turning, PlanInv
  <2>3. Good(h) /\ \A k \in 1 .. Len(queue) : Depth(queue[k]) >= Depth(h)  BY <1>1, <2>2, Popped
  <2>4. Depth(h) \in 0 .. D  BY <2>2, <2>3, GoodDepth
  <2>5. Depth(h) > 0 => \A w \in W(Depth(h) - 1) : Settled(w, seen)  BY <2>2, <2>3, <2>4, SeenBelow
  <2>6. h.steps # <<>> => Depth(h) > 0
    <3>1. IsSeq(h.steps)  BY <2>3 DEF Good
    <3>2. h.steps # <<>> => Len(h.steps) > 0  BY <3>1 DEF IsSeq
    <3>. QED BY <3>2 DEF Depth
  <2>. HIDE DEF h
  <2>7. h.steps # <<>> => Counted(Head(goals)) \cap W(Depth(h) - 1) = {}  BY <2>5, <2>6 DEF Settled
  <2>. QED BY <1>3, <2>1, <2>7 DEF FoundOk, Depth
<1>. QED BY <1>4, <1>5

LEMMA LayerDrop ==
    ASSUME PlanInv, LayerInv, DropDeep, found = <<>>
    PROVE  QueueOk(queue') /\ NodeOk(node, i, queue', seen) /\ SeenOk(seen, queue', node)
<1>. DEFINE h == Head(queue)
<1>1. /\ Turning /\ queue' = Tail(queue) /\ ~Accepts(h) /\ Len(h.steps) >= job.max_depth
      /\ node = Nobody /\ job \in Jobs /\ QueueOk(queue) /\ SeenOk(seen, queue, node)
  BY DEF DropDeep, Turning, PlanInv, LayerInv
<1>2. /\ QueueOk(queue') /\ Placed(h) /\ Good(h)
      /\ \A w \in seen : w = h.value \/ Pending(w, queue', node) \/ Settled(w, seen)
  BY <1>1, Popped
<1>3. h.value \notin Counted(Head(goals))  BY <1>1, <1>2, RejectedUncounted
<1>4. Depth(h) = D /\ D \in Nat  BY <1>1, <1>2, GoodDepth, LayerRecursion DEF Depth, D
<1>5. Settled(h.value, seen)  BY <1>2, <1>3, <1>4 DEF Settled, Placed
<1>. QED BY <1>1, <1>2, <1>5 DEF SeenOk, NodeOk

LEMMA LayerExpand ==
    ASSUME PlanInv, LayerInv, Expand, found = <<>>
    PROVE  QueueOk(queue') /\ NodeOk(node', i', queue', seen) /\ SeenOk(seen, queue', node')
<1>. DEFINE h == Head(queue)
<1>1. /\ Turning /\ queue' = Tail(queue) /\ ~Accepts(h) /\ node' = h /\ i' = 1
      /\ job \in Jobs /\ QueueOk(queue) /\ SeenOk(seen, queue, node)
  BY DEF Expand, PlanInv, LayerInv
<1>2. /\ QueueOk(queue') /\ Placed(h) /\ Good(h)
      /\ \A k \in 1 .. Len(queue') : Depth(queue'[k]) \in {Depth(h), Depth(h) + 1}
      /\ \A w \in seen : w = h.value \/ Pending(w, queue', h) \/ Settled(w, seen)
  BY <1>1, Popped
<1>3. h.value \notin Counted(Head(goals)) /\ h # Nobody
  BY <1>1, <1>2, RejectedUncounted, GoodDepth
<1>4. DOMAIN Steps = 1 .. Len(Steps) /\ Len(Steps) \in Nat  BY <1>1, StepsSeq, SeqFacts
<1>. HIDE DEF h
<1>5. NodeOk(node', i', queue', seen)  BY <1>1, <1>2, <1>3, <1>4 DEF NodeOk
<1>6. SeenOk(seen, queue', node')  BY <1>1, <1>2, <1>3 DEF SeenOk, Pending
<1>. QED BY <1>2, <1>5, <1>6

LEMMA LayerSkip ==
    ASSUME PlanInv, LayerInv, Skip, found = <<>>
    PROVE  QueueOk(queue) /\ NodeOk(node, i', queue, seen) /\ SeenOk(seen, queue, node)
<1>1. /\ node # Nobody /\ Reached \in seen /\ i' = i + 1 /\ job \in Jobs
      /\ QueueOk(queue) /\ NodeOk(node, i, queue, seen) /\ SeenOk(seen, queue, node)
  BY DEF Skip, Expanding, LayerInv, PlanInv
<1>2. DOMAIN Steps = 1 .. Len(Steps) /\ Len(Steps) \in Nat  BY <1>1, StepsSeq, SeqFacts
<1>3. \A k \in DOMAIN Steps : k < i' => k < i \/ k = i  BY <1>1, <1>2 DEF NodeOk
<1>. QED BY <1>1, <1>3 DEF NodeOk, Reached

LEMMA LayerPush ==
    ASSUME PlanInv, LayerInv, Push, found = <<>>
    PROVE  QueueOk(queue') /\ NodeOk(node, i', queue', seen') /\ SeenOk(seen', queue', node)
<1>. DEFINE c == Node(Reached, Append(node.steps, Steps[i]), Append(node.path, Reached))
            d == Depth(node)
<1>1. /\ node # Nobody /\ Reached \notin seen /\ seen' = seen \cup {Reached}
      /\ queue' = Append(queue, c) /\ i' = i + 1 /\ i <= Len(Steps) /\ job \in Jobs
      /\ QueueOk(queue) /\ NodeOk(node, i, queue, seen) /\ SeenOk(seen, queue, node)
      /\ IsSeq(queue) /\ Good(node) /\ Len(node.steps) < job.max_depth
  BY DEF Push, Expanding, LayerInv, PlanInv
<1>2. D \in Nat /\ d \in 0 .. D - 1 /\ d + 1 \in Nat
  BY <1>1, LayerRecursion, GoodDepth DEF D, Depth
<1>3. c.value = Reached /\ Depth(c) = d + 1
  <2>1. IsSeq(node.steps)  BY <1>1 DEF Good
  <2>2. c.value = Reached /\ c.steps = Append(node.steps, Steps[i])  BY DEF Node
  <2>. HIDE DEF c
  <2>. QED BY <2>1, <2>2, AppendFacts DEF Depth
<1>. HIDE DEF c
<1>4. \A k \in 1 .. Len(queue) : Depth(queue[k]) \in {d, d + 1}  BY <1>1 DEF NodeOk
<1>. HIDE DEF d
<1>5. W(d) \subseteq seen
  <2>1. d \in 0 .. D /\ d >= d  BY <1>2
  <2>2. \A k \in 1 .. Len(queue) : Depth(queue[k]) >= d  BY <1>2, <1>4
  <2>. QED BY <1>1, <2>1, <2>2, SeenBelow DEF d
<1>6. DOMAIN Steps = 1 .. Len(Steps) /\ Len(Steps) \in Nat  BY <1>1, StepsSeq, SeqFacts
<1>7. \A k \in DOMAIN Steps : k < i' => k < i \/ k = i  BY <1>1, <1>6 DEF NodeOk
<1>8. Placed(c)
  <2>1. Placed(node)  BY <1>1 DEF NodeOk
  <2>2. i \in DOMAIN Steps  BY <1>1, <1>6 DEF NodeOk
  <2>3. Reached \in W(d+1)  BY <1>1, <1>2, <2>1, <2>2, SuccessorsNext DEF Placed, Reached, d
  <2>4. Depth(c) - 1 = d  BY <1>2, <1>3
  <2>. QED BY <1>1, <1>3, <1>5, <2>3, <2>4 DEF Placed
<1>9. /\ Len(queue) \in Nat /\ Len(queue') = Len(queue) + 1
      /\ \A k \in 1 .. Len(queue) : queue'[k] = queue[k]
      /\ queue'[Len(queue) + 1] = c
      /\ \A k \in 1 .. Len(queue') : k \in 1 .. Len(queue) \/ k = Len(queue) + 1
      /\ \A k \in 1 .. Len(queue) : k \in 1 .. Len(queue') /\ k < Len(queue) + 1
      /\ Len(queue) + 1 \in 1 .. Len(queue')
  BY <1>1, AppendFacts, SeqFacts
<1>10. \A k \in 1 .. Len(queue') : Depth(queue'[k]) \in {d, d + 1}  BY <1>3, <1>4, <1>9
<1>11. QueueOk(queue')
  <2>1. \A k \in 1 .. Len(queue') : Placed(queue'[k])  BY <1>1, <1>8, <1>9 DEF QueueOk
  <2>2. \A k, l \in 1 .. Len(queue') : Depth(queue'[l]) <= Depth(queue'[k]) + 1  BY <1>2, <1>10
  <2>3. ASSUME NEW k \in 1 .. Len(queue'), NEW l \in 1 .. Len(queue'), k < l
        PROVE  Depth(queue'[k]) <= Depth(queue'[l])
    <3>1. CASE l = Len(queue) + 1  BY <1>2, <1>3, <1>9, <1>10, <3>1
    <3>2. CASE l \in 1 .. Len(queue)  BY <1>1, <1>9, <2>3, <3>2 DEF QueueOk
    <3>. QED BY <1>9, <3>1, <3>2
  <2>. QED BY <2>1, <2>2, <2>3 DEF QueueOk
<1>12. NodeOk(node, i', queue', seen')  BY <1>1, <1>7, <1>10 DEF NodeOk, Reached, d
<1>13. SeenOk(seen', queue', node)
  <2>1. \A w \in seen : Pending(w, queue, node) => Pending(w, queue', node)  BY <1>9 DEF Pending
  <2>2. \A w \in seen : Settled(w, seen) => Settled(w, seen')  BY <1>1 DEF Settled
  <2>3. Pending(Reached, queue', node)  BY <1>3, <1>9 DEF Pending
  <2>. QED BY <1>1, <2>1, <2>2, <2>3 DEF SeenOk
<1>. QED BY <1>11, <1>12, <1>13

LEMMA LayerExpanded ==
    ASSUME PlanInv, LayerInv, Expanded, found = <<>>
    PROVE  QueueOk(queue) /\ SeenOk(seen, queue, Nobody)
<1>1. /\ node # Nobody /\ i > Len(Steps) /\ job \in Jobs
      /\ QueueOk(queue) /\ NodeOk(node, i, queue, seen) /\ SeenOk(seen, queue, node)
  BY DEF Expanded, Expanding, LayerInv, PlanInv
<1>2. DOMAIN Steps = 1 .. Len(Steps) /\ Len(Steps) \in Nat  BY <1>1, StepsSeq, SeqFacts
<1>3. \A k \in DOMAIN Steps : Apply(node.value, Steps[k]) \in seen  BY <1>1, <1>2 DEF NodeOk
<1>4. Settled(node.value, seen)  BY <1>1, <1>3 DEF Settled, NodeOk
<1>. QED BY <1>1, <1>4 DEF SeenOk, Pending

(* The parts, as conditions on the next state. *)
LEMMA LayersCarried ==
    ASSUME UNCHANGED <<job, goals>>,
           found' = <<>> => /\ QueueOk(queue') /\ NodeOk(node', i', queue', seen')
                            /\ SeenOk(seen', queue', node')
    PROVE  LayerInv'
BY DEF LayerInv, QueueOk, NodeOk, SeenOk, Pending, Settled, Placed, Counted, Overlooked, W, Layer, Steps, D

LEMMA FoundCarried ==
    ASSUME UNCHANGED <<job, goals>>, FoundOk(found')
    PROVE  FoundOk(found)'
BY DEF FoundOk, Counted, Overlooked, W, Layer

Fresh ==
    /\ job \in Jobs /\ queue = <<Root(job.start)>> /\ seen = {mod_word(job.start)}
    /\ found = <<>> /\ node = Nobody

LEMMA LayersInit == Fresh => LayerInv /\ FoundOk(found)
BY FreshLayers DEF Fresh, LayerInv, FoundOk

LEMMA RestartLayers == job \in Jobs /\ Restart /\ node = Nobody /\ UNCHANGED job => LayerInv' /\ FoundOk(found)'
<1>1. Fresh' => LayerInv' /\ FoundOk(found)'  BY LayersInit, PTL
<1>. QED BY <1>1 DEF Restart, Fresh

LEMMA LayersNext ==
    PlanInv /\ WordInv /\ LayerInv /\ FoundOk(found) /\ [Next]_vars => LayerInv' /\ FoundOk(found)'
<1>. SUFFICES ASSUME PlanInv, WordInv, LayerInv, FoundOk(found), [Next]_vars
              PROVE  LayerInv' /\ FoundOk(found)'
  OBVIOUS
<1>0. job \in Jobs  BY DEF PlanInv
<1>1. CASE Find
  <2>1. found' # <<>> /\ FoundOk(found')  BY <1>1, LayerFind
  <2>2. UNCHANGED <<job, goals>>  BY <1>1 DEF Find
  <2>. QED BY <2>1, <2>2, LayersCarried, FoundCarried
<1>2. CASE DropDeep
  <2>1. UNCHANGED <<job, goals, seen, found, node, i>>  BY <1>2 DEF DropDeep
  <2>. QED BY <1>2, <2>1, LayerDrop, LayersCarried, FoundCarried
<1>3. CASE Expand
  <2>1. UNCHANGED <<job, goals, seen, found>>  BY <1>3 DEF Expand
  <2>. QED BY <1>3, <2>1, LayerExpand, LayersCarried, FoundCarried
<1>4. CASE Skip
  <2>1. UNCHANGED <<job, goals, queue, seen, found, node>>  BY <1>4 DEF Skip
  <2>. QED BY <1>4, <2>1, LayerSkip, LayersCarried, FoundCarried
<1>5. CASE Push
  <2>1. UNCHANGED <<job, goals, found, node>>  BY <1>5 DEF Push
  <2>. QED BY <1>5, <2>1, LayerPush, LayersCarried, FoundCarried
<1>6. CASE Expanded
  <2>1. UNCHANGED <<job, goals, queue, seen, found>> /\ node' = Nobody  BY <1>6 DEF Expanded
  <2>2. NodeOk(node', i', queue', seen')  BY <2>1 DEF NodeOk
  <2>. QED BY <1>6, <2>1, <2>2, LayerExpanded, LayersCarried, FoundCarried
<1>7. CASE NextMask
  BY <1>0, <1>7, RestartLayers DEF NextMask, Returned
<1>8. CASE Tally
  <2>1. node = Nobody /\ UNCHANGED job  BY <1>8 DEF Tally, Returned, WordInv
  <2>2. CASE Restart  BY <1>0, <2>1, <2>2, RestartLayers
  <2>3. CASE UNCHANGED <<goals, search>>
    <3>1. UNCHANGED <<job, goals, queue, seen, found, node, i>>  BY <2>1, <2>3 DEF search
    <3>. QED BY <3>1, LayersCarried, FoundCarried DEF LayerInv
  <2>. QED BY <1>8, <2>2, <2>3 DEF Tally
<1>9. CASE UNCHANGED vars
  <2>1. UNCHANGED <<job, goals, queue, seen, found, node, i>>  BY <1>9 DEF vars, search
  <2>. QED BY <2>1, LayersCarried, FoundCarried DEF LayerInv
<1>. QED BY <1>1, <1>2, <1>3, <1>4, <1>5, <1>6, <1>7, <1>8, <1>9 DEF Next, Reported

(* The first solution bfs_find reports is as short as any to a word other  *)
(* than the start: only the start of a search that wants at least one      *)
(* step, which m8crazy.py:199-212 overlooks, can be an accepted word in an *)
(* earlier layer of cmd_profile, whatever the width of a word, the         *)
(* constants, the depth and the limit.  (search-byte 0 from 0: rotA leads  *)
(* back to 0 in one step, and the tool's first solution is longer.)        *)
THEOREM FirstIsShortest == Spec => []ShortestFirst
<1>1. Init => Fresh  BY DEF Init, Fresh
<1>2. FoundOk(found) => ShortestFirst  BY DEF FoundOk, ShortestFirst, W, Counted
<1>. QED
  BY <1>1, <1>2, PlanInit, PlanNext, WordsInit, WordsNext, LayersInit, LayersNext, PTL DEF Spec

(***************************************************************************)
(* Nothing found                                                           *)
(***************************************************************************)

(* What a search that ends with nothing has shown. *)
LEMMA NothingWithin ==
    ASSUME PlanInv, LayerInv, Returned, found = <<>>
    PROVE  Counted(Head(goals)) \cap W(D) = {}
<1>1. job \in Jobs /\ IsSeq(queue) /\ node = Nobody /\ D \in Nat
  BY LayerRecursion DEF PlanInv, Returned
<1>2. queue = <<>>
  <2>1. Len(found) = 0 /\ job.limit \in Nat \ {0}  BY <1>1, EmptyFacts, JobsAssumption
  <2>2. ~(Len(found) >= job.limit)  BY <2>1
  <2>. QED BY <2>2 DEF Returned
<1>3. \A k \in 1 .. Len(queue) : FALSE  BY <1>2, EmptyFacts
<1>4. QueueOk(queue) /\ NodeOk(node, i, queue, seen) /\ SeenOk(seen, queue, node)  BY DEF LayerInv
<1>5. W(D) \subseteq seen
  <2>1. D \in 0 .. D  BY <1>1
  <2>. QED BY <1>1, <1>3, <1>4, <2>1, SeenBelow
<1>6. \A w \in seen : Settled(w, seen)  BY <1>1, <1>3, <1>4 DEF SeenOk, Pending
<1>. QED BY <1>5, <1>6 DEF Settled

LEMMA GoalSetsSeq ==
    ASSUME job \in Jobs, NEW o \in Int
    PROVE  IsSeq(GoalSets(o)) /\ (Len(GoalSets(o)) > 1 => IsPlan(job))
<1>1. CASE IsPlan(job)
  <2>1. IsSeq(Masks(o))  BY MaskFacts
  <2>. DEFINE m == Masks(o)
  <2>2. Len(m) \in Nat /\ DOMAIN m = 1 .. Len(m)  BY <2>1, SeqFacts
  <2>3. GoalSets(o) = [k \in DOMAIN m |-> {m[k]}]  BY <1>1 DEF GoalSets
  <2>. HIDE DEF m
  <2>4. GoalSets(o) \in Seq({{m[k]} : k \in 1 .. Len(m)})  BY <2>2, <2>3
  <2>. QED BY <1>1, <2>4, IntoSeq
<1>2. CASE ~IsPlan(job)
  <2>1. GoalSets(o) = <<job.accepted>>  BY <1>2 DEF GoalSets
  <2>. QED BY <2>1, OneFacts
<1>. QED BY <1>1, <1>2

(* The goals still to try are the rest of the masks, and those tried       *)
(* before have no word within the depth; without a mask nothing is found.  *)
Tried == Len(GoalSets(offset)) - Len(goals)

GoalInv ==
    /\ offset \in Nat /\ (goals = <<>> => found = <<>> /\ GoalSets(offset) = <<>>)
    /\ IsSeq(goals) /\ Len(goals) <= Len(GoalSets(offset))
    /\ \A k \in 1 .. Len(goals) : goals[k] = GoalSets(offset)[Tried + k]
    /\ \A k \in 1 .. Tried : GoalSets(offset)[k] \cap W(D) = {}

FreshGoals == job \in Jobs /\ offset \in Nat /\ goals = GoalSets(offset) /\ found = <<>>

LEMMA GoalsInit == FreshGoals => GoalInv
<1>. SUFFICES ASSUME FreshGoals PROVE GoalInv  OBVIOUS
<1>1. IsSeq(goals) /\ Len(goals) \in Nat /\ goals = GoalSets(offset)
  BY GoalSetsSeq, SeqFacts DEF FreshGoals
<1>2. Tried = 0  BY <1>1 DEF Tried
<1>3. \A k \in 1 .. Len(goals) : 0 + k = k  BY <1>1
<1>4. offset \in Nat /\ found = <<>>  BY DEF FreshGoals
<1>. QED BY <1>1, <1>2, <1>3, <1>4 DEF GoalInv

LEMMA GoalsKept ==
    ASSUME GoalInv, UNCHANGED <<job, offset, goals>>, goals = <<>> => UNCHANGED found
    PROVE  GoalInv'
<1>1. GoalSets(offset)' = GoalSets(offset)  BY DEF GoalSets, Masks, Source, Target
<1>2. W(D)' = W(D)  BY DEF W, D, Layer
<1>3. Tried' = Tried  BY <1>1 DEF Tried
<1>. QED BY <1>1, <1>2, <1>3 DEF GoalInv

LEMMA GoalsNext == PlanInv /\ LayerInv /\ GoalInv /\ [Next]_vars => GoalInv'
<1>. SUFFICES ASSUME PlanInv, LayerInv, GoalInv, [Next]_vars PROVE GoalInv'  OBVIOUS
<1>0. job \in Jobs  BY DEF PlanInv
<1>1. CASE Find  BY <1>1, GoalsKept DEF Find, Turning, Searching
<1>2. CASE DropDeep  BY <1>2, GoalsKept DEF DropDeep
<1>3. CASE Expand  BY <1>3, GoalsKept DEF Expand
<1>4. CASE Skip  BY <1>4, GoalsKept DEF Skip
<1>5. CASE Push  BY <1>5, GoalsKept DEF Push
<1>6. CASE Expanded  BY <1>6, GoalsKept DEF Expanded
<1>7. CASE NextMask
  <2>. DEFINE g == GoalSets(offset)
  <2>1. /\ Returned /\ found = <<>> /\ Len(goals) > 1 /\ goals' = Tail(goals)
        /\ UNCHANGED <<job, offset>> /\ goals # <<>>
    BY <1>7 DEF NextMask, Returned, Searching
  <2>2. IsSeq(g) /\ Len(g) \in Nat /\ (Len(g) > 1 => job.allow_empty)
    BY <1>0, GoalSetsSeq, SeqFacts, JobsAssumption DEF IsPlan, GoalInv
  <2>. HIDE DEF g
  <2>3. /\ IsSeq(goals) /\ Len(goals) \in Nat /\ Len(goals) <= Len(g)
        /\ Tried = Len(g) - Len(goals) /\ Tried \in Nat
        /\ \A k \in 1 .. Len(goals) : goals[k] = g[Tried + k]
        /\ \A k \in 1 .. Tried : g[k] \cap W(D) = {}
    BY <2>2, SeqFacts DEF GoalInv, Tried, g
  <2>4. /\ IsSeq(goals') /\ Len(goals') = Len(goals) - 1 /\ Head(goals) = goals[1]
        /\ \A k \in 1 .. Len(goals') : k + 1 \in 1 .. Len(goals) /\ goals'[k] = goals[k+1]
    BY <2>1, <2>3, TailFacts
  <2>5. Head(goals) \cap W(D) = {}
    <3>1. job.allow_empty  BY <2>1, <2>2, <2>3
    <3>. QED BY <2>1, <3>1, NothingWithin DEF Counted, Overlooked
  <2>6. Head(goals) = g[Tried + 1]  BY <2>1, <2>3, <2>4
  <2>7. g' = g /\ (\A d : W(d)' = W(d)) /\ D' = D
    BY <2>1 DEF g, GoalSets, Masks, Source, Target, W, D, Layer
  <2>8. Tried' = Tried + 1
    <3>1. Tried' = Len(g) - Len(goals')  BY <2>7 DEF Tried, g
    <3>. QED BY <2>2, <2>3, <2>4, <3>1
  <2>9. \A k \in 1 .. Len(goals') : goals'[k] = g[(Tried + 1) + k]
    <3>. TAKE k \in 1 .. Len(goals')
    <3>1. goals'[k] = g[Tried + (k + 1)] /\ Tried + (k + 1) = (Tried + 1) + k  BY <2>3, <2>4
    <3>. QED BY <3>1
  <2>10. \A k \in 1 .. Tried + 1 : g[k] \cap W(D) = {}
    <3>1. \A k \in 1 .. Tried + 1 : k \in 1 .. Tried \/ k = Tried + 1  BY <2>3
    <3>. QED BY <2>3, <2>5, <2>6, <3>1
  <2>11. Len(goals') <= Len(g)  BY <2>2, <2>3, <2>4
  <2>12. /\ \A k \in 1 .. Len(goals') : goals'[k] = g'[Tried' + k]
         /\ \A k \in 1 .. Tried' : g'[k] \cap W(D)' = {}
    BY <2>7, <2>8, <2>9, <2>10
  <2>13. offset' \in Nat /\ found' = <<>>  BY <1>7, <2>1 DEF NextMask, Restart, GoalInv
  <2>14. goals' # <<>>
    <3>1. Len(goals') > 0  BY <2>1, <2>3, <2>4
    <3>. QED BY <3>1, EmptyFacts
  <2>. QED BY <2>4, <2>7, <2>11, <2>12, <2>13, <2>14 DEF GoalInv, g
<1>8. CASE Tally
  <2>1. CASE goals' = GoalSets(offset') /\ offset' = offset + 1 /\ Restart /\ UNCHANGED job
    <3>1. FreshGoals' => GoalInv'  BY GoalsInit, PTL
    <3>2. GoalSets(offset)' = GoalSets(offset')
      BY <2>1 DEF GoalSets, Masks, Source, Target
    <3>3. offset' \in Nat /\ found' = <<>>  BY <2>1 DEF GoalInv, Restart
    <3>. QED BY <1>0, <2>1, <3>1, <3>2, <3>3 DEF FreshGoals
  <2>2. CASE UNCHANGED <<job, offset, goals, search>>  BY <2>2, GoalsKept DEF search
  <2>. QED BY <1>8, <2>1, <2>2 DEF Tally
<1>9. CASE UNCHANGED vars  BY <1>9, GoalsKept DEF vars, search
<1>. QED BY <1>1, <1>2, <1>3, <1>4, <1>5, <1>6, <1>7, <1>8, <1>9 DEF Next, Reported

(* "no sequence found within depth" is true of every word but one: only    *)
(* the start of a search that wants at least one step, which               *)
(* m8crazy.py:199-212 overlooks, can be an accepted word within the depth  *)
(* when nothing is found, and no mask of a plan given up before is within  *)
(* the depth.  (search-word 0 from 0: rotA leads back to 0 in one step,    *)
(* and the tool says that no sequence does.)                               *)
THEOREM NotFoundTellsTheTruth == Spec => []NotFoundIsTrue
<1>1. PlanInv /\ LayerInv /\ GoalInv => NotFoundIsTrue
  BY NothingWithin DEF GoalInv, Tried, NotFoundIsTrue, W, D, Counted
<1>2. Init => Fresh /\ FreshGoals  BY DEF Init, Fresh, FreshGoals, GoalSets, Masks, Source, Target
<1>. QED
  BY <1>1, <1>2, PlanInit, PlanNext, WordsInit, WordsNext, LayersInit, LayersNext,
     GoalsInit, GoalsNext, PTL DEF Spec

(***************************************************************************)
(* Routes                                                                  *)
(***************************************************************************)

(* What a row says the step leaves in A. *)
After(step, before) == IF step.op = "p" THEN crazy(before, step.value) ELSE rotate_right(step.value)

RowAt(steps, c_start, d_start, n, before) ==
    [c |-> mod_word(c_start + n - 1), d |-> mod_word(d_start + n - 1),
     op |-> steps[n].op, value |-> steps[n].value, role |-> steps[n].role,
     a_before |-> before,
     a_after |-> IF steps[n].op = "p" THEN crazy(before, steps[n].value)
                 ELSE rotate_right(steps[n].value)]

IsRows(h, steps, start_a, c_start, d_start) ==
    h = [n \in 1 .. Len(steps) |->
            RowAt(steps, c_start, d_start, n,
                  IF n = 1 THEN mod_word(start_a) ELSE h[n-1].a_after)]

LEMMA RowFields ==
    ASSUME NEW steps, NEW c, NEW d, NEW n, NEW before
    PROVE  /\ RowAt(steps, c, d, n, before).a_before = before
           /\ RowAt(steps, c, d, n, before).a_after = After(steps[n], before)
           /\ RowAt(steps, c, d, n, before).d = mod_word(d + n - 1)
BY DEF RowAt, After

(* Rows for the words a sequence of steps goes through. *)
Follows(path, steps, start_a) ==
    /\ path[1] = mod_word(start_a)
    /\ \A n \in 1 .. Len(steps) : path[n+1] = After(steps[n], path[n])

LEMMA RowsExist ==
    ASSUME NEW steps, IsSeq(steps), NEW a, NEW c, NEW d, NEW path, Follows(path, steps, a)
    PROVE  \E h : IsRows(h, steps, a, c, d)
<1>. DEFINE h == [n \in 1 .. Len(steps) |-> RowAt(steps, c, d, n, path[n])]
<1>1. Len(steps) \in Nat  BY SeqFacts
<1>2. ASSUME NEW n \in 1 .. Len(steps)
      PROVE  path[n] = IF n = 1 THEN mod_word(a) ELSE h[n-1].a_after
  <2>1. CASE n = 1  BY <2>1 DEF Follows
  <2>2. CASE n # 1
    <3>1. n - 1 \in 1 .. Len(steps) /\ (n - 1) + 1 = n  BY <1>1, <2>2
    <3>2. h[n-1] = RowAt(steps, c, d, n-1, path[n-1])  BY <3>1
    <3>3. h[n-1].a_after = After(steps[n-1], path[n-1])  BY <3>2, RowFields
    <3>. QED BY <2>2, <3>1, <3>3 DEF Follows
  <2>. QED BY <2>1, <2>2
<1>3. \A n \in 1 .. Len(steps) :
          h[n] = RowAt(steps, c, d, n, IF n = 1 THEN mod_word(a) ELSE h[n-1].a_after)
  <2>. TAKE n \in 1 .. Len(steps)
  <2>. DEFINE b == IF n = 1 THEN mod_word(a) ELSE h[n-1].a_after
  <2>1. path[n] = b  BY <1>2
  <2>2. h[n] = RowAt(steps, c, d, n, path[n])  OBVIOUS
  <2>. HIDE DEF b, h
  <2>3. h[n] = RowAt(steps, c, d, n, b)  BY <2>1, <2>2
  <2>. QED BY <2>3 DEF b
<1>4. h = [n \in 1 .. Len(steps) |-> h[n]]  OBVIOUS
<1>. HIDE DEF h
<1>5. IsRows(h, steps, a, c, d)  BY <1>3, <1>4 DEF IsRows
<1>. QED BY <1>5

(* route_rows replays the steps. *)
LEMMA RowsReplay ==
    ASSUME NEW steps, IsSeq(steps), NEW a, NEW c, NEW d, NEW path, Follows(path, steps, a),
           Len(steps) > 0
    PROVE  LET rows == route_rows(steps, a, c, d)
               last == rows[Len(rows)]
           IN  /\ Len(rows) = Len(steps)
               /\ last.a_after = path[Len(steps) + 1]
               /\ last.d = mod_word(d + Len(steps) - 1)
<1>. DEFINE h == route_rows(steps, a, c, d)
            L == Len(steps)
            Before(n) == IF n = 1 THEN mod_word(a) ELSE h[n-1].a_after
<1>0. L \in Nat /\ L > 0  BY SeqFacts
<1>1. h = CHOOSE r : IsRows(r, steps, a, c, d)  BY DEF route_rows, IsRows, RowAt
<1>2. IsRows(h, steps, a, c, d)  BY <1>1, RowsExist
<1>. HIDE DEF h
<1>3. \A n \in 1 .. L : h[n] = RowAt(steps, c, d, n, Before(n))  BY <1>2 DEF IsRows
<1>4. h \in Seq({h[n] : n \in 1 .. L}) /\ Len(h) = L
  <2>1. DOMAIN h = 1 .. L  BY <1>2 DEF IsRows
  <2>2. h = [n \in 1 .. L |-> h[n]]  BY <1>2 DEF IsRows
  <2>. QED BY <1>0, <2>1, <2>2
<1>5. \A n \in 1 .. L : /\ h[n].a_after = After(steps[n], Before(n))
                        /\ h[n].d = mod_word(d + n - 1)
  BY <1>3, RowFields
<1>. DEFINE S == {n \in 0 .. L : n > 0 => h[n].a_after = path[n+1]}
<1>6. 0 \in S  BY <1>0
<1>7. ASSUME NEW n \in 0 .. L - 1, n \in S PROVE n + 1 \in S
  <2>1. n + 1 \in 1 .. L /\ n + 1 \in 0 .. L /\ (n + 1) - 1 = n  BY <1>0
  <2>2. Before(n+1) = path[n+1]
    <3>1. CASE n = 0  BY <3>1 DEF Follows
    <3>2. CASE n > 0
      <4>1. h[n].a_after = path[n+1]  BY <1>7, <3>2
      <4>2. n + 1 # 1  BY <3>2
      <4>. QED BY <2>1, <4>1, <4>2
    <3>. QED BY <3>1, <3>2
  <2>3. path[(n+1)+1] = After(steps[n+1], path[n+1])  BY <2>1 DEF Follows
  <2>4. h[n+1].a_after = After(steps[n+1], Before(n+1))  BY <1>5, <2>1
  <2>. HIDE DEF Before
  <2>5. h[n+1].a_after = path[(n+1)+1]  BY <2>2, <2>3, <2>4
  <2>. QED BY <2>1, <2>5
<1>. HIDE DEF S
<1>8. 0 .. L \subseteq S  BY <1>0, <1>6, <1>7, BoundedInduction
<1>9. h[L].a_after = path[L+1]  BY <1>0, <1>8 DEF S
<1>10. h[L].d = mod_word(d + L - 1)  BY <1>0, <1>5
<1>. QED BY <1>4, <1>9, <1>10 DEF h

(* A runway that replays to a mask of x, and then the p on x. *)
LEMMA RouteOfMask ==
    ASSUME job \in Jobs, IsPlan(job), NEW n, Good(n), NEW x \in Word, NEW y,
           crazy(n.value, x) = y, NEW mutable_addr \in Int
    PROVE  LET route == route_plan_increment(x, n, job.start, 1, 2, mutable_addr)
               last == route.rows[Len(route.rows)]
           IN  last.a_after = y /\ last.d = route.mutable
<1>. DEFINE runway == [k \in DOMAIN n.steps |-> parse_runway_step(n.steps[k])]
            final == RouteStep("p", mod_word(x), "mutable")
            steps == Append(runway, final)
            d == IF mutable_addr = None THEN mod_word(2) ELSE mod_word(mutable_addr - Len(runway))
            mutable == IF mutable_addr = None THEN mod_word(d + Len(runway)) ELSE mod_word(mutable_addr)
            rows == route_rows(steps, job.start, 1, d)
            path == Append(n.path, y)
            L == Len(n.steps)
            route == route_plan_increment(x, n, job.start, 1, 2, mutable_addr)
<1>1. route.rows = rows /\ route.mutable = mutable  BY DEF route_plan_increment
<1>2. /\ IsSeq(n.steps) /\ IsSeq(n.path) /\ L \in Nat /\ DOMAIN n.steps = 1 .. L
      /\ Len(n.path) = L + 1 /\ n.path[1] = mod_word(job.start) /\ n.path[L+1] = n.value
      /\ \A k \in 1 .. L : n.path[k+1] = Apply(n.path[k], n.steps[k])
  BY SeqFacts DEF Good, Replays
<1>3. \A k \in 1 .. L : n.steps[k].op \in {"p", "*"} /\ n.steps[k].seed \in Word
  <2>1. job.graph = "runway"  BY JobsAssumption DEF IsPlan
  <2>. QED BY <2>1, RunwaySteps DEF Good, Labels
<1>4. /\ IsSeq(runway) /\ Len(runway) = L
      /\ \A k \in 1 .. L : runway[k] = parse_runway_step(n.steps[k])
  <2>1. runway = [k \in 1 .. L |-> parse_runway_step(n.steps[k])]  BY <1>2
  <2>2. runway \in Seq({parse_runway_step(n.steps[k]) : k \in 1 .. L})  BY <1>2, <2>1
  <2>3. IsSeq(runway)  BY <2>2, IntoSeq
  <2>4. Len(runway) = L  BY <1>2, <2>1, <2>2
  <2>5. \A k \in 1 .. L : runway[k] = parse_runway_step(n.steps[k])  BY <2>1
  <2>. HIDE DEF runway
  <2>. QED BY <2>3, <2>4, <2>5
<1>. HIDE DEF runway, final
<1>5. /\ IsSeq(steps) /\ Len(steps) = L + 1 /\ steps[L+1] = final
      /\ \A k \in 1 .. L : steps[k] = runway[k]
  BY <1>4, AppendFacts
<1>6. /\ \A k \in 1 .. L + 1 : path[k] = n.path[k]
      /\ path[(L+1)+1] = y
  BY <1>2, AppendFacts
<1>. HIDE DEF steps, path
<1>7. Follows(path, steps, job.start)
  <2>1. path[1] = mod_word(job.start)  BY <1>2, <1>6
  <2>2. ASSUME NEW k \in 1 .. L PROVE path[k+1] = After(steps[k], path[k])
    <3>1. path[k+1] = n.path[k+1] /\ path[k] = n.path[k]  BY <1>2, <1>6
    <3>2. n.path[k+1] = Apply(n.path[k], n.steps[k])  BY <1>2
    <3>3. n.steps[k].op \in {"p", "*"} /\ mod_word(n.steps[k].seed) = n.steps[k].seed
      BY <1>3, WordModFacts
    <3>a. steps[k] = parse_runway_step(n.steps[k])  BY <1>4, <1>5
    <3>4. steps[k].op = n.steps[k].op /\ steps[k].value = n.steps[k].seed
      BY <3>3, <3>a DEF parse_runway_step, RouteStep
    <3>. QED BY <3>1, <3>2, <3>3, <3>4 DEF After, Apply
  <2>3. path[(L+1)+1] = After(steps[L+1], path[L+1])
    <3>1. path[L+1] = n.value  BY <1>2, <1>6
    <3>2. steps[L+1].op = "p" /\ steps[L+1].value = x
      BY <1>5, WordModFacts DEF final, RouteStep
    <3>. QED BY <1>6, <3>1, <3>2 DEF After
  <2>4. \A k \in 1 .. Len(steps) : k \in 1 .. L \/ k = L + 1  BY <1>2, <1>5
  <2>. QED BY <2>1, <2>2, <2>3, <2>4 DEF Follows
<1>8. /\ Len(rows) = L + 1 /\ rows[Len(rows)].a_after = y
      /\ rows[Len(rows)].d = mod_word(d + (L + 1) - 1)
  <2>1. Len(steps) > 0  BY <1>2, <1>5
  <2>. HIDE DEF d
  <2>2. /\ Len(rows) = Len(steps)
        /\ rows[Len(rows)].a_after = path[Len(steps) + 1]
        /\ rows[Len(rows)].d = mod_word(d + Len(steps) - 1)
    BY <1>5, <1>7, <2>1, RowsReplay
  <2>. QED BY <1>5, <1>6, <2>2
<1>9. d \in Int /\ mod_word(d + (L + 1) - 1) = mutable
  <2>1. mutable_addr - L \in Int /\ 2 \in Int /\ L \in Int  BY <1>2
  <2>2. d \in Int  BY <1>4, <2>1, WordModFacts DEF Word
  <2>3. d + (L + 1) - 1 = d + L  BY <2>1, <2>2
  <2>4. CASE mutable_addr = None
    <3>1. mutable = mod_word(d + L)  BY <1>4, <2>4
    <3>. HIDE DEF d, mutable
    <3>. QED BY <2>2, <2>3, <3>1
  <2>5. CASE mutable_addr # None
    <3>1. mod_word(mod_word(mutable_addr - L) + L) = mod_word((mutable_addr - L) + L)
      BY <2>1, WordModFacts
    <3>2. (mutable_addr - L) + L = mutable_addr  BY <2>1
    <3>3. d = mod_word(mutable_addr - L) /\ mutable = mod_word(mutable_addr)  BY <1>4, <2>5
    <3>. HIDE DEF d, mutable
    <3>4. mod_word(d + L) = mutable  BY <3>1, <3>2, <3>3
    <3>. QED BY <2>2, <2>3, <3>4
  <2>. QED BY <2>2, <2>4, <2>5
<1>. HIDE DEF route, rows
<1>10. route.rows[Len(route.rows)].a_after = y /\ route.rows[Len(route.rows)].d = route.mutable
  BY <1>1, <1>8, <1>9
<1>. QED BY <1>10 DEF route

(* A plan found ends on a mask of the value it is for. *)
LEMMA FoundIsMask ==
    ASSUME PlanInv, GoalInv, IsPlan(job), NEW k \in 1 .. Len(found)
    PROVE  Good(found[k]) /\ crazy(found[k].value, Source(offset)) = Target(offset)
<1>. DEFINE g == GoalSets(offset)
            m == Masks(offset)
<1>1. job \in Jobs /\ offset \in Int /\ IsSeq(goals) /\ Len(goals) <= Len(g)
  BY DEF PlanInv, GoalInv
<1>2. IsSeq(g) /\ Len(g) \in Nat /\ DOMAIN g = 1 .. Len(g) /\ Len(goals) \in Nat
  BY <1>1, GoalSetsSeq, SeqFacts
<1>3. g = [j \in DOMAIN m |-> {m[j]}]  BY DEF GoalSets
<1>4. DOMAIN m = 1 .. Len(m) /\ DOMAIN g = DOMAIN m  BY <1>1, <1>3, MaskFacts, SeqFacts
<1>. HIDE DEF m
<1>5. goals # <<>>
  <2>1. found # <<>>  BY EmptyFacts
  <2>. QED BY <2>1 DEF GoalInv
<1>6. Len(goals) > 0 /\ Head(goals) = goals[1]  BY <1>1, <1>5, TailFacts
<1>7. Tried = Len(g) - Len(goals)  BY DEF Tried
<1>8. Tried + 1 \in 1 .. Len(g) /\ Head(goals) = g[Tried + 1]
  <2>1. Tried + 1 \in 1 .. Len(g) /\ 1 \in 1 .. Len(goals)  BY <1>1, <1>2, <1>6, <1>7
  <2>2. goals[1] = g[Tried + 1]  BY <2>1 DEF GoalInv
  <2>. QED BY <1>6, <2>1, <2>2
<1>. HIDE DEF g
<1>9. Tried + 1 \in 1 .. Len(m) /\ Head(goals) = {m[Tried + 1]}  BY <1>2, <1>3, <1>4, <1>8
<1>10. crazy(m[Tried + 1], Source(offset)) = Target(offset)  BY <1>1, <1>9, MaskFacts DEF m
<1>11. Good(found[k]) /\ found[k].value \in Head(goals)  BY DEF PlanInv
<1>. QED BY <1>9, <1>10, <1>11

(* Every plan of x -> x+1 that is printed does it: replayed row by row,    *)
(* without the search, it leaves x+1 in A on the mutable cell asked for;   *)
(* for every width of a word, every value and all constants.               *)
THEOREM RoutesReachTheirTarget == Spec => []RouteReachesTarget
<1>1. PlanInv /\ GoalInv => RouteReachesTarget
  <2>. SUFFICES ASSUME PlanInv, GoalInv, IsPlan(job), found # <<>>, NEW mutable_addr \in {None, 3}
                PROVE  LET route == route_plan_increment(Source(offset), found[1], job.start, 1, 2, mutable_addr)
                           last == route.rows[Len(route.rows)]
                       IN  last.a_after = Target(offset) /\ last.d = route.mutable
    BY DEF RouteReachesTarget
  <2>1. job \in Jobs /\ offset \in Int /\ IsSeq(found)  BY DEF PlanInv, GoalInv
  <2>2. 1 \in 1 .. Len(found)
    <3>1. Len(found) \in Nat /\ Len(found) > 0  BY <2>1, SeqFacts, TailFacts
    <3>. QED BY <3>1
  <2>3. Good(found[1]) /\ crazy(found[1].value, Source(offset)) = Target(offset)
    BY <2>2, FoundIsMask
  <2>4. Source(offset) \in Word /\ mutable_addr \in Int  BY <2>1, SourceTarget DEF None
  <2>. QED BY <2>1, <2>3, <2>4, RouteOfMask
<1>2. Init => Fresh /\ FreshGoals  BY DEF Init, Fresh, FreshGoals, GoalSets, Masks, Source, Target
<1>. QED
  BY <1>1, <1>2, PlanInit, PlanNext, WordsInit, WordsNext, LayersInit, LayersNext,
     GoalsInit, GoalsNext, PTL DEF Spec

(***************************************************************************)
(* The summary of a profile                                                *)
(***************************************************************************)

(* Every step from a word within d leads to one within d + 1. *)
LEMMA StepsWithin ==
    ASSUME job \in Jobs, NEW d \in 0 .. D - 1, NEW w, w \in W(d), NEW s \in Labels
    PROVE  Apply(w, s) \in W(d+1)
<1>. DEFINE S == {e \in 0 .. d : w \in W(e)}
<1>1. D \in Nat /\ d \in Nat /\ d + 1 \in 0 .. D  BY LayerRecursion
<1>2. S # {} /\ S \subseteq Nat  BY <1>1
<1>3. PICK e \in S : \A x \in S : e <= x  BY <1>2, LeastNatural
<1>4. e \in 0 .. D - 1 /\ w \in W(e) /\ (e > 0 => w \notin W(e-1))
  <2>1. e \in 0 .. d /\ w \in W(e)  BY <1>3
  <2>2. ASSUME e > 0 PROVE w \notin W(e-1)
    <3>1. e - 1 \in 0 .. d /\ ~(e <= e - 1)  BY <1>1, <2>1, <2>2
    <3>2. e - 1 \notin S  BY <1>3, <3>1
    <3>. QED BY <3>1, <3>2
  <2>. QED BY <1>1, <2>1, <2>2
<1>5. PICK k \in 1 .. Len(Steps) : s = Steps[k]  BY DEF Labels
<1>6. k \in DOMAIN Steps  BY <1>5, StepsSeq, SeqFacts
<1>7. Apply(w, s) \in W(e+1)  BY <1>4, <1>5, <1>6, SuccessorsNext
<1>8. e + 1 \in 0 .. d + 1  BY <1>1, <1>3
<1>. QED BY <1>1, <1>7, <1>8, LayersGrow

(* So a node that replays is within the depth. *)
LEMMA GoodWithin ==
    ASSUME job \in Jobs, NEW n, Good(n)
    PROVE  n.value \in W(D)
<1>. DEFINE L == Len(n.steps)
            S == {k \in 0 .. L : n.path[k+1] \in W(k)}
<1>1. D \in Nat /\ L \in Nat /\ L <= D /\ DOMAIN n.steps = 1 .. L
  BY LayerRecursion, SeqFacts DEF Good, D
<1>2. /\ n.path[1] = mod_word(job.start) /\ n.path[L+1] = n.value
      /\ \A k \in 1 .. L : n.path[k+1] = Apply(n.path[k], n.steps[k]) /\ n.steps[k] \in Labels
  BY <1>1 DEF Good, Replays
<1>3. 0 \in S
  <2>1. W(0) = {mod_word(job.start)}  BY LayerRecursion
  <2>. QED BY <1>1, <1>2, <2>1
<1>4. ASSUME NEW k \in 0 .. L - 1, k \in S PROVE k + 1 \in S
  <2>1. k + 1 \in 1 .. L /\ k + 1 \in 0 .. L /\ k \in 0 .. D - 1  BY <1>1
  <2>2. n.path[(k+1)+1] = Apply(n.path[k+1], n.steps[k+1]) /\ n.steps[k+1] \in Labels  BY <1>2, <2>1
  <2>3. n.path[k+1] \in W(k)  BY <1>4
  <2>4. Apply(n.path[k+1], n.steps[k+1]) \in W(k+1)  BY <2>1, <2>2, <2>3, StepsWithin
  <2>. QED BY <2>1, <2>2, <2>4
<1>. HIDE DEF S
<1>5. 0 .. L \subseteq S  BY <1>1, <1>3, <1>4, BoundedInduction
<1>6. n.value \in W(L)  BY <1>1, <1>2, <1>5 DEF S
<1>7. W(L) \subseteq W(D)  BY <1>1, LayersGrow
<1>. QED BY <1>6, <1>7

(* A mask that can be reached from the start word within the depth. *)
Reachable(o) == \E k \in DOMAIN Masks(o) : Masks(o)[k] \in W(D)

(* When a value is dealt with its goals tell whether it has a mask, and    *)
(* the solution whether one of the first masks can be reached.             *)
LEMMA VerdictIsTrue ==
    ASSUME PlanInv, LayerInv, GoalInv, IsPlan(job), Tally
    PROVE  (goals # <<>> <=> Solvable(offset)) /\ (found # <<>> <=> Reachable(offset))
<1>. DEFINE g == GoalSets(offset)
            m == Masks(offset)
<1>1. job \in Jobs /\ offset \in Int /\ IsSeq(goals) /\ Len(goals) <= Len(g)
      /\ (goals = <<>> => g = <<>>) /\ (goals = <<>> => found = <<>>)
  BY DEF PlanInv, GoalInv
<1>2. IsSeq(g) /\ Len(g) \in Nat /\ DOMAIN g = 1 .. Len(g) /\ Len(goals) \in Nat
  BY <1>1, GoalSetsSeq, SeqFacts
<1>3. g = [j \in DOMAIN m |-> {m[j]}]  BY DEF GoalSets
<1>4. IsSeq(m) /\ DOMAIN m = 1 .. Len(m) /\ Len(m) \in Nat /\ (m # <<>> <=> Solvable(offset))
  BY <1>1, MaskFacts, SeqFacts
<1>. HIDE DEF m
<1>5. Len(g) = Len(m) /\ \A k \in 1 .. Len(m) : g[k] = {m[k]}
  <2>1. DOMAIN g = DOMAIN m  BY <1>3
  <2>2. \A a, b \in Nat : 1 .. a = 1 .. b => a = b
    <3>1. ASSUME NEW a \in Nat, NEW b \in Nat, 1 .. a = 1 .. b, a < b PROVE FALSE
      <4>1. b \in 1 .. b /\ b \notin 1 .. a  BY <3>1
      <4>. QED BY <3>1, <4>1
    <3>2. ASSUME NEW a \in Nat, NEW b \in Nat, 1 .. a = 1 .. b, b < a PROVE FALSE
      <4>1. a \in 1 .. a /\ a \notin 1 .. b  BY <3>2
      <4>. QED BY <3>2, <4>1
    <3>3. \A a, b \in Nat : a = b \/ a < b \/ b < a  OBVIOUS
    <3>. QED BY <3>1, <3>2, <3>3
  <2>3. Len(g) = Len(m)  BY <1>2, <1>4, <2>1, <2>2
  <2>. QED BY <1>3, <1>4, <2>3
<1>. HIDE DEF g
<1>6. \A s : IsSeq(s) => (s = <<>> <=> Len(s) = 0)  BY EmptyFacts, SeqFacts, TailFacts
<1>7. goals # <<>> <=> Solvable(offset)
  <2>1. goals = <<>> => m = <<>>  BY <1>1, <1>2, <1>4, <1>5, <1>6
  <2>2. m = <<>> => goals = <<>>  BY <1>1, <1>2, <1>4, <1>5, <1>6
  <2>. QED BY <1>4, <2>1, <2>2
<1>8. ASSUME found # <<>> PROVE Reachable(offset)
  <2>1. IsSeq(found) /\ goals # <<>>  BY <1>1, <1>8 DEF PlanInv
  <2>2. 1 \in 1 .. Len(found)
    <3>1. Len(found) \in Nat /\ Len(found) > 0  BY <1>8, <2>1, SeqFacts, TailFacts
    <3>. QED BY <3>1
  <2>3. found[1].value \in W(D) /\ found[1].value \in Head(goals)
    BY <1>1, <2>2, GoodWithin DEF PlanInv
  <2>4. Len(goals) > 0 /\ Head(goals) = goals[1]  BY <1>1, <2>1, TailFacts
  <2>5. Tried = Len(g) - Len(goals)  BY DEF Tried, g
  <2>6. Tried + 1 \in 1 .. Len(g) /\ 1 \in 1 .. Len(goals)  BY <1>1, <1>2, <2>4, <2>5
  <2>7. Head(goals) = {m[Tried + 1]}  BY <1>5, <2>4, <2>6 DEF GoalInv, g
  <2>8. Tried + 1 \in DOMAIN m /\ m[Tried + 1] \in W(D)  BY <1>4, <1>5, <2>3, <2>6, <2>7
  <2>. QED BY <2>8 DEF Reachable, m
<1>9. ASSUME found = <<>> PROVE ~Reachable(offset)
  <2>1. CASE goals = <<>>
    <3>1. \A k \in DOMAIN m : FALSE  BY <1>1, <1>4, <1>5, <1>6, <1>2, <2>1
    <3>. QED BY <3>1 DEF Reachable, m
  <2>2. CASE goals # <<>>
    <3>1. Returned /\ Len(goals) = 1 /\ job.allow_empty
      BY <1>1, <1>9, <2>2, JobsAssumption DEF Tally, IsPlan
    <3>2. Head(goals) \cap W(D) = {}  BY <1>9, <3>1, NothingWithin DEF Counted, Overlooked
    <3>3. Head(goals) = goals[1]  BY <1>1, <2>2, TailFacts
    <3>4. Tried = Len(g) - 1  BY <3>1 DEF Tried, g
    <3>5. Head(goals) = g[Tried + 1]  BY <3>1, <3>3 DEF GoalInv, g
    <3>6. \A k \in 1 .. Tried : g[k] \cap W(D) = {}  BY DEF GoalInv, g
    <3>7. \A k \in 1 .. Len(m) : k \in 1 .. Tried \/ k = Tried + 1
      <4>1. Tried = Len(m) - 1 /\ Len(m) \in Nat  BY <1>4, <1>5, <3>4
      <4>. QED BY <4>1
    <3>8. \A k \in 1 .. Len(m) : m[k] \notin W(D)  BY <1>5, <3>2, <3>5, <3>6, <3>7
    <3>. QED BY <1>4, <3>8 DEF Reachable, m
  <2>. QED BY <2>1, <2>2
<1>. QED BY <1>7, <1>8, <1>9

(* How many of the first n values are in a set. *)
Count(P, n) == Cardinality({o \in 0 .. n - 1 : o \in P})

LEMMA CountFacts ==
    ASSUME NEW P, NEW n \in Nat
    PROVE  /\ Count(P, 0) = 0 /\ Count(P, n) \in Nat
           /\ n \in P => Count(P, n + 1) = Count(P, n) + 1
           /\ n \notin P => Count(P, n + 1) = Count(P, n)
<1>. DEFINE S(k) == {o \in 0 .. k - 1 : o \in P}
<1>1. S(0) = {}  OBVIOUS
<1>2. IsFiniteSet(S(n))
  <2>1. IsFiniteSet(0 .. n - 1)  BY FS_Interval
  <2>. QED BY <2>1, FS_Subset
<1>3. n \notin S(n)  OBVIOUS
<1>4. n \in P => S(n+1) = S(n) \cup {n}  OBVIOUS
<1>5. n \notin P => S(n+1) = S(n)  OBVIOUS
<1>6. \A k : Count(P, k) = Cardinality(S(k))  BY DEF Count
<1>. HIDE DEF S
<1>7. Cardinality(S(n)) \in Nat /\ Cardinality(S(n) \cup {n}) = Cardinality(S(n)) + 1
  BY <1>2, <1>3, FS_CardinalityType, FS_AddElement
<1>. QED BY <1>1, <1>4, <1>5, <1>6, <1>7, FS_EmptySet

Solvables == {o \in Nat : Solvable(o)}
Reachables == {o \in Nat : Reachable(o)}
Dealt == IF done THEN offset + 1 ELSE offset

(* The counts are those of the values dealt with so far. *)
SumInv ==
    IsPlan(job) =>
        /\ offset \in 0 .. job.count - 1 /\ (done => offset = job.count - 1)
        /\ direct = Count(Solvables, Dealt) /\ planned = Count(Reachables, Dealt)

LEMMA SumInit == Init => SumInv
<1>. SUFFICES ASSUME Init PROVE SumInv  OBVIOUS
<1>1. job \in Jobs /\ offset = 0 /\ direct = 0 /\ planned = 0 /\ done = FALSE  BY DEF Init
<1>2. Dealt = 0  BY <1>1 DEF Dealt
<1>3. Count(Solvables, 0) = 0 /\ Count(Reachables, 0) = 0  BY CountFacts
<1>4. IsPlan(job) => 0 \in 0 .. job.count - 1  BY <1>1, JobsAssumption
<1>. QED BY <1>1, <1>2, <1>3, <1>4 DEF SumInv

LEMMA ValuesKept ==
    ASSUME UNCHANGED job
    PROVE  Solvables' = Solvables /\ Reachables' = Reachables
BY DEF Solvables, Reachables, Solvable, Reachable, Masks, Source, Target, W, D, Layer

LEMMA SumKept ==
    ASSUME SumInv, UNCHANGED <<job, offset, direct, planned, done>>
    PROVE  SumInv'
<1>1. Solvables' = Solvables /\ Reachables' = Reachables  BY ValuesKept
<1>2. Dealt' = Dealt  BY DEF Dealt
<1>. QED BY <1>1, <1>2 DEF SumInv, IsPlan

LEMMA SumNext == PlanInv /\ LayerInv /\ GoalInv /\ SumInv /\ [Next]_vars => SumInv'
<1>. SUFFICES ASSUME PlanInv, LayerInv, GoalInv, SumInv, [Next]_vars PROVE SumInv'  OBVIOUS
<1>1. CASE Tally
  <2>. SUFFICES ASSUME IsPlan(job) PROVE SumInv'
    BY <1>1 DEF Tally, SumInv, IsPlan
  <2>1. /\ ~done /\ UNCHANGED job
        /\ direct' = (IF goals # <<>> THEN direct + 1 ELSE direct)
        /\ planned' = (IF found # <<>> THEN planned + 1 ELSE planned)
    BY <1>1 DEF Tally
  <2>2. offset \in Nat /\ offset \in 0 .. job.count - 1 /\ job.count \in Nat \ {0}
    BY JobsAssumption DEF GoalInv, SumInv, PlanInv
  <2>3. direct = Count(Solvables, offset) /\ planned = Count(Reachables, offset)
    BY <2>1 DEF SumInv, Dealt
  <2>4. (goals # <<>> <=> offset \in Solvables) /\ (found # <<>> <=> offset \in Reachables)
    BY <1>1, <2>2, VerdictIsTrue DEF Solvables, Reachables
  <2>5. direct' = Count(Solvables, offset + 1)  BY <2>1, <2>2, <2>3, <2>4, CountFacts
  <2>6. planned' = Count(Reachables, offset + 1)  BY <2>1, <2>2, <2>3, <2>4, CountFacts
  <2>7. Solvables' = Solvables /\ Reachables' = Reachables  BY <2>1, ValuesKept
  <2>8. Dealt' = offset + 1 /\ offset' \in 0 .. job.count - 1 /\ (done' => offset' = job.count - 1)
    <3>1. CASE offset + 1 < job.count
      <4>1. offset' = offset + 1 /\ done' = done  BY <1>1, <3>1 DEF Tally
      <4>. QED BY <2>1, <2>2, <3>1, <4>1 DEF Dealt
    <3>2. CASE ~(offset + 1 < job.count)
      <4>1. offset' = offset /\ done'  BY <1>1, <3>2 DEF Tally
      <4>. QED BY <2>2, <3>2, <4>1 DEF Dealt
    <3>. QED BY <3>1, <3>2
  <2>. QED BY <2>1, <2>5, <2>6, <2>7, <2>8 DEF SumInv
<1>2. CASE UNCHANGED <<job, offset, direct, planned, done>>  BY <1>2, SumKept
<1>. QED
  BY <1>1, <1>2 DEF Next, Find, DropDeep, Expand, Skip, Push, Expanded, NextMask, Reported, vars

(* The summary of increment-profile is right, for any number of values:    *)
(* "direct" counts those for which any word is a mask at all, "planned"    *)
(* those of which one of the first masks can be reached within the depth.  *)
THEOREM SummaryTellsTheTruth == Spec => []SummaryIsTrue
<1>1. PlanInv /\ SumInv => SummaryIsTrue
  <2>. SUFFICES ASSUME PlanInv, SumInv, done, IsPlan(job)
                PROVE  LET values == {o \in 0 .. job.count - 1 : IsPlan(job)}
                       IN  /\ direct = Cardinality({o \in values : Solvable(o)})
                           /\ planned = Cardinality({o \in values : Reachable(o)})
    BY DEF SummaryIsTrue, Solvable, Reachable, W, D
  <2>. DEFINE values == {o \in 0 .. job.count - 1 : IsPlan(job)}
  <2>1. job.count \in Nat \ {0} /\ offset = job.count - 1  BY JobsAssumption DEF PlanInv, SumInv
  <2>2. Dealt = job.count  BY <2>1 DEF Dealt
  <2>3. direct = Count(Solvables, job.count) /\ planned = Count(Reachables, job.count)
    BY <2>2 DEF SumInv
  <2>4. {o \in values : Solvable(o)} = {o \in 0 .. job.count - 1 : o \in Solvables}
    BY <2>1 DEF Solvables
  <2>5. {o \in values : Reachable(o)} = {o \in 0 .. job.count - 1 : o \in Reachables}
    BY <2>1 DEF Reachables
  <2>. QED BY <2>3, <2>4, <2>5 DEF Count
<1>2. Init => Fresh /\ FreshGoals  BY DEF Init, Fresh, FreshGoals, GoalSets, Masks, Source, Target
<1>. QED
  BY <1>1, <1>2, PlanInit, PlanNext, WordsInit, WordsNext, LayersInit, LayersNext,
     GoalsInit, GoalsNext, SumInit, SumNext, PTL DEF Spec

=============================================================================
