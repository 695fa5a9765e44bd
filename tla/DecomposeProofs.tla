-------------------------- MODULE DecomposeProofs --------------------------
(***************************************************************************)
(* Theorems about Decompose, for every number and every width.  The first  *)
(* part is induction over numbers and definition by recursion, stated of   *)
(* sets and functions.                                                     *)
(***************************************************************************)
EXTENDS Decompose, TLAPS, WellFoundedInduction

(* A set of numbers that is not empty has a least element. *)
LEMMA Least ==
  ASSUME NEW S, S \subseteq Nat, S # {}
  PROVE  \E n \in S : \A m \in S : n <= m
<1>1. PICK n \in S : \A m \in S : ~(<<m, n>> \in OpToRel(<, Nat))
  BY WFMin, NatLessThanWellFounded, Zenon
<1>2. \A m \in S : n \in Nat /\ m \in Nat /\ ~(m < n)
  BY <1>1 DEF OpToRel
<1>3. \A m \in S : n <= m
  BY <1>2
<1> QED
  BY <1>3

(* Induction: a set that contains a number whenever it contains all the    *)
(* smaller ones contains every number.                                     *)
LEMMA Induction ==
  ASSUME NEW S, \A n \in Nat : (\A m \in 0 .. n - 1 : m \in S) => n \in S
  PROVE  Nat \subseteq S
<1> SUFFICES ASSUME Nat \ S # {} PROVE FALSE
  OBVIOUS
<1>1. PICK n \in Nat \ S : \A m \in Nat \ S : n <= m
  <2> DEFINE C == Nat \ S
  <2>1. C \subseteq Nat /\ C # {}
    OBVIOUS
  <2> HIDE DEF C
  <2>2. \E n \in C : \A m \in C : n <= m
    BY <2>1, Least
  <2> QED
    BY <2>2 DEF C
<1>2. \A m \in 0 .. n - 1 : m \in S
  BY <1>1
<1> QED
  BY <1>1, <1>2

(* H computes the value at n from the values below n. *)
FromBelow(H, V) ==
  /\ H \in [Nat -> [[Nat -> V] -> V]]
  /\ \A n \in Nat : \A e, f \in [Nat -> V] :
       (\A m \in 0 .. n - 1 : e[m] = f[m]) => H[n][e] = H[n][f]

(* Recursion: there is a function that has the values H computes. *)
LEMMA Recursion ==
  ASSUME NEW V, V # {}, NEW H, FromBelow(H, V)
  PROVE  \E f \in [Nat -> V] : \A n \in Nat : f[n] = H[n][f]
<1>0. PICK v : v \in V
  OBVIOUS
<1> USE DEF FromBelow
<1> DEFINE Upto(n) == {f \in [Nat -> V] : \A m \in 0 .. n : f[m] = H[m][f]}
<1>1. \A n \in Nat : Upto(n) # {}
  <2> DEFINE S == {n \in Nat : Upto(n) # {}}
  <2>1. ASSUME NEW n \in Nat, \A m \in 0 .. n - 1 : m \in S PROVE n \in S
    <3>1. PICK e \in [Nat -> V] : \A m \in 0 .. n - 1 : e[m] = H[m][e]
      <4>1. CASE n = 0
        <5> DEFINE e == [m \in Nat |-> v]
        <5>1. e \in [Nat -> V]
          BY <1>0
        <5>2. \A m \in 0 .. n - 1 : e[m] = H[m][e]
          BY <4>1
        <5> HIDE DEF e
        <5> QED
          BY <5>1, <5>2
      <4>2. CASE n # 0
        <5>1. n - 1 \in 0 .. n - 1 /\ n - 1 \in Nat
          BY <4>2
        <5>2. Upto(n - 1) # {}
          BY <5>1, <2>1
        <5> QED
          BY <5>2
      <4> QED
        BY <4>1, <4>2
    <3>2. H[n][e] \in V
      OBVIOUS
    <3> DEFINE f == [e EXCEPT ![n] = H[n][e]]
    <3>3. f \in [Nat -> V] /\ f[n] = H[n][e] /\ \A m \in 0 .. n - 1 : f[m] = e[m]
      BY <3>2
    <3> HIDE DEF f
    <3>4. \A m \in 0 .. n : H[m][f] = H[m][e]
      <4> TAKE m \in 0 .. n
      <4>1. m \in Nat /\ \A l \in 0 .. m - 1 : f[l] = e[l]
        BY <3>3
      <4> QED
        BY <4>1, <3>3
    <3>5. \A m \in 0 .. n : f[m] = H[m][f]
      <4> TAKE m \in 0 .. n
      <4>1. m = n \/ m \in 0 .. n - 1
        OBVIOUS
      <4> QED
        BY <4>1, <3>1, <3>3, <3>4
    <3>6. f \in Upto(n)
      BY <3>3, <3>5
    <3> QED
      BY <3>6
  <2> HIDE DEF S
  <2>2. Nat \subseteq S
    BY <2>1, Induction
  <2> QED
    BY <2>2 DEF S
<1>2. \A n, k \in Nat : \A e \in Upto(n) : \A f \in Upto(k) :
        \A l \in Nat : l <= n /\ l <= k => e[l] = f[l]
  <2> TAKE n, k \in Nat
  <2> TAKE e \in Upto(n)
  <2> TAKE f \in Upto(k)
  <2>0. /\ e \in [Nat -> V] /\ \A m \in 0 .. n : e[m] = H[m][e]
        /\ f \in [Nat -> V] /\ \A m \in 0 .. k : f[m] = H[m][f]
    OBVIOUS
  <2> DEFINE S == {l \in Nat : l <= n /\ l <= k => e[l] = f[l]}
  <2> HIDE DEF Upto
  <2>1. ASSUME NEW l \in Nat, \A m \in 0 .. l - 1 : m \in S PROVE l \in S
    <3> SUFFICES ASSUME l <= n, l <= k PROVE e[l] = f[l]
      OBVIOUS
    <3>1. \A m \in 0 .. l - 1 : e[m] = f[m]
      BY <2>1
    <3>2. H[l][e] = H[l][f]
      BY <2>0, <3>1
    <3> QED
      BY <2>0, <3>2
  <2> HIDE DEF S
  <2>2. Nat \subseteq S
    BY <2>1, Induction
  <2> QED
    BY <2>2 DEF S
<1> DEFINE F == [n \in Nat |-> (CHOOSE f \in Upto(n) : TRUE)[n]]
<1>3. ASSUME NEW n \in Nat
      PROVE  \E c \in Upto(n) : \A m \in 0 .. n : F[m] = c[m]
  <2> DEFINE c(m) == CHOOSE f \in Upto(m) : TRUE
  <2>1. \A m \in Nat : c(m) \in Upto(m)
    <3> HIDE DEF Upto
    <3> QED
      BY <1>1, Zenon
  <2>2. \A m \in 0 .. n : F[m] = c(m)[m]
    <3> HIDE DEF Upto
    <3> QED
      OBVIOUS
  <2> HIDE DEF Upto, F, c
  <2>3. \A m \in 0 .. n : c(m)[m] = c(n)[m]
    BY <1>2, <2>1
  <2> QED
    BY <2>1, <2>2, <2>3
<1>4. F \in [Nat -> V]
  <2>1. ASSUME NEW n \in Nat PROVE F[n] \in V
    <3> HIDE DEF F
    <3>1. PICK c \in Upto(n) : \A m \in 0 .. n : F[m] = c[m]
      BY <1>3
    <3>2. c \in [Nat -> V] /\ n \in 0 .. n
      OBVIOUS
    <3> QED
      BY <3>1, <3>2
  <2> HIDE DEF Upto
  <2> QED
    BY <2>1
<1> HIDE DEF F
<1>5. ASSUME NEW n \in Nat PROVE F[n] = H[n][F]
  <2>1. PICK c \in Upto(n) : \A m \in 0 .. n : F[m] = c[m]
    BY <1>3
  <2>2. c \in [Nat -> V] /\ c[n] = H[n][c] /\ \A m \in 0 .. n - 1 : F[m] = c[m]
    BY <2>1
  <2>3. H[n][F] = H[n][c]
    BY <1>4, <2>2
  <2> QED
    BY <2>1, <2>2, <2>3
<1> QED
  BY <1>4, <1>5

-----------------------------------------------------------------------------
(* gcd *)

(* Remainders are numbers below the divisor, and add up with the quotient. *)
LEMMA Remainder ==
  ASSUME NEW a \in Nat, NEW b \in Nat \ {0}
  PROVE  /\ a % b \in 0 .. b - 1 /\ a \div b \in Nat
         /\ a = b * (a \div b) + (a % b)
  OBVIOUS

(* The recursion of gcd in math.c ends: its second argument falls. *)
LEMMA EuclidIs ==
  /\ Euclid \in [Nat -> [Nat -> Nat]]
  /\ \A a, b \in Nat : gcd(a, b) = IF b # 0 THEN gcd(b, a % b) ELSE a
<1> DEFINE V == [Nat -> Nat]
           Step(n, f) == [a \in Nat |-> IF n # 0 THEN f[a % n][n] ELSE a]
           H == [n \in Nat |-> [f \in [Nat -> V] |-> Step(n, f)]]
<1>1. ASSUME NEW n \in Nat, NEW f \in [Nat -> V] PROVE Step(n, f) \in V
  <2>1. ASSUME NEW a \in Nat PROVE (IF n # 0 THEN f[a % n][n] ELSE a) \in Nat
    <3>1. CASE n # 0
      <4>1. a % n \in Nat
        BY <3>1, Remainder
      <4>2. f[a % n] \in V
        BY <4>1
      <4> QED
        BY <3>1, <4>2
    <3> QED
      BY <3>1
  <2> QED
    BY <2>1
<1>2. ASSUME NEW n \in Nat, NEW e \in [Nat -> V], NEW f \in [Nat -> V],
             \A m \in 0 .. n - 1 : e[m] = f[m]
      PROVE  Step(n, e) = Step(n, f)
  <2>1. \A a \in Nat : n # 0 => e[a % n] = f[a % n]
    BY <1>2, Remainder
  <2> QED
    BY <2>1
<1>3. PICK f \in [Nat -> V] : \A n \in Nat : f[n] = Step(n, f)
  <2> HIDE DEF Step
  <2>1. FromBelow(H, V)
    <3>1. H \in [Nat -> [[Nat -> V] -> V]]
      BY <1>1
    <3>2. \A n \in Nat : \A e, f \in [Nat -> V] :
            (\A m \in 0 .. n - 1 : e[m] = f[m]) => H[n][e] = H[n][f]
      BY <1>2
    <3> QED
      BY <3>1, <3>2 DEF FromBelow
  <2>2. [a \in Nat |-> 0] \in V
    OBVIOUS
  <2>3. \A n \in Nat : \A f \in [Nat -> V] : H[n][f] = Step(n, f)
    OBVIOUS
  <2> HIDE DEF V, H
  <2>4. \E f \in [Nat -> V] : \A n \in Nat : f[n] = H[n][f]
    BY <2>1, <2>2, Recursion
  <2> QED
    BY <2>3, <2>4
<1>4. f = [b \in Nat |-> [a \in Nat |-> IF b # 0 THEN f[a % b][b] ELSE a]]
  BY <1>3
<1>5. Euclid = [b \in Nat |-> [a \in Nat |-> IF b # 0 THEN Euclid[a % b][b] ELSE a]]
  BY <1>4, Zenon DEF Euclid
<1>6. Nat \subseteq {b \in Nat : Euclid[b] \in [Nat -> Nat]}
  <2> DEFINE S == {b \in Nat : Euclid[b] \in [Nat -> Nat]}
  <2>1. ASSUME NEW b \in Nat, \A m \in 0 .. b - 1 : m \in S PROVE b \in S
    <3>1. \A a \in Nat : b # 0 => Euclid[a % b][b] \in Nat
      BY <2>1, Remainder
    <3>2. Euclid[b] = [a \in Nat |-> IF b # 0 THEN Euclid[a % b][b] ELSE a]
      BY <1>5
    <3>3. \A a \in Nat : (IF b # 0 THEN Euclid[a % b][b] ELSE a) \in Nat
      BY <3>1
    <3>4. Euclid[b] \in [Nat -> Nat]
      BY <3>2, <3>3
    <3> QED
      BY <3>4
  <2> HIDE DEF S
  <2>2. Nat \subseteq S
    BY <2>1, Induction
  <2> QED
    BY <2>2 DEF S
<1>7. Euclid \in [Nat -> [Nat -> Nat]]
  BY <1>5, <1>6
<1>8. \A a, b \in Nat : Euclid[b][a] = IF b # 0 THEN Euclid[a % b][b] ELSE a
  <2> TAKE a, b \in Nat
  <2>1. Euclid[b] = [n \in Nat |-> IF b # 0 THEN Euclid[n % b][b] ELSE n]
    BY <1>5
  <2> QED
    BY <2>1
<1> QED
  BY <1>7, <1>8 DEF gcd

(* Products with a sum. *)
LEMMA Distribute ==
  ASSUME NEW a \in Int, NEW b \in Int, NEW c \in Int
  PROVE  /\ a * (b + c) = a * b + a * c /\ (b + c) * a = b * a + c * a
         /\ (a * b) * c = a * (b * c) /\ a * b = b * a
         /\ a * b \in Int
  OBVIOUS

(* d divides n. *)
Divides(d, n) == \E m \in Nat : n = m * d

(* gcd of math.c finds a common divisor, and none that is 0 unless both    *)
(* numbers are.                                                            *)
LEMMA GcdDivides ==
  ASSUME NEW a \in Nat, NEW b \in Nat, a # 0 \/ b # 0
  PROVE  /\ gcd(a, b) \in Nat \ {0}
         /\ Divides(gcd(a, b), a) /\ Divides(gcd(a, b), b)
<1> DEFINE Good(c, d) == c # 0 \/ d # 0 =>
             /\ gcd(c, d) \in Nat \ {0}
             /\ Divides(gcd(c, d), c) /\ Divides(gcd(c, d), d)
           S == {d \in Nat : \A c \in Nat : Good(c, d)}
<1>1. ASSUME NEW d \in Nat, \A m \in 0 .. d - 1 : m \in S PROVE d \in S
  <2> SUFFICES ASSUME NEW c \in Nat, c # 0 \/ d # 0
               PROVE  /\ gcd(c, d) \in Nat \ {0}
                      /\ Divides(gcd(c, d), c) /\ Divides(gcd(c, d), d)
    OBVIOUS
  <2> DEFINE n == gcd(c, d)
  <2>1. CASE d = 0
    <3>1. n = c
      BY <2>1, EuclidIs
    <3>2. c = 1 * c /\ d = 0 * c
      BY <2>1
    <3> QED
      BY <2>1, <3>1, <3>2 DEF Divides
  <2>2. CASE d # 0
    <3>1. n = gcd(d, c % d)
      BY <2>2, EuclidIs
    <3>2. c % d \in 0 .. d - 1 /\ c \div d \in Nat /\ c = d * (c \div d) + (c % d)
      BY <2>2, Remainder
    <3>3. Good(d, c % d)
      BY <1>1, <3>2
    <3>4. n \in Nat \ {0} /\ Divides(n, d) /\ Divides(n, c % d)
      BY <2>2, <3>1, <3>3
    <3> HIDE DEF n, Good
    <3>5. PICK k \in Nat : d = k * n
      BY <3>4 DEF Divides
    <3>6. PICK l \in Nat : c % d = l * n
      BY <3>4 DEF Divides
    <3> DEFINE w == c \div d
    <3> HIDE DEF w
    <3>7. c = (k * n) * w + l * n /\ w \in Nat
      BY <3>2, <3>5, <3>6 DEF w
    <3>8. (k * n) * w = (k * w) * n /\ k * w \in Nat
      BY <3>4, <3>7
    <3>9. c = (k * w + l) * n /\ k * w + l \in Nat
      BY <3>4, <3>7, <3>8, Distribute
    <3>10. Divides(n, c)
      BY <3>9 DEF Divides
    <3> QED
      BY <3>4, <3>10 DEF n
  <2> QED
    BY <2>1, <2>2
<1> HIDE DEF S
<1>2. Nat \subseteq S
  BY <1>1, Induction
<1> QED
  BY <1>2 DEF S

(* Quotient and remainder are determined by what they add up to. *)
LEMMA DivisionUnique ==
  ASSUME NEW n \in Nat, NEW d \in Nat \ {0}, NEW k \in Nat, NEW r \in 0 .. d - 1,
         n = k * d + r
  PROVE  n % d = r /\ n \div d = k
<1> DEFINE w == n \div d
           t == n % d
<1>1. t \in 0 .. d - 1 /\ w \in Nat /\ n = d * w + t
  BY Remainder
<1> HIDE DEF w, t
<1>2. d * w = w * d /\ w * d \in Nat /\ k * d \in Nat
  BY <1>1
<1>3. ASSUME k + 1 <= w PROVE FALSE
  <2>1. PICK e \in Nat : w = (k + 1) + e
    BY <1>1, <1>3
  <2>2. w * d = (k * d + d) + e * d /\ e * d \in Nat
    BY <2>1, Distribute
  <2> QED
    BY <1>1, <1>2, <2>2
<1>4. ASSUME w + 1 <= k PROVE FALSE
  <2>1. PICK e \in Nat : k = (w + 1) + e
    BY <1>1, <1>4
  <2>2. k * d = (w * d + d) + e * d /\ e * d \in Nat
    BY <1>1, <2>1, Distribute
  <2> QED
    BY <1>1, <1>2, <2>2
<1>5. w = k
  BY <1>1, <1>3, <1>4
<1>6. t = r
  BY <1>1, <1>2, <1>5
<1> QED
  BY <1>5, <1>6 DEF w, t

(* A divisor is no larger than what it divides and leaves no remainder. *)
LEMMA DivisorFits ==
  ASSUME NEW n \in Nat \ {0}, NEW d \in Nat \ {0}, Divides(d, n)
  PROVE  d <= n /\ n % d = 0 /\ n = (n \div d) * d /\ n \div d \in Nat
<1>1. PICK m \in Nat : n = m * d
  BY DEF Divides
<1>2. n = m * d + 0 /\ 0 \in 0 .. d - 1
  BY <1>1
<1>3. n % d = 0 /\ n \div d = m
  BY <1>2, DivisionUnique
<1>4. m # 0
  BY <1>1
<1>5. PICK e \in Nat : m = 1 + e
  BY <1>4
<1>6. m * d = d + e * d /\ e * d \in Nat
  BY <1>5
<1> QED
  BY <1>1, <1>3, <1>6

-----------------------------------------------------------------------------
(* The square *)

(* What the loop of additions makes of a and c in one turn is a number. *)
LEMMA ReduceType ==
  ASSUME pq \in Inputs, NEW n \in Nat
  PROVE  Reduce(Uint(n)) \in Nat
<1>1. Uint(n) \in Nat
  BY PowersOfTwo, Remainder DEF Uint
<1> QED
  BY <1>1, DecomposeAssumption DEF Reduce

(* The loop of additions ends, since b is halved each time: what it        *)
(* computes from a turn on.                                                *)
LEMMA AdditionsIs ==
  ASSUME pq \in Inputs
  PROVE  \A a, b, c \in Nat :
           MulAdd(a, b, c) =
             IF b = 0 THEN c
             ELSE MulAdd(Reduce(Uint(a + a)), b \div 2,
                         IF b % 2 = 1 THEN Reduce(Uint(c + a)) ELSE c)
<1> DEFINE V == [Nat -> [Nat -> Nat]]
           A(a) == Reduce(Uint(a + a))
           C(a, b, c) == IF b % 2 = 1 THEN Reduce(Uint(c + a)) ELSE c
           Step(n, f) == [a \in Nat |-> [c \in Nat |->
                            IF n = 0 THEN c ELSE f[n \div 2][A(a)][C(a, n, c)]]]
           H == [n \in Nat |-> [f \in [Nat -> V] |-> Step(n, f)]]
<1>0. /\ \A a \in Nat : A(a) \in Nat
      /\ \A a, b, c \in Nat : C(a, b, c) \in Nat
  BY ReduceType
<1> HIDE DEF A, C
<1>1. ASSUME NEW n \in Nat, NEW f \in [Nat -> V] PROVE Step(n, f) \in V
  <2>1. ASSUME NEW a \in Nat, NEW c \in Nat
        PROVE  (IF n = 0 THEN c ELSE f[n \div 2][A(a)][C(a, n, c)]) \in Nat
    <3>0. n \div 2 \in Nat
      OBVIOUS
    <3>1. f[n \div 2] \in V
      BY <3>0
    <3> QED
      BY <1>0, <3>1
  <2> QED
    BY <2>1
<1>2. ASSUME NEW n \in Nat, NEW e \in [Nat -> V], NEW f \in [Nat -> V],
             \A m \in 0 .. n - 1 : e[m] = f[m]
      PROVE  Step(n, e) = Step(n, f)
  <2>1. n # 0 => e[n \div 2] = f[n \div 2]
    BY <1>2
  <2> QED
    BY <2>1
<1>3. PICK f \in [Nat -> V] : \A n \in Nat : f[n] = Step(n, f)
  <2> HIDE DEF Step
  <2>1. FromBelow(H, V)
    <3>1. H \in [Nat -> [[Nat -> V] -> V]]
      BY <1>1
    <3>2. \A n \in Nat : \A e, f \in [Nat -> V] :
            (\A m \in 0 .. n - 1 : e[m] = f[m]) => H[n][e] = H[n][f]
      BY <1>2
    <3> QED
      BY <3>1, <3>2 DEF FromBelow
  <2>2. [a \in Nat |-> [c \in Nat |-> 0]] \in V
    OBVIOUS
  <2>3. \A n \in Nat : \A f \in [Nat -> V] : H[n][f] = Step(n, f)
    OBVIOUS
  <2> HIDE DEF V, H
  <2>4. \E f \in [Nat -> V] : \A n \in Nat : f[n] = H[n][f]
    BY <2>1, <2>2, Recursion
  <2> QED
    BY <2>3, <2>4
<1>4. f = [b \in Nat |-> [a \in Nat |-> [c \in Nat |->
             IF b = 0 THEN c ELSE f[b \div 2][A(a)][C(a, b, c)]]]]
  BY <1>3
<1>5. Additions = [b \in Nat |-> [a \in Nat |-> [c \in Nat |->
             IF b = 0 THEN c ELSE Additions[b \div 2][A(a)][C(a, b, c)]]]]
  BY <1>4, Zenon DEF Additions, A, C
<1>6. ASSUME NEW a \in Nat, NEW b \in Nat, NEW c \in Nat
      PROVE  MulAdd(a, b, c) =
               IF b = 0 THEN c ELSE MulAdd(A(a), b \div 2, C(a, b, c))
  <2>1. Additions[b] = [m \in Nat |-> [n \in Nat |->
             IF b = 0 THEN n ELSE Additions[b \div 2][A(m)][C(m, b, n)]]]
    BY <1>5
  <2>2. Additions[b][a] = [n \in Nat |->
             IF b = 0 THEN n ELSE Additions[b \div 2][A(a)][C(a, b, n)]]
    BY <2>1
  <2> QED
    BY <2>2 DEF MulAdd
<1> QED
  BY <1>6 DEF A, C

(* The sum of two residues, reduced once: in 64 bits it does not overflow, *)
(* and what is taken off is pq or nothing.                                 *)
LEMMA AddModulo ==
  ASSUME pq \in Inputs, NEW a \in 0 .. pq - 1, NEW c \in 0 .. pq - 1
  PROVE  /\ Reduce(Uint(c + a)) \in 0 .. pq - 1
         /\ \E e \in {0, 1} : c + a = Reduce(Uint(c + a)) + e * pq
<1>1. pq \in Nat /\ 2 * pq <= 2 ^ Bits /\ 2 ^ Bits \in Nat \ {0}
  BY DecomposeAssumption, PowersOfTwo
<1>2. Uint(c + a) = c + a
  <2> DEFINE w == 2 ^ Bits
  <2>1. c + a \in 0 .. w - 1 /\ c + a = 0 * w + (c + a)
    BY <1>1
  <2> QED
    BY <1>1, <2>1, DivisionUnique DEF Uint
<1> QED
  BY <1>1, <1>2 DEF Reduce

(* The loop of additions in decompose_64bit leaves the remainder of        *)
(* a * b + c.                                                              *)
LEMMA MulAddRight ==
  ASSUME pq \in Inputs, NEW a \in 0 .. pq - 1, NEW b \in Nat,
         NEW c \in 0 .. pq - 1
  PROVE  MulAdd(a, b, c) \in 0 .. pq - 1 /\ MulAdd(a, b, c) = (a * b + c) % pq
<1>0. pq \in Nat \ {0}
  BY DecomposeAssumption
<1> DEFINE R == 0 .. pq - 1
           Good(u, n, v) == /\ MulAdd(u, n, v) \in R
                            /\ \E k \in Nat : u * n + v = k * pq + MulAdd(u, n, v)
           S == {n \in Nat : \A u, v \in R : Good(u, n, v)}
<1>1. ASSUME NEW n \in Nat, \A m \in 0 .. n - 1 : m \in S PROVE n \in S
  <2> SUFFICES ASSUME NEW u \in R, NEW v \in R PROVE Good(u, n, v)
    OBVIOUS
  <2>0. u \in Nat /\ v \in Nat
    BY <1>0
  <2>1. CASE n = 0
    <3>1. MulAdd(u, n, v) = v
      BY <2>0, <2>1, AdditionsIs
    <3>2. u * n + v = 0 * pq + v
      BY <1>0, <2>0, <2>1
    <3> QED
      BY <3>1, <3>2
  <2>2. CASE n # 0
    <3> DEFINE h == n \div 2
               t == n % 2
               u2 == Reduce(Uint(u + u))
               v2 == IF n % 2 = 1 THEN Reduce(Uint(v + u)) ELSE v
               w == MulAdd(u, n, v)
    <3>1. w = MulAdd(u2, h, v2)
      BY <2>0, <2>2, AdditionsIs
    <3>2. u2 \in R /\ \E e \in {0, 1} : u + u = u2 + e * pq
      BY AddModulo
    <3>3. v2 \in R /\ \E e \in {0, 1} : v + t * u = v2 + e * pq
      <4>1. CASE n % 2 = 1
        <5>1. t * u = u
          BY <2>0, <4>1
        <5> QED
          BY <4>1, <5>1, AddModulo
      <4>2. CASE n % 2 # 1
        <5>1. t * u = 0 /\ v + 0 = v + 0 * pq
          BY <1>0, <2>0, <4>2
        <5> QED
          BY <4>2, <5>1
      <4> QED
        BY <4>1, <4>2
    <3>4. h \in 0 .. n - 1 /\ t \in {0, 1} /\ n = 2 * h + t
      BY <2>2
    <3>5. Good(u2, h, v2)
      <4> HIDE DEF Good, u2, v2, h
      <4> QED
        BY <1>1, <3>2, <3>3, <3>4
    <3>6. PICK k \in Nat : u2 * h + v2 = k * pq + w
      BY <3>1, <3>5
    <3>7. w \in R
      BY <3>1, <3>5
    <3> HIDE DEF u2, v2, h, t, w
    <3>8. PICK d \in {0, 1} : u + u = u2 + d * pq
      BY <3>2
    <3>9. PICK e \in {0, 1} : v + t * u = v2 + e * pq
      BY <3>3
    <3>10. u2 \in Nat /\ v2 \in Nat /\ h \in Nat /\ w \in Nat
      BY <1>0, <3>2, <3>3, <3>4, <3>7
    <3>11. u * n = (u + u) * h + t * u
      BY <2>0, <3>4, <3>10
    <3>12. (u + u) * h = u2 * h + (d * h) * pq /\ d * h \in Nat
      BY <1>0, <3>8, <3>10
    <3>13. u * n + v = k * pq + w + (d * h) * pq + e * pq
      <4>1. /\ u * n \in Int /\ (u + u) * h \in Int /\ t * u \in Int /\ u2 * h \in Int
            /\ (d * h) * pq \in Int /\ e * pq \in Int /\ k * pq \in Int
        BY <1>0, <2>0, <3>4, <3>10, <3>12
      <4> QED
        BY <2>0, <3>6, <3>9, <3>10, <3>11, <3>12, <4>1
    <3>14. u * n + v = (k + d * h + e) * pq + w /\ k + d * h + e \in Nat
      <4>1. (k + d * h + e) * pq = k * pq + (d * h) * pq + e * pq
        BY <1>0, <3>12
      <4> QED
        BY <1>0, <2>0, <3>10, <3>12, <3>13, <4>1
    <3> QED
      BY <3>7, <3>14 DEF w
  <2> HIDE DEF Good
  <2> QED
    BY <2>1, <2>2
<1> HIDE DEF S
<1>2. b \in S
  BY <1>1, Induction
<1>3. Good(a, b, c)
  BY <1>2 DEF S
<1>4. PICK k \in Nat : a * b + c = k * pq + MulAdd(a, b, c)
  BY <1>3
<1>5. a * b + c \in Nat
  <2>1. a \in Nat /\ c \in Nat
    BY <1>0
  <2> QED
    BY <2>1
<1> QED
  BY <1>0, <1>3, <1>4, <1>5, DivisionUnique

-----------------------------------------------------------------------------
(* The rounds *)

(* A lim above 1 is what allows a turn; the shift of math.c yields one     *)
(* unless its distance, taken modulo ShiftMod, is 0 or reaches the sign.   *)
LEMMA LimAllows ==
  ASSUME NEW n \in Nat
  PROVE  /\ Lim(n) \in Nat
         /\ Lim(n) > 1 <=> (n + BaseShift) % ShiftMod \in 1 .. IntBits - 2
<1> DEFINE d == (n + BaseShift) % ShiftMod
<1>1. d \in Nat /\ IntBits \in Nat
  BY DecomposeAssumption, Remainder
<1>2. Lim(n) = IF d < IntBits - 1 THEN 2 ^ d ELSE 0
  BY DEF Lim
<1> SUFFICES Lim(n) \in Nat /\ (Lim(n) > 1 <=> d \in 1 .. IntBits - 2)
  OBVIOUS
<1> HIDE DEF d
<1>3. CASE d = 0
  <2>1. 2 ^ 0 = 1 /\ IntBits >= 3
    BY DecomposeAssumption
  <2>2. 2 ^ d = 2 ^ 0
    BY <1>3, Zenon
  <2>3. Lim(n) = 1
    BY <1>1, <1>2, <1>3, <2>1, <2>2
  <2> QED
    BY <1>1, <1>3, <2>3
<1>4. CASE d \in 1 .. IntBits - 2
  <2>1. 2 ^ d \in Nat \ {0, 1}
    BY <1>1, <1>4, PowersOfTwo
  <2> QED
    BY <1>1, <1>2, <1>4, <2>1
<1>5. CASE d > IntBits - 2
  BY <1>1, <1>2, <1>5
<1> QED
  BY <1>1, <1>3, <1>4, <1>5

(* Quotient and remainder of the next number. *)
LEMMA NextQuotient ==
  ASSUME NEW t \in Nat, NEW m \in Nat \ {0}
  PROVE  IF (t % m) + 1 < m
           THEN (t + 1) \div m = t \div m /\ (t + 1) % m = (t % m) + 1
           ELSE (t + 1) \div m = (t \div m) + 1 /\ (t + 1) % m = 0
<1> DEFINE k == t \div m
           r == t % m
<1>1. r \in 0 .. m - 1 /\ k \in Nat /\ t = m * k + r
  BY Remainder
<1> SUFFICES IF r + 1 < m
               THEN (t + 1) \div m = k /\ (t + 1) % m = r + 1
               ELSE (t + 1) \div m = k + 1 /\ (t + 1) % m = 0
  OBVIOUS
<1> HIDE DEF k, r
<1>2. m * k = k * m /\ k * m \in Nat /\ (k + 1) * m = k * m + m
  BY <1>1
<1>3. CASE r + 1 < m
  <2>1. t + 1 = k * m + (r + 1) /\ r + 1 \in 0 .. m - 1 /\ t + 1 \in Nat
    BY <1>1, <1>2, <1>3
  <2>2. (t + 1) \div m = k /\ (t + 1) % m = r + 1
    BY <1>1, <2>1, DivisionUnique
  <2> QED
    BY <1>3, <2>2
<1>4. CASE ~(r + 1 < m)
  <2>1. /\ t + 1 = (k + 1) * m + 0 /\ k + 1 \in Nat /\ 0 \in 0 .. m - 1
        /\ t + 1 \in Nat
    BY <1>1, <1>2, <1>4
  <2>2. (t + 1) \div m = k + 1 /\ (t + 1) % m = 0
    BY <1>1, <2>1, DivisionUnique
  <2> QED
    BY <1>4, <2>2
<1> QED
  BY <1>3, <1>4

(* Allowed counts the rounds that allow a turn. *)
LEMMA AllowedStep ==
  ASSUME NEW n \in Nat
  PROVE  /\ Allowed(n) \in Int /\ Allowed(n + 1) \in Int
         /\ Allowed(n + 1) = Allowed(n) + IF Lim(n) > 1 THEN 1 ELSE 0
<1> DEFINE t == n + BaseShift
           k == t \div ShiftMod
           r == t % ShiftMod
           B == IntBits - 2
           Cap(l) == IF l = 0 THEN 0 ELSE IF l < IntBits THEN l - 1 ELSE IntBits - 2
<1>1. /\ t \in Nat /\ ShiftMod \in Nat \ {0} /\ B \in Nat \ {0}
      /\ IntBits \in Nat /\ BaseShift \in Nat /\ ShiftMod >= IntBits
  BY DecomposeAssumption
<1>2. r \in 0 .. ShiftMod - 1 /\ k \in Nat
  BY <1>1, Remainder
<1>3. n + 1 + BaseShift = t + 1
  BY <1>1
<1>4. /\ Allowed(n) = k * B - (BaseShift - 1) + Cap(r)
      /\ Allowed(n + 1) = ((t + 1) \div ShiftMod) * B - (BaseShift - 1)
                            + Cap((t + 1) % ShiftMod)
  BY <1>3 DEF Allowed
<1>5. Lim(n) > 1 <=> r \in 1 .. B
  BY LimAllows
<1>6. IF r + 1 < ShiftMod
        THEN (t + 1) \div ShiftMod = k /\ (t + 1) % ShiftMod = r + 1
        ELSE (t + 1) \div ShiftMod = k + 1 /\ (t + 1) % ShiftMod = 0
  BY <1>1, NextQuotient
<1>7. B = IntBits - 2
  OBVIOUS
<1> DEFINE z == k * B
<1> HIDE DEF t, k, r, B
<1>8. k * B \in Int /\ (k + 1) * B = k * B + B
  BY <1>1, <1>2
<1> HIDE DEF z
<1>9. CASE r + 1 < ShiftMod
  <2>1. Allowed(n) = z - (BaseShift - 1) + Cap(r) /\ z \in Int
    BY <1>4, <1>8 DEF z
  <2>2. Allowed(n + 1) = z - (BaseShift - 1) + Cap(r + 1)
    BY <1>4, <1>6, <1>9 DEF z
  <2> QED
    BY <1>1, <1>2, <1>5, <1>7, <2>1, <2>2
<1>10. CASE ~(r + 1 < ShiftMod)
  <2>1. Allowed(n) = z - (BaseShift - 1) + Cap(r) /\ z \in Int
    BY <1>4, <1>8 DEF z
  <2>2. Allowed(n + 1) = (z + B) - (BaseShift - 1) + Cap(0)
    BY <1>4, <1>6, <1>8, <1>10 DEF z
  <2> QED
    BY <1>1, <1>2, <1>5, <1>7, <1>10, <2>1, <2>2
<1> QED
  BY <1>9, <1>10

(* A round is begun only below the bound. *)
LEMMA RoundsEnd ==
  ASSUME NEW n \in Nat, NEW it \in Nat, it >= Allowed(n),
         n < MinRounds \/ it < IterMax
  PROVE  n < MaxRounds
<1> DEFINE t == n + BaseShift
           k == t \div ShiftMod
           r == t % ShiftMod
           B == IntBits - 2
           Q == IterMax \div B
           Cap(l) == IF l = 0 THEN 0 ELSE IF l < IntBits THEN l - 1 ELSE IntBits - 2
<1>1. /\ t \in Nat /\ ShiftMod \in Nat \ {0} /\ B \in Nat \ {0}
      /\ IntBits \in Nat /\ BaseShift \in 1 .. B /\ ShiftMod >= IntBits
      /\ IterMax \in Nat /\ MinRounds \in Nat
  BY DecomposeAssumption
<1>2. r \in 0 .. ShiftMod - 1 /\ k \in Nat /\ t = ShiftMod * k + r
  BY <1>1, Remainder
<1>3. Q \in Nat /\ IterMax = B * Q + (IterMax % B) /\ IterMax % B \in 0 .. B - 1
  BY <1>1, Remainder
<1>4. MaxRounds = MinRounds + ShiftMod * (1 + Q)
  BY DEF MaxRounds
<1>5. Allowed(n) = k * B - (BaseShift - 1) + Cap(r)
  BY DEF Allowed
<1>6. B = IntBits - 2 /\ n = t - BaseShift
  BY <1>1
<1> HIDE DEF t, k, r, B, Q
<1>7. ShiftMod * (1 + Q) \in Nat /\ ShiftMod * (1 + Q) > 0
  BY <1>1, <1>3
<1>8. CASE n < MinRounds
  BY <1>1, <1>4, <1>7, <1>8
<1>9. CASE it < IterMax
  <2>1. k * B - (BaseShift - 1) + Cap(r) <= IterMax - 1 /\ k * B \in Int
    BY <1>1, <1>2, <1>5, <1>9
  <2>2. Cap(r) \in Nat
    BY <1>1, <1>2, <1>6
  <2>3. CASE k <= Q
    <3>1. PICK e \in Nat : Q = k + e
      BY <1>2, <1>3, <2>3
    <3>2. /\ ShiftMod * (1 + Q) = ShiftMod + ShiftMod * k + ShiftMod * e
          /\ ShiftMod * e \in Nat /\ ShiftMod * k \in Nat
      BY <1>1, <1>2, <3>1
    <3> QED
      BY <1>1, <1>2, <1>4, <1>6, <3>2
  <2>4. CASE k = Q + 1
    <3>1. k * B = B * Q + B /\ B * Q \in Int
      BY <1>1, <1>3, <2>4
    <3>2. Cap(r) < BaseShift - 1
      BY <1>1, <1>3, <2>1, <2>2, <3>1
    <3>3. r < BaseShift
      BY <1>1, <1>2, <1>6, <3>2
    <3>4. ShiftMod * k = ShiftMod * (1 + Q) /\ ShiftMod * k \in Int
      BY <1>1, <1>3, <2>4
    <3> QED
      BY <1>1, <1>2, <1>4, <1>6, <1>7, <3>3, <3>4
  <2>5. CASE k > Q + 1
    <3>1. PICK e \in Nat : k = (Q + 2) + e
      BY <1>2, <1>3, <2>5
    <3>2. k * B = B * Q + 2 * B + e * B /\ e * B \in Nat /\ B * Q \in Int
      BY <1>1, <1>3, <3>1
    <3> QED
      BY <1>1, <1>3, <2>1, <2>2, <3>2
  <2> QED
    BY <1>2, <1>3, <2>3, <2>4, <2>5
<1> QED
  BY <1>8, <1>9

-----------------------------------------------------------------------------
(* The invariant *)

(* Before the first round nothing has been counted or found. *)
LEMMA DecomposeInit == ASSUME Init PROVE DecomposeInv
<1>1. TypeOK
  BY DecomposeAssumption DEF Init, TypeOK
<1>2. Allowed(0) = 0
  <2>1. /\ BaseShift \in Nat /\ BaseShift \in 0 .. ShiftMod - 1
        /\ BaseShift = 0 * ShiftMod + BaseShift /\ ShiftMod \in Nat \ {0}
    BY DecomposeAssumption
  <2>2. BaseShift % ShiftMod = BaseShift /\ BaseShift \div ShiftMod = 0
    BY <2>1, DivisionUnique
  <2>3. 0 + BaseShift = BaseShift
    BY <2>1
  <2>4. 0 * (IntBits - 2) = 0 /\ BaseShift # 0 /\ BaseShift < IntBits
    BY DecomposeAssumption
  <2>5. Allowed(0) = 0 * (IntBits - 2) - (BaseShift - 1) + (BaseShift - 1)
    BY <2>2, <2>3, <2>4 DEF Allowed
  <2> QED
    BY <2>1, <2>4, <2>5
<1>3. i <= MaxRounds
  <2> DEFINE Q == IterMax \div (IntBits - 2)
  <2>1. IntBits - 2 \in Nat \ {0} /\ IterMax \in Nat
    BY DecomposeAssumption
  <2>2. Q \in Nat
    BY <2>1, Remainder
  <2>3. MaxRounds = MinRounds + ShiftMod * (1 + Q)
    BY DEF MaxRounds
  <2> HIDE DEF Q
  <2>4. ShiftMod * (1 + Q) \in Nat
    BY <2>2, DecomposeAssumption
  <2> QED
    BY <2>3, <2>4, DecomposeAssumption DEF Init
<1>4. TurnsCounted
  BY <1>2 DEF Init, TurnsCounted
<1> QED
  BY <1>1, <1>3, <1>4
  DEF Init, DecomposeInv, RoundsBounded, GcdFound, SearchOver, AnswerRight

(* A round starts below the bound, with residues of pq. *)
LEMMA RoundKeeps == ASSUME DecomposeInv, Round PROVE DecomposeInv'
<1>0. TypeOK /\ pq \in Nat \ {0, 1} /\ pq \in Inputs
  BY DecomposeAssumption DEF DecomposeInv, TypeOK
<1>1. q' \in 0 .. pq - 1
  <2>1. PICK n \in 0 .. RandMask : q' = (n + RandBase) % pq
    BY DEF Round
  <2>2. n + RandBase \in Nat
    BY DecomposeAssumption
  <2> QED
    BY <1>0, <2>1, <2>2, Remainder
<1>2. x' \in 0 .. pq - 1 /\ y' \in 0 .. pq - 1
  BY <1>0 DEF Round
<1>3. lim' = Lim(i) /\ Lim(i) \in Nat
  BY <1>0, LimAllows DEF Round, TypeOK
<1>4. i < MaxRounds
  BY <1>0, RoundsEnd DEF Round, DecomposeInv, TurnsCounted, TypeOK
<1>5. TypeOK'
  BY <1>0, <1>1, <1>2, <1>3 DEF Round, TypeOK
<1>6. TurnsCounted'
  BY <1>3, <1>4 DEF Round, DecomposeInv, TurnsCounted, Lim, Allowed, MaxRounds
<1> QED
  BY <1>5, <1>6
  DEF Round, DecomposeInv, RoundsBounded, MaxRounds, GcdFound, SearchOver, AnswerRight

(* The search is given up only when its rounds and turns are used up. *)
LEMMA GiveUpKeeps == ASSUME DecomposeInv, GiveUp PROVE DecomposeInv'
<1>0. TypeOK
  BY DEF DecomposeInv
<1>1. i >= MinRounds /\ iter >= IterMax
  BY <1>0, DecomposeAssumption DEF GiveUp, TypeOK
<1>2. g # 0
  BY <1>0, <1>1, DecomposeAssumption DEF DecomposeInv, GcdFound, TypeOK
<1> QED
  BY <1>0, <1>1, <1>2
  DEF GiveUp, DecomposeInv, TypeOK, RoundsBounded, MaxRounds, TurnsCounted, Allowed,
      GcdFound, SearchOver, Found, AnswerRight

(* A turn squares modulo pq and finds a divisor of pq. *)
LEMMA TurnFinds ==
  ASSUME TypeOK, Turn
  PROVE  /\ x' \in 0 .. pq - 1 /\ x' = (x * x + q) % pq
         /\ g' \in 1 .. pq /\ pq % g' = 0
<1>0. /\ pq \in Nat \ {0} /\ pq \in Inputs
      /\ q \in 0 .. pq - 1 /\ x \in 0 .. pq - 1 /\ y \in 0 .. pq - 1
  BY DecomposeAssumption DEF TypeOK
<1>1. x' \in 0 .. pq - 1 /\ x' = (x * x + q) % pq
  <2>1. x' = MulAdd(x, x, q) /\ x \in Nat
    BY <1>0 DEF Turn
  <2>2. MulAdd(x, x, q) \in 0 .. pq - 1 /\ MulAdd(x, x, q) = (x * x + q) % pq
    BY <1>0, <2>1, MulAddRight
  <2> QED
    BY <2>1, <2>2
<1> DEFINE d == Difference(x', y)
<1>2. d \in Nat
  BY <1>0, <1>1 DEF Difference
<1>3. g' = gcd(d, pq)
  BY DEF Turn
<1> HIDE DEF d
<1>4. g' \in Nat \ {0} /\ Divides(g', pq)
  BY <1>0, <1>2, <1>3, GcdDivides
<1>5. g' <= pq /\ pq % g' = 0
  BY <1>0, <1>4, DivisorFits
<1>6. g' \in 1 .. pq
  BY <1>0, <1>4, <1>5
<1> QED
  BY <1>1, <1>5, <1>6, Zenon

(* A turn is counted. *)
LEMMA TurnKeeps == ASSUME DecomposeInv, Turn PROVE DecomposeInv'
<1>0. TypeOK /\ pq \in Nat \ {0, 1}
  BY DecomposeAssumption DEF DecomposeInv, TypeOK
<1>1. /\ x' \in 0 .. pq - 1 /\ g' \in 1 .. pq /\ pq % g' = 0
  BY <1>0, TurnFinds
<1>2. TypeOK'
  BY <1>0, <1>1 DEF Turn, TypeOK
<1>3. /\ Allowed(i) \in Int /\ Allowed(i + 1) \in Int
      /\ Allowed(i + 1) <= Allowed(i) + 1
  BY <1>0, AllowedStep DEF TypeOK
<1>4. iter' > Allowed(i) /\ iter' >= Allowed(i + 1) /\ i' = i
  BY <1>0, <1>3 DEF Turn, TypeOK, DecomposeInv, TurnsCounted
<1>5. TurnsCounted'
  <2>1. Allowed(i)' = Allowed(i) /\ Allowed(i + 1)' = Allowed(i + 1) /\ Lim(i)' = Lim(i)
    BY <1>4 DEF Allowed, Lim
  <2>2. pc' \in {"turn", "check"} /\ lim' = lim /\ lim = Lim(i) /\ i < MaxRounds
    BY DEF Turn, DecomposeInv, TurnsCounted
  <2>3. j' > 0
    BY <1>0 DEF Turn, DecomposeInv, TurnsCounted, TypeOK
  <2>4. MaxRounds' = MaxRounds /\ iter' >= Allowed(i)
    BY <1>2, <1>3, <1>4 DEF MaxRounds, TypeOK
  <2> HIDE DEF Allowed, Lim, MaxRounds
  <2> QED
    BY <1>4, <2>1, <2>2, <2>3, <2>4 DEF TurnsCounted
<1>6. GcdFound'
  BY <1>0, <1>1 DEF Turn, TypeOK, GcdFound
<1>7. pc' \in {"turn", "check"} /\ i' = i
  BY DEF Turn
<1> QED
  BY <1>2, <1>5, <1>6, <1>7
  DEF DecomposeInv, RoundsBounded, MaxRounds, SearchOver, AnswerRight

(* The inner loop ends without a turn only where lim allows none. *)
LEMMA LastTurnKeeps == ASSUME DecomposeInv, LastTurn PROVE DecomposeInv'
<1>0. TypeOK
  BY DEF DecomposeInv
<1>1. /\ Allowed(i) \in Int /\ Allowed(i + 1) \in Int /\ Lim(i) \in Nat
      /\ Allowed(i + 1) = Allowed(i) + IF Lim(i) > 1 THEN 1 ELSE 0
  BY <1>0, AllowedStep, LimAllows DEF TypeOK
<1>2. iter >= Allowed(i + 1)
  BY <1>0, <1>1 DEF LastTurn, DecomposeInv, TurnsCounted, TypeOK
<1>3. i' = i /\ iter' = iter /\ pc' = "check"
  BY DEF LastTurn
<1>4. TurnsCounted'
  <2>1. Allowed(i)' = Allowed(i) /\ Allowed(i + 1)' = Allowed(i + 1)
    BY <1>3 DEF Allowed
  <2>2. MaxRounds' = MaxRounds /\ i < MaxRounds /\ iter >= Allowed(i)
    BY DEF MaxRounds, LastTurn, DecomposeInv, TurnsCounted
  <2> QED
    BY <1>2, <1>3, <2>1, <2>2 DEF TurnsCounted
<1> QED
  BY <1>0, <1>3, <1>4
  DEF LastTurn, DecomposeInv, TypeOK, RoundsBounded, MaxRounds, GcdFound, SearchOver,
      AnswerRight

(* A factor ends the search, anything else the round. *)
LEMMA CheckKeeps == ASSUME DecomposeInv, Check PROVE DecomposeInv'
<1>0. TypeOK /\ pc = "check" /\ i \in Nat /\ iter \in Nat
  BY DEF DecomposeInv, Check, TypeOK
<1>1. iter >= Allowed(i) /\ iter >= Allowed(i + 1) /\ i < MaxRounds
  BY <1>0 DEF DecomposeInv, TurnsCounted
<1>2. MaxRounds \in Int
  <2>1. IntBits - 2 \in Nat \ {0} /\ IterMax \in Nat
    BY DecomposeAssumption
  <2>2. IterMax \div (IntBits - 2) \in Nat
    BY <2>1, Remainder
  <2> QED
    BY <2>2, DecomposeAssumption DEF MaxRounds
<1>3. CASE Found /\ pc' = "out" /\ i' = i
  <2>1. TurnsCounted'
    <3>1. Allowed(i)' = Allowed(i)
      BY <1>3 DEF Allowed
    <3> QED
      BY <1>1, <1>3, <3>1 DEF Check, TurnsCounted
  <2> QED
    BY <1>0, <1>3, <2>1
    DEF Check, Found, DecomposeInv, TypeOK, RoundsBounded, MaxRounds, GcdFound,
        SearchOver, AnswerRight
<1>4. CASE pc' = "round" /\ i' = i + 1
  <2>1. TurnsCounted'
    <3>1. Allowed(i)' = Allowed(i + 1)
      BY <1>4 DEF Allowed
    <3> QED
      BY <1>1, <1>4, <3>1 DEF Check, TurnsCounted
  <2>2. RoundsBounded'
    BY <1>0, <1>1, <1>2, <1>4 DEF RoundsBounded, MaxRounds
  <2> QED
    BY <1>0, <1>4, <2>1, <2>2
    DEF Check, DecomposeInv, TypeOK, GcdFound, SearchOver, AnswerRight
<1> QED
  BY <1>3, <1>4 DEF Check

(* g and pq / g, in order, multiply to pq. *)
LEMMA AnswerKeeps == ASSUME DecomposeInv, Answer PROVE DecomposeInv'
<1> DEFINE m == pq \div g
<1>0. /\ TypeOK /\ pq \in Inputs /\ pq \in Nat \ {0, 1} /\ pc = "out"
      /\ 2 * pq <= 2 ^ Bits /\ 2 ^ Bits \in Nat \ {0}
  BY DecomposeAssumption, PowersOfTwo DEF DecomposeInv, TypeOK, Answer
<1>1. g \in Nat \ {0} /\ g <= pq /\ pq % g = 0
  BY <1>0 DEF DecomposeInv, TypeOK, GcdFound, AnswerRight
<1>2. m \in Nat /\ pq = g * m
  <2>1. pq = g * (pq \div g) + (pq % g) /\ pq \div g \in Nat
    BY <1>0, <1>1, Remainder
  <2>2. g * (pq \div g) \in Nat
    BY <1>1, <2>1
  <2> QED
    BY <1>1, <2>1, <2>2
<1>3. /\ p' = IF g > m THEN m ELSE g
      /\ q0' = IF g > m THEN g ELSE m
      /\ ret' = IF Uint(p' * q0') = pq THEN 0 ELSE -1
      /\ pc' = "done" /\ UNCHANGED <<pq, i, iter, lim, j, q, x, y, g>>
  BY DEF Answer
<1> HIDE DEF m
<1>4. m # 0 /\ m <= pq
  <2>1. m # 0
    BY <1>0, <1>1, <1>2
  <2>2. Divides(m, pq)
    BY <1>1, <1>2 DEF Divides
  <2> QED
    BY <1>0, <1>2, <2>1, <2>2, DivisorFits
<1>5. /\ p' \in 1 .. pq /\ q0' \in 1 .. pq /\ p' <= q0'
      /\ p' * q0' = pq
  <2>1. m * g = pq
    BY <1>1, <1>2
  <2>2. p' * q0' = pq
    BY <1>2, <1>3, <2>1
  <2>3. p' \in 1 .. pq /\ q0' \in 1 .. pq /\ p' <= q0'
    BY <1>0, <1>1, <1>2, <1>3, <1>4
  <2> QED
    BY <2>2, <2>3
<1>6. ret' = 0
  <2> DEFINE w == 2 ^ Bits
  <2>1. pq \in 0 .. w - 1 /\ pq = 0 * w + pq /\ w \in Nat \ {0}
    BY <1>0
  <2>2. pq % w = pq
    BY <1>0, <2>1, DivisionUnique
  <2> QED
    BY <1>3, <1>5, <2>2 DEF Uint
<1>7. p' > 1 \/ (i >= MinRounds /\ iter >= IterMax)
  <2>1. CASE Found
    <3>1. m # 1
      BY <1>0, <1>1, <1>2, <2>1 DEF Found
    <3> QED
      BY <1>1, <1>2, <1>3, <1>4, <2>1, <3>1 DEF Found
  <2> QED
    BY <1>0, <2>1 DEF DecomposeInv, SearchOver
<1>8. AnswerRight'
  BY <1>3, <1>5, <1>6, <1>7 DEF AnswerRight
<1>9. TypeOK'
  BY <1>0, <1>3, <1>5, <1>6 DEF TypeOK
<1>10. TurnsCounted'
  BY <1>0, <1>3 DEF DecomposeInv, TurnsCounted, Allowed
<1> QED
  BY <1>0, <1>3, <1>8, <1>9, <1>10
  DEF DecomposeInv, RoundsBounded, MaxRounds, GcdFound, SearchOver, Found

(* decompose_64bit keeps DecomposeInv for every number and whatever its    *)
(* random numbers are; in particular its rounds are bounded.               *)
THEOREM DecomposeInvariant == Spec => []DecomposeInv
<1>1. Init => DecomposeInv
  BY DecomposeInit
<1>2. DecomposeInv /\ [Next]_vars => DecomposeInv'
  <2>1. CASE UNCHANGED vars
    BY <2>1
    DEF vars, DecomposeInv, TypeOK, RoundsBounded, MaxRounds, TurnsCounted, Allowed,
        Lim, GcdFound, SearchOver, Found, AnswerRight
  <2> QED
    BY <2>1, RoundKeeps, GiveUpKeeps, TurnKeeps, LastTurnKeeps, CheckKeeps, AnswerKeeps
    DEF Next
<1> QED
  BY <1>1, <1>2, PTL DEF Spec

(* math_test gets two factors of its number, in order, and the trivial     *)
(* ones only when the search has used its rounds and turns up.             *)
THEOREM AnswersRight == Spec => []AnswerRight
<1>1. DecomposeInv => AnswerRight
  BY DEF DecomposeInv
<1> QED
  BY <1>1, DecomposeInvariant, PTL

(* The loop of additions in decompose_64bit squares modulo pq, for every   *)
(* number that leaves one bit of the word free.                            *)
THEOREM SquaresRight == Spec => SquaresModPq
<1>1. DecomposeInv /\ [Next]_vars => [x' # x /\ pc = "turn" => x' = (x * x + q) % pq]_vars
  <2> SUFFICES ASSUME DecomposeInv, Next, x' # x, pc = "turn"
               PROVE  x' = (x * x + q) % pq
    BY DEF vars
  <2>1. Turn
    BY DEF Next, Round, GiveUp, LastTurn, Check, Answer
  <2> QED
    BY <2>1, TurnFinds DEF DecomposeInv
<1> QED
  BY <1>1, DecomposeInvariant, PTL DEF Spec, SquaresModPq

=============================================================================
