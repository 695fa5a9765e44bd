----------------------------- MODULE Decompose -----------------------------
(***************************************************************************)
(* The factorization of src/src/math.c: decompose_64bit, Pollard's rho     *)
(* method with Brent's cycle finding, and math_test, which checks its      *)
(* answer.  One action per turn of the loops; the square modulo pq, a loop *)
(* of additions, and gcd are recursive functions.  Random numbers are      *)
(* chosen freely.                                                          *)
(*                                                                         *)
(* Integers keep their widths: uint64_t is modulo 2^Bits and the int lim   *)
(* is a shift that overflows.  On this target (Arm) a register shift takes *)
(* the low byte of the distance and yields 0 for 32 and more.              *)
(***************************************************************************)
EXTENDS Integers

CONSTANTS
  Inputs,      \* values of pq
  Bits,        \* 64: width of uint64_t
  IntBits,     \* 32: width of int
  ShiftMod,    \* 256: distances of a shift are taken modulo this
  BaseShift,   \* 18: log2 of the turns of the first round
  MinRounds,   \* 3
  IterMax,     \* 1000
  RandMask,    \* 15
  RandBase     \* 17

(* Sums of two residues stay below 2^Bits, as they do for the number       *)
(* math_test factorizes.  The second part is arithmetic that proofs need.  *)
ASSUME DecomposeAssumption ==
  /\ Inputs \subseteq Nat \ {0, 1} /\ \A n \in Inputs : 2 * n <= 2 ^ Bits
  /\ Bits \in Nat /\ IntBits \in Nat /\ ShiftMod \in Nat /\ ShiftMod >= IntBits
  /\ BaseShift \in 1 .. IntBits - 2
  /\ MinRounds \in Nat /\ IterMax \in Nat \ {0} /\ RandMask \in Nat /\ RandBase \in Nat

ASSUME PowersOfTwo ==
  /\ 2 ^ Bits \in Nat \ {0}
  /\ \A n \in 1 .. IntBits : 2 ^ n \in Nat \ {0, 1}

VARIABLES
  pc,            \* "round", "turn", "check", "out", "done"
  pq,
  i, iter, lim, j,
  q, x, y, g,
  p, q0,         \* *p and *q0
  ret            \* what math_test returns

vars == <<pc, pq, i, iter, lim, j, q, x, y, g, p, q0, ret>>

-----------------------------------------------------------------------------
Uint(n) == n % (2 ^ Bits)

(* Recursive functions take the argument that falls first. *)
Euclid[b \in Nat] == [a \in Nat |-> IF b # 0 THEN Euclid[a % b][b] ELSE a]
gcd(a, b) == Euclid[b][a]

(* if (n >= pq) n -= pq.  Mutant: > for >=. *)
ReduceLate(n) == IF n > pq THEN n - pq ELSE n
Reduce(n) == IF n >= pq THEN n - pq ELSE n

(* The loop that leaves a * b + c modulo pq in c. *)
Additions[b \in Nat] == [a \in Nat |-> [c \in Nat |->
  IF b = 0 THEN c
  ELSE Additions[b \div 2][Reduce(Uint(a + a))]
                [IF b % 2 = 1 THEN Reduce(Uint(c + a)) ELSE c]]]
MulAdd(a, b, c) == Additions[b][a][c]

Difference(u, v) == IF u < v THEN pq + u - v ELSE u - v

(* j & (j - 1) is 0. *)
PowerOfTwo(n) == \E k \in 0 .. IntBits : n = 2 ^ k

(* lim = 1 << (i + 18), read as the number of turns: distance 31 gives a   *)
(* negative lim and a distance from 32 on 0, no turn either way.           *)
Lim(n) == LET d == (n + BaseShift) % ShiftMod
          IN IF d < IntBits - 1 THEN 2 ^ d ELSE 0

-----------------------------------------------------------------------------
Init ==
  /\ pc = "round" /\ pq \in Inputs
  /\ i = 0 /\ iter = 0 /\ lim = 0 /\ j = 0
  /\ q = 0 /\ x = 0 /\ y = 0 /\ g = 0
  /\ p = 0 /\ q0 = 0 /\ ret = 0

(* Head of the outer loop, q, x and y drawn anew. *)
Round ==
  /\ pc = "round" /\ (i < MinRounds \/ iter < IterMax)
  /\ \E r \in 0 .. RandMask : q' = (r + RandBase) % pq
  /\ x' \in 1 .. pq - 1 /\ y' = x'
  /\ lim' = Lim(i) /\ j' = 1
  /\ pc' = "turn"
  /\ UNCHANGED <<pq, i, iter, g, p, q0, ret>>

GiveUp ==
  /\ pc = "round" /\ ~(i < MinRounds \/ iter < IterMax)
  /\ pc' = "out"
  /\ UNCHANGED <<pq, i, iter, lim, j, q, x, y, g, p, q0, ret>>

(* A turn of the inner loop.  Mutant: iter is not counted.                 *)
TurnUncounted ==
  /\ pc = "turn" /\ j < lim
  /\ x' = MulAdd(x, x, q)
  /\ g' = gcd(Difference(x', y), pq)
  /\ IF g' # 1
       THEN pc' = "check" /\ UNCHANGED <<j, y>>
       ELSE /\ pc' = pc /\ j' = j + 1
            /\ y' = IF PowerOfTwo(j) THEN x' ELSE y
  /\ UNCHANGED <<iter, pq, i, lim, q, p, q0, ret>>

Turn ==
  /\ pc = "turn" /\ j < lim
  /\ iter' = iter + 1
  /\ x' = MulAdd(x, x, q)
  /\ g' = gcd(Difference(x', y), pq)
  /\ IF g' # 1
       THEN pc' = "check" /\ UNCHANGED <<j, y>>
       ELSE /\ pc' = pc /\ j' = j + 1
            /\ y' = IF PowerOfTwo(j) THEN x' ELSE y
  /\ UNCHANGED <<pq, i, lim, q, p, q0, ret>>

LastTurn ==
  /\ pc = "turn" /\ ~(j < lim)
  /\ pc' = "check"
  /\ UNCHANGED <<pq, i, iter, lim, j, q, x, y, g, p, q0, ret>>

(* Mutant: a round that only found pq itself ends the search. *)
FoundAny == g > 1
Found == g > 1 /\ g < pq

Check ==
  /\ pc = "check"
  /\ \/ Found /\ pc' = "out" /\ i' = i
     \/ ~Found /\ pc' = "round" /\ i' = i + 1
  /\ UNCHANGED <<pq, iter, lim, j, q, x, y, g, p, q0, ret>>

(* The end of decompose_64bit, with the smaller factor first, and the      *)
(* comparison in math_test.                                                *)
Answer ==
  /\ pc = "out" /\ pc' = "done"
  /\ p' = IF g > pq \div g THEN pq \div g ELSE g
  /\ q0' = IF g > pq \div g THEN g ELSE pq \div g
  /\ ret' = IF Uint(p' * q0') = pq THEN 0 ELSE -1
  /\ UNCHANGED <<pq, i, iter, lim, j, q, x, y, g>>

Next == Round \/ GiveUp \/ Turn \/ LastTurn \/ Check \/ Answer

Spec == Init /\ [][Next]_vars

-----------------------------------------------------------------------------
(* Properties *)

TypeOK ==
  /\ pc \in {"round", "turn", "check", "out", "done"} /\ pq \in Inputs
  /\ i \in Nat /\ iter \in Nat /\ lim \in Nat /\ j \in Nat
  /\ {q, x, y} \subseteq 0 .. pq - 1 /\ g \in 0 .. pq
  /\ {p, q0} \subseteq 0 .. pq /\ ret \in {0, -1}

(* The loop of additions in decompose_64bit computes the square plus q     *)
(* modulo pq, although it never multiplies and works in 64 bits.           *)
SquaresModPq == [][x' # x /\ pc = "turn" => x' = (x * x + q) % pq]_vars

(* decompose_64bit always ends with two factors of pq in order, and with   *)
(* the trivial ones only after its MinRounds rounds and IterMax turns; the *)
(* division by g is never one by 0.                                        *)
AnswerRight ==
  /\ pc = "out" => g # 0
  /\ pc = "done" =>
       /\ p * q0 = pq /\ p <= q0 /\ ret = 0
       /\ p > 1 \/ (i >= MinRounds /\ iter >= IterMax)

(* decompose_64bit ends, for prime pq too: among ShiftMod rounds in a row  *)
(* at least IntBits - 2 have a lim that allows a turn, overflow of the     *)
(* shift or not, so the turns run out before this number of rounds.        *)
MaxRounds == MinRounds + ShiftMod * (1 + IterMax \div (IntBits - 2))
RoundsBounded == i <= MaxRounds

(* How many of the rounds before the n-th have a lim that allows a turn. *)
Allowed(n) ==
  LET t == n + BaseShift
      r == t % ShiftMod
  IN  (t \div ShiftMod) * (IntBits - 2) - (BaseShift - 1)
        + IF r = 0 THEN 0 ELSE IF r < IntBits THEN r - 1 ELSE IntBits - 2

(* Parts of the inductive invariant: each of those rounds has had a turn,  *)
TurnsCounted ==
  /\ iter >= Allowed(i)
  /\ pc = "turn" => lim = Lim(i) /\ j > 0 /\ (j > 1 => iter > Allowed(i))
  /\ pc = "check" => iter >= Allowed(i + 1)
  /\ pc \in {"turn", "check"} => i < MaxRounds

(* from the first turn on g divides pq,                                    *)
GcdFound == IF iter = 0 THEN g = 0 ELSE g > 0 /\ pq % g = 0

(* and the search ends with a factor or when its turns are used up.        *)
SearchOver ==
  pc \in {"out", "done"} => Found \/ (i >= MinRounds /\ iter >= IterMax)

(* The inductive invariant behind the theorems of DecomposeProofs: the     *)
(* variables of decompose_64bit keep their ranges, its rounds their bound, *)
(* and its answer follows from what is known on the way.                   *)
DecomposeInv ==
  /\ TypeOK /\ RoundsBounded /\ TurnsCounted /\ GcdFound /\ SearchOver
  /\ AnswerRight

=============================================================================
