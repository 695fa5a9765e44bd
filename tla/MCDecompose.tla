---------------------------- MODULE MCDecompose ----------------------------
(* Instances of Decompose for TLC.                                         *)
EXTENDS Decompose

(* Squares, a product of two primes, and a prime; 16 is half of 2^Bits. *)
SmallInputs == {9, 13, 15, 16}

=============================================================================
