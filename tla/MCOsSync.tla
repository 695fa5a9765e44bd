----------------------------- MODULE MCOsSync -----------------------------
(* Instances of OsSync for TLC.                                            *)
EXTENDS OsSyncRefines, TLC

(* For ever, no wait, a short time, and a time whose conversion to         *)
(* microseconds wraps to 0 in an int of 8 bits.                            *)
EdgeTimeouts == {-1, 0, 1, 32}

(* Threads are interchangeable, and so are objects of a kind. *)
Symmetry ==
  Permutations(Threads) \cup Permutations(Sems) \cup Permutations(Mutexes)

=============================================================================
