--------------------------- MODULE MCModemOsWait ---------------------------
(* Instances of ModemOsWait for TLC.                                       *)
EXTENDS ModemOsWaitRefines, TLC

(* Timeouts: endless and a short one; with a poll and one whose conversion *)
(* to microseconds wraps to 0 (32 * 8 in an int of 8 bits, like 2^29 ms    *)
(* times 1000 in one of 32 bits).                                          *)
ShortTimeouts == {-1, 1}
EdgeTimeouts  == {-1, 0, 1, 32}

Symmetry == Permutations(Threads)

=============================================================================
