------------------------------ MODULE NtpTime ------------------------------
(***************************************************************************)
(* What ntp_main (src/src/ntp.c) makes of the server's answer: the         *)
(* transmit time stamp in network byte order, swapped, moved from the NTP  *)
(* epoch to the Unix epoch in 32 bits, and printed as an int.  The answer  *)
(* is received over the query, whose bytes are all 0 from xmt_sec on, and  *)
(* is not asked for its length beyond being positive.                      *)
(*                                                                         *)
(* The sockets around it are in LteApp.  The base of the digits and the    *)
(* epoch are scaled down for TLC: they are constants.                      *)
(***************************************************************************)
EXTENDS Integers, Sequences

CONSTANTS
  Base,      \* 256: the values of a byte
  Epoch,     \* 2208988800: seconds from 1900 to 1970
  Times,     \* the server's times, in seconds since 1970
  None

Octets == 4
Word   == Base * Base * Base * Base

NtpAssumption ==
  /\ Base \in Nat \ {0} /\ Word % 2 = 0
  /\ Epoch \in 0 .. Word - 1 /\ Times \subseteq Nat

VARIABLES
  ntpAt,      \* "query", "wait", "print" or "done"
  now,        \* the server's time
  xmt,        \* the bytes of ntp.xmt_sec
  filled,     \* how many of them the answer brought
  unixtime,
  printed     \* the number print_time shows, None if it shows nothing

ntpVars == <<ntpAt, now, xmt, filled, unixtime, printed>>

-----------------------------------------------------------------------------
(* The bytes of a word, the least significant one first. *)
LittleEndian(n) ==
  LET q1 == n \div Base
      q2 == q1 \div Base
      q3 == q2 \div Base
  IN  <<n % Base, q1 % Base, q2 % Base, q3 % Base>>

Swapped(b)   == <<b[4], b[3], b[2], b[1]>>
BigEndian(n) == Swapped(LittleEndian(n))

(* The word this little-endian target loads from these bytes. *)
Load(b) == Base * (Base * (Base * b[4] + b[3]) + b[2]) + b[1]

Zeros == <<0, 0, 0, 0>>

htobe32(n) == Load(Swapped(LittleEndian(n)))

(* NTP_TO_UNIX subtracts in 64 bits; its result is stored in 32.  Mutant:  *)
(* the time stamp is not swapped.                                          *)
ntp_to_unixtime_unswapped(bytes) == (Load(bytes) - Epoch) % Word
ntp_to_unixtime(bytes) == (htobe32(Load(bytes)) - Epoch) % Word

(* The %d of print_time. *)
Signed(n) == IF n < Word \div 2 THEN n ELSE n - Word

-----------------------------------------------------------------------------
Init ==
  /\ ntpAt = "query" /\ now \in Times
  /\ xmt \in [1 .. Octets -> {0, Base - 1}]   \* what the stack held
  /\ filled = 0 /\ unixtime = 0 /\ printed = None

(* memset and nrf_send. *)
Query ==
  /\ ntpAt = "query" /\ ntpAt' = "wait"
  /\ xmt' = Zeros
  /\ UNCHANGED <<now, filled, unixtime, printed>>

(* nrf_recvfrom brings the message, or only its beginning ... *)
Receive(n) ==
  /\ ntpAt = "wait" /\ ntpAt' = "print"
  /\ filled' = n
  /\ xmt' = [k \in 1 .. Octets |->
               IF k <= n THEN BigEndian((now + Epoch) % Word)[k] ELSE xmt[k]]
  /\ UNCHANGED <<now, unixtime, printed>>

(* ... or fails, or nrf_send did. *)
NoAnswer ==
  /\ ntpAt \in {"query", "wait"} /\ ntpAt' = "done"
  /\ UNCHANGED <<now, xmt, filled, unixtime, printed>>

(* gmtime_r may refuse; the result of print_time is not looked at. *)
print_time(ok) ==
  /\ ntpAt = "print" /\ ntpAt' = "done"
  /\ unixtime' = ntp_to_unixtime(xmt)
  /\ printed' = IF ok THEN Signed(unixtime') ELSE None
  /\ UNCHANGED <<now, xmt, filled>>

Next ==
  \/ Query
  \/ \E n \in 0 .. Octets : Receive(n)
  \/ NoAnswer
  \/ \E ok \in BOOLEAN : print_time(ok)

Spec == Init /\ [][Next]_ntpVars

-----------------------------------------------------------------------------
(* Properties *)

TypeOK ==
  /\ ntpAt \in {"query", "wait", "print", "done"} /\ now \in Times
  /\ xmt \in [1 .. Octets -> 0 .. Base - 1] /\ filled \in 0 .. Octets
  /\ unixtime \in 0 .. Word - 1
  /\ printed \in (-(Word \div 2) .. Word \div 2 - 1) \cup {None}

(* The time ntp_main prints is the server's, also when the NTP seconds     *)
(* have started again from 0 (February 2036), unless the %d of print_time  *)
(* turns it negative (January 2038).  An answer that ends before the time  *)
(* stamp, whose length nothing checks, always prints the NTP epoch: the    *)
(* query was zeroed, and nothing of the stack comes out.                   *)
TimeExplained ==
  printed # None =>
    /\ filled = Octets =>
         unixtime = now % Word /\ (now < Word \div 2 => printed = now)
    /\ filled = 0 => unixtime = (-Epoch) % Word

(* What holds at every step of ntp_main; inductive.  The query is zeroed   *)
(* before the answer is received over it, and a whole time stamp is the    *)
(* server's.                                                               *)
NtpInv ==
  /\ TypeOK /\ TimeExplained
  /\ ntpAt # "done" => printed = None
  /\ ntpAt \in {"query", "wait"} => filled = 0
  /\ ntpAt = "wait" => xmt = Zeros
  /\ ntpAt = "print" =>
       /\ filled = 0 => xmt = Zeros
       /\ filled = Octets => xmt = BigEndian((now + Epoch) % Word)

=============================================================================
