----------------------------- MODULE HttpClient -----------------------------
(***************************************************************************)
(* The download of src/src/http.c: httpc_main, which notes the time and    *)
(* calls httpc_get; the callbacks httpc_write and httpc_read, which hand   *)
(* bytes from the httpc library to the modem and back; and httpc_dump_cb,  *)
(* which prints the speed.  The opening of connections is in LteApp.       *)
(*                                                                         *)
(* httpc is external: it sends its request in pieces, takes a result of 0  *)
(* for success and the length as it left it for the number of bytes, reads *)
(* until it gets none, and calls httpc_dump_cb after every read with a     *)
(* position that counts all the bytes httpc_read has delivered, those of   *)
(* the header included.  The library is not in the repository: this is an  *)
(* assumption, and SpeedRight depends on it.                               *)
(***************************************************************************)
EXTENDS Integers

CONSTANTS
  Request,     \* length of the request
  File,        \* length of the answer: the header and a file of 128 MB
  Chunk,       \* size of httpc's buffer
  UsPerSec,    \* 1000000
  PerKilo,     \* 1000
  UintMod,     \* 2^32
  MaxTime      \* bound: uptime at which the model ends

(* What httpc_dump_cb counts in 32 bits fits: the bits of the answer and   *)
(* the seconds of uptime, which is itself kept in 64 bits.                 *)
HttpAssumption ==
  /\ {Request, File, MaxTime} \subseteq Nat
  /\ {Chunk, UsPerSec, PerKilo, UintMod} \subseteq Nat \ {0}
  /\ File * 8 < UintMod /\ MaxTime \div UsPerSec < UintMod

VARIABLES
  httpAt,        \* "main", "write", "read", "dump", "done" or "fault"
  uptime,        \* mdx_uptime
  time_started,
  asked,         \* bytes httpc believes to be sent
  sent,          \* bytes the modem has taken
  short,         \* history: nrf_send took less than it was given
  got,           \* bytes nrf_recv has delivered
  position,      \* what httpc counts of them
  speed,         \* the last speed printed, -1 before
  began          \* history: uptime when httpc_main was called

reqVars  == <<asked, sent, short>>
fileVars == <<got, position>>
httpVars == <<httpAt, uptime, time_started, reqVars, fileVars, speed, began>>

-----------------------------------------------------------------------------
Tick ==
  /\ uptime < MaxTime
  /\ uptime' = uptime + 1
  /\ UNCHANGED <<httpAt, time_started, reqVars, fileVars, speed, began>>

(* Mutant: the start is not noted.                                         *)
httpc_main_unnoted ==
  /\ httpAt = "main" /\ httpAt' = "write"
  /\ time_started' = time_started /\ began' = uptime
  /\ UNCHANGED <<uptime, reqVars, fileVars, speed>>
httpc_main ==
  /\ httpAt = "main" /\ httpAt' = "write"
  /\ time_started' = uptime \div UsPerSec
  /\ began' = uptime
  /\ UNCHANGED <<uptime, reqVars, fileVars, speed>>

(* The result of httpc_write, n being that of nrf_send.  Mutant: errors    *)
(* are lost.                                                               *)
WriteResultLost(n) == 0
WriteResult(n) == IF n > 0 THEN 0 ELSE n

(* nrf_send takes n of length bytes, or fails; *length stays as it was. *)
httpc_write(length, n) ==
  /\ httpAt = "write" /\ asked + length <= Request
  /\ sent' = IF n > 0 THEN sent + n ELSE sent
  /\ short' = (short \/ n \in 0 .. length - 1)
  /\ IF WriteResult(n) = 0
       THEN /\ asked' = asked + length
            /\ httpAt' = IF asked' = Request THEN "read" ELSE "write"
       ELSE asked' = asked /\ httpAt' = "done"
  /\ UNCHANGED <<uptime, time_started, fileVars, speed, began>>

(* What *length is after httpc_read.  Mutant: it stays the size of the     *)
(* buffer.                                                                 *)
ReadLengthKept(n) == Chunk
ReadLength(n) == n

(* nrf_recv delivers n bytes, or fails. *)
httpc_read(n) ==
  /\ httpAt = "read"
  /\ IF n >= 0
       THEN /\ got' = got + n
            /\ position' = position + ReadLength(n)
            /\ httpAt' = IF ReadLength(n) = 0 THEN "done" ELSE "dump"
       ELSE httpAt' = "done" /\ UNCHANGED fileVars
  /\ UNCHANGED <<uptime, time_started, reqVars, speed, began>>

(* httpc_dump_cb.  In the second the download started in, the division is  *)
(* one by 0: this core yields 0 or, where the trap is enabled, faults.     *)
delta == ((uptime \div UsPerSec) - time_started) % UintMod

kbit == ((position * 8) % UintMod) \div PerKilo

httpc_dump_cb ==
  /\ httpAt = "dump"
  /\ \/ delta # 0 /\ speed' = kbit \div delta /\ httpAt' = "read"
     \/ delta = 0 /\ speed' = 0 /\ httpAt' = "read"
     \/ delta = 0 /\ speed' = speed /\ httpAt' = "fault"
  /\ UNCHANGED <<uptime, time_started, reqVars, fileVars, began>>

-----------------------------------------------------------------------------
Init ==
  /\ httpAt = "main" /\ uptime \in 0 .. MaxTime /\ time_started = 0
  /\ asked = 0 /\ sent = 0 /\ short = FALSE
  /\ got = 0 /\ position = 0 /\ speed = -1 /\ began = 0

Next ==
  \/ Tick
  \/ httpc_main
  \/ \E length \in 1 .. Request : \E n \in -1 .. length : httpc_write(length, n)
  \/ \E n \in -1 .. Chunk : got + n <= File /\ httpc_read(n)
  \/ httpc_dump_cb

Spec == Init /\ [][Next]_httpVars

-----------------------------------------------------------------------------
(* Properties *)

TypeOK ==
  /\ httpAt \in {"main", "write", "read", "dump", "done", "fault"}
  /\ {uptime, began} \subseteq 0 .. MaxTime /\ time_started \in 0 .. MaxTime
  /\ {asked, sent} \subseteq 0 .. Request /\ short \in BOOLEAN
  /\ {got, position} \subseteq 0 .. File /\ speed \in -1 .. UintMod - 1

(* httpc reads an answer only to a request that the modem has taken whole, *)
(* except for what httpc_write hides from it: a send that took only a part *)
(* is reported as a whole one, and so is one that took nothing.            *)
RequestExplained ==
  httpAt \in {"read", "dump"} =>
    asked = Request /\ (sent < Request <=> short)

(* The speed httpc_dump_cb prints is the number of whole kilobits received *)
(* per whole second since httpc_main started, without overflow and however *)
(* the answer was cut into reads, provided httpc counts as assumed above;  *)
(* it divides by 0 in the second of the start and in no other.             *)
Seconds == uptime \div UsPerSec - began \div UsPerSec
SpeedRight ==
  httpAt = "dump" => delta = Seconds /\ kbit = (8 * got) \div PerKilo

(* The inductive invariant behind the theorems about http.c: what the      *)
(* modem has taken lags behind what httpc believes exactly if a send was   *)
(* short, the start is noted and lies in the past, and no byte that was    *)
(* read is counted twice.                                                  *)
HttpInv ==
  /\ TypeOK
  /\ sent <= asked /\ (sent < asked <=> short)
  /\ httpAt \in {"read", "dump"} => asked = Request
  /\ time_started = began \div UsPerSec /\ began <= uptime
  /\ position = got

=============================================================================
