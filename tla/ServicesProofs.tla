--------------------------- MODULE ServicesProofs ---------------------------
(***************************************************************************)
(* Theorems about NtpTime, HttpClient, Gnss and ShmZone, for any sizes,    *)
(* counts, times and callers.  Each has an inductive invariant of its own  *)
(* (NtpInv, HttpInv, GnssInv, ZoneInv); the run of MCServices is their     *)
(* specifications side by side.                                            *)
(***************************************************************************)
EXTENDS MCServices, FiniteSetTheorems, TLAPS

-----------------------------------------------------------------------------
(* The services share no state: what is proved of each alone holds of the  *)
(* run.                                                                    *)
LEMMA SideBySide == Spec => Ntp!Spec /\ Http!Spec /\ Gps!Spec /\ Shm!Spec
<1>1. Init => Ntp!Init /\ Http!Init /\ Gps!Init /\ Shm!Init
  BY DEF Init
<1>2. [Next]_vars => /\ [Ntp!Next]_(Ntp!ntpVars) /\ [Http!Next]_(Http!httpVars)
                     /\ [Gps!Next]_(Gps!gnssVars) /\ [Shm!Next]_(Shm!shmVars)
  BY DEF Next, NtpStep, HttpStep, GnssStep, ShmStep, vars, ntp, http, gnss, shm,
         Ntp!ntpVars, Http!httpVars, Http!reqVars, Http!fileVars, Gps!gnssVars, Shm!shmVars
<1> QED
  BY <1>1, <1>2, PTL DEF Spec, Ntp!Spec, Http!Spec, Gps!Spec, Shm!Spec

-----------------------------------------------------------------------------
(* Quotients of natural numbers: they are no larger than what is divided,  *)
(* and keep the order.                                                     *)
LEMMA Quotient ==
  ASSUME NEW a \in Nat, NEW u \in Nat \ {0}
  PROVE  a \div u \in 0 .. a
  OBVIOUS

(* A later time is in the same second or a later one. *)
LEMMA QuotientKeepsOrder ==
  ASSUME NEW a \in Nat, NEW b \in Nat, a <= b, NEW u \in Nat \ {0}
  PROVE  a \div u <= b \div u
  OBVIOUS

(* A number below the modulus is its own remainder. *)
LEMMA SmallRemainder ==
  ASSUME NEW m \in Nat \ {0}, NEW a \in 0 .. m - 1 PROVE a % m = a
  OBVIOUS

(* Quotient and remainder; what they are of is put together again. *)
LEMMA QuotientRemainder ==
  ASSUME NEW b \in Nat \ {0}, NEW n \in Int
  PROVE  /\ n \div b \in Int /\ n % b \in 0 .. b - 1
         /\ n = b * (n \div b) + (n % b)
  OBVIOUS

(* A multiple of a number is no smaller than it. *)
LEMMA Multiple ==
  ASSUME NEW b \in Nat \ {0}, NEW x \in Int, x >= 1 PROVE b * x >= b
  OBVIOUS

(* No other quotient and remainder put a number together. *)
LEMMA Unique ==
  ASSUME NEW b \in Nat \ {0}, NEW q \in Int, NEW d \in 0 .. b - 1,
         NEW n, n = b * q + d
  PROVE  n \div b = q /\ n % b = d
<1>1. n \in Int
  OBVIOUS
<1>2. PICK r \in Int, e \in 0 .. b - 1 : r = n \div b /\ e = n % b /\ n = b * r + e
  BY <1>1, QuotientRemainder
<1>3. b * (q - r) = e - d /\ b * (r - q) = d - e
  BY <1>2
<1>4. ~(q - r >= 1)
  <2> SUFFICES ASSUME q - r >= 1 PROVE FALSE
    OBVIOUS
  <2>1. b * (q - r) >= b
    BY Multiple
  <2> QED
    BY <1>3, <2>1
<1>5. ~(r - q >= 1)
  <2> SUFFICES ASSUME r - q >= 1 PROVE FALSE
    OBVIOUS
  <2>1. b * (r - q) >= b
    BY Multiple
  <2> QED
    BY <1>3, <2>1
<1>6. q = r
  BY <1>4, <1>5
<1>7. e = d
  BY <1>3, <1>6
<1> QED
  BY <1>2, <1>6, <1>7

(* The quotient of a number below b * t is below t. *)
LEMMA QuotientBelow ==
  ASSUME NEW b \in Nat \ {0}, NEW t \in Int, NEW n \in Nat, n < b * t
  PROVE  n \div b \in Nat /\ n \div b < t
<1>1. PICK q \in Int, d \in 0 .. b - 1 : q = n \div b /\ n = b * q + d
  BY QuotientRemainder
<1>2. q \in Nat
  BY <1>1
<1>3. ~(q >= t)
  <2> SUFFICES ASSUME q >= t PROVE FALSE
    OBVIOUS
  <2>1. b * (q - t) >= 0
    OBVIOUS
  <2>2. b * (q - t) = b * q - b * t
    OBVIOUS
  <2>3. b * q \in Int /\ b * t \in Int
    OBVIOUS
  <2> QED
    BY <1>1, <2>1, <2>2, <2>3
<1> QED
  BY <1>1, <1>2, <1>3

(* An offset added and taken away again modulo w is no offset. *)
LEMMA OffsetCancels ==
  ASSUME NEW w \in Nat \ {0}, NEW a \in Int, NEW e \in Int
  PROVE  (((a + e) % w) - e) % w = a % w
<1>0. PICK s \in Int : s = a + e
  OBVIOUS
<1>1. PICK q \in Int, d \in 0 .. w - 1 : d = s % w /\ s = w * q + d
  BY QuotientRemainder
<1>2. PICK r \in Int, c \in 0 .. w - 1 : c = a % w /\ a = w * r + c
  BY QuotientRemainder
<1>3. d - e = w * (r - q) + c
  <2>1. PICK x \in Int, y \in Int, z \in Int :
          x = w * r /\ y = w * q /\ z = w * (r - q) /\ z = x - y
    OBVIOUS
  <2>2. s = y + d /\ a = x + c /\ s = a + e
    BY <1>0, <1>1, <1>2, <2>1
  <2>3. d - e = z + c
    BY <2>1, <2>2
  <2> QED
    BY <2>1, <2>3
<1>4. r - q \in Int
  OBVIOUS
<1>5. (d - e) % w = c
  BY <1>3, <1>4, Unique, Zenon
<1> QED
  BY <1>0, <1>1, <1>2, <1>5, Zenon

-----------------------------------------------------------------------------
(* The time stamp of ntp.c *)

(* What the 4 bytes of a word hold ... *)
LEMMA BytesOf ==
  ASSUME NEW n \in Int
  PROVE  Ntp!LittleEndian(n) \in [1 .. 4 -> 0 .. Base - 1]
<1>0. Base \in Nat \ {0}
  BY ServicesAssumption DEF Ntp!NtpAssumption
<1>1. PICK q1 \in Int, q2 \in Int, q3 \in Int :
        q1 = n \div Base /\ q2 = q1 \div Base /\ q3 = q2 \div Base
  BY <1>0, QuotientRemainder
<1>2. /\ n % Base \in 0 .. Base - 1 /\ q1 % Base \in 0 .. Base - 1
      /\ q2 % Base \in 0 .. Base - 1 /\ q3 % Base \in 0 .. Base - 1
  BY <1>0, QuotientRemainder
<1>3. Ntp!LittleEndian(n) = <<n % Base, q1 % Base, q2 % Base, q3 % Base>>
  BY <1>1 DEF Ntp!LittleEndian
<1>4. PICK S : S = 0 .. Base - 1
  OBVIOUS
<1> QED
  BY <1>2, <1>3, <1>4

(* ... is loaded as the word it was taken from, ... *)
LEMMA LoadOfBytes ==
  ASSUME NEW n \in 0 .. Ntp!Word - 1
  PROVE  Ntp!Load(Ntp!LittleEndian(n)) = n
<1>0. Base \in Nat \ {0}
  BY ServicesAssumption DEF Ntp!NtpAssumption
<1>1. PICK b2 \in Nat, b3 \in Nat, b4 \in Nat :
        b2 = Base * Base /\ b3 = Base * b2 /\ b4 = Base * b3 /\ Ntp!Word = b4
  BY <1>0 DEF Ntp!Word
<1>2. n \in Nat /\ n < Base * b3
  BY <1>1
<1>3. PICK q1 \in Nat : q1 = n \div Base /\ q1 < Base * b2
  BY <1>0, <1>1, <1>2, QuotientBelow
<1>4. PICK q2 \in Nat : q2 = q1 \div Base /\ q2 < Base * Base
  BY <1>0, <1>1, <1>3, QuotientBelow
<1>5. PICK q3 \in Nat : q3 = q2 \div Base /\ q3 < Base
  BY <1>0, <1>4, QuotientBelow
<1>6. q3 % Base = q3
  BY <1>0, <1>5, SmallRemainder
<1>7. /\ n = Base * q1 + (n % Base)
      /\ q1 = Base * q2 + (q1 % Base)
      /\ q2 = Base * q3 + (q2 % Base)
  BY <1>0, <1>2, <1>3, <1>4, <1>5, QuotientRemainder
<1>8. PICK l : l = Ntp!LittleEndian(n)
  OBVIOUS
<1>9. l = <<n % Base, q1 % Base, q2 % Base, q3 % Base>>
  BY <1>3, <1>4, <1>5, <1>8 DEF Ntp!LittleEndian
<1>10. /\ l[1] = n % Base /\ l[2] = q1 % Base /\ l[3] = q2 % Base /\ l[4] = q3
  BY <1>6, <1>9
<1>11. Ntp!Load(l) = Base * (Base * (Base * q3 + (q2 % Base)) + (q1 % Base)) + (n % Base)
  BY <1>10, Zenon DEF Ntp!Load
<1> QED
  BY <1>7, <1>8, <1>11, Zenon

(* ... and of a loaded word they are the bytes it was loaded from. *)
LEMMA BytesOfLoad ==
  ASSUME NEW b \in [1 .. 4 -> 0 .. Base - 1]
  PROVE  /\ Ntp!Load(b) \in Int
         /\ Ntp!LittleEndian(Ntp!Load(b)) = <<b[1], b[2], b[3], b[4]>>
<1>0. Base \in Nat \ {0}
  BY ServicesAssumption DEF Ntp!NtpAssumption
<1>1. PICK d1, d2, d3, d4 \in 0 .. Base - 1 :
        d1 = b[1] /\ d2 = b[2] /\ d3 = b[3] /\ d4 = b[4]
  OBVIOUS
<1>2. PICK h3 \in Int, h2 \in Int, h1 \in Int :
        h3 = Base * d4 + d3 /\ h2 = Base * h3 + d2 /\ h1 = Base * h2 + d1
  BY <1>0
<1>3. Ntp!Load(b) = h1
  BY <1>1, <1>2, Zenon DEF Ntp!Load
<1>4. /\ h1 \div Base = h2 /\ h1 % Base = d1
      /\ h2 \div Base = h3 /\ h2 % Base = d2
  <2>1. h1 \div Base = h2 /\ h1 % Base = d1
    <3>1. h1 = Base * h2 + d1
      BY <1>2
    <3> QED
      BY <1>0, <3>1, Unique, Zenon
  <2>2. h2 \div Base = h3 /\ h2 % Base = d2
    BY <1>0, <1>2, Unique, Zenon
  <2> QED
    BY <2>1, <2>2
<1>5. d4 \in Int
  BY <1>0
<1>6. h3 \div Base = d4 /\ h3 % Base = d3
  BY <1>0, <1>2, <1>5, Unique, Zenon
<1>7. d4 % Base = d4
  BY <1>0, SmallRemainder, Zenon
<1>8. Ntp!LittleEndian(h1) = <<d1, d2, d3, d4>>
  BY <1>4, <1>6, <1>7, Zenon DEF Ntp!LittleEndian
<1> QED
  BY <1>1, <1>3, <1>8

(* So htobe32 takes the network byte order off: the word loaded from the   *)
(* server's bytes, swapped, is the server's number.                        *)
LEMMA SwapReads ==
  ASSUME NEW n \in 0 .. Ntp!Word - 1
  PROVE  /\ Ntp!BigEndian(n) \in [1 .. 4 -> 0 .. Base - 1]
         /\ Ntp!htobe32(Ntp!Load(Ntp!BigEndian(n))) = n
<1>0. n \in Int
  BY ServicesAssumption DEF Ntp!NtpAssumption, Ntp!Word
<1>1. PICK l \in [1 .. 4 -> 0 .. Base - 1] : l = Ntp!LittleEndian(n)
  BY <1>0, BytesOf
<1>2. PICK b : b = Ntp!BigEndian(n)
  OBVIOUS
<1>3. b = <<l[4], l[3], l[2], l[1]>>
  BY <1>1, <1>2 DEF Ntp!BigEndian, Ntp!Swapped
<1>4. b \in [1 .. 4 -> 0 .. Base - 1]
  <2>1. PICK S : S = 0 .. Base - 1
    OBVIOUS
  <2>2. /\ l[1] \in S /\ l[2] \in S /\ l[3] \in S /\ l[4] \in S
    BY <1>1, <2>1
  <2> QED
    BY <1>3, <2>1, <2>2
<1>5. PICK c : c = Ntp!LittleEndian(Ntp!Load(b))
  OBVIOUS
<1>6. c = <<b[1], b[2], b[3], b[4]>>
  BY <1>4, <1>5, BytesOfLoad
<1>7. /\ c[1] = l[4] /\ c[2] = l[3] /\ c[3] = l[2] /\ c[4] = l[1]
  BY <1>3, <1>6
<1>8. PICK e : e = Ntp!Swapped(c)
  OBVIOUS
<1>9. e[1] = l[1] /\ e[2] = l[2] /\ e[3] = l[3] /\ e[4] = l[4]
  BY <1>7, <1>8 DEF Ntp!Swapped
<1>10. Ntp!Load(e) = Ntp!Load(l)
  BY <1>9, Zenon DEF Ntp!Load
<1>11. Ntp!htobe32(Ntp!Load(b)) = Ntp!Load(e)
  BY <1>5, <1>8, Zenon DEF Ntp!htobe32
<1> QED
  BY <1>1, <1>2, <1>4, <1>10, <1>11, LoadOfBytes, Zenon

(* What the constants of ntp.c are, and the range of 32 bits. *)
LEMMA NtpNumbers ==
  /\ Base \in Nat \ {0} /\ Ntp!Word \in Nat \ {0} /\ Epoch \in 0 .. Ntp!Word - 1
  /\ Ntp!Word = 2 * (Ntp!Word \div 2) /\ Ntp!Word \div 2 \in Nat
  /\ Times \subseteq Nat
<1>1. /\ Base \in Nat \ {0} /\ Ntp!Word % 2 = 0 /\ Epoch \in 0 .. Ntp!Word - 1
      /\ Times \subseteq Nat
  BY ServicesAssumption DEF Ntp!NtpAssumption
<1>2. Ntp!Word \in Nat
  BY <1>1 DEF Ntp!Word
<1>3. Ntp!Word # 0
  BY <1>1, <1>2
<1> QED
  BY <1>1, <1>2, <1>3

(* The number print_time shows fits an int, and is the word itself as long *)
(* as the word's first bit is clear.                                       *)
LEMMA SignedIs ==
  ASSUME NEW n \in 0 .. Ntp!Word - 1
  PROVE  /\ Ntp!Signed(n) \in -(Ntp!Word \div 2) .. Ntp!Word \div 2 - 1
         /\ n < Ntp!Word \div 2 => Ntp!Signed(n) = n
<1>1. PICK w \in Nat : w = Ntp!Word \div 2 /\ Ntp!Word = 2 * w
  BY NtpNumbers
<1>2. Ntp!Signed(n) = IF n < w THEN n ELSE n - 2 * w
  BY <1>1 DEF Ntp!Signed
<1>3. Ntp!Signed(n) \in -w .. w - 1 /\ (n < w => Ntp!Signed(n) = n)
  BY <1>1, <1>2
<1> QED
  BY <1>1, <1>3

(* The time stamp of a whole answer becomes the server's time; zeros       *)
(* become the NTP epoch.                                                   *)
LEMMA StampIs ==
  ASSUME NEW t \in Nat
  PROVE  /\ Ntp!BigEndian((t + Epoch) % Ntp!Word) \in [1 .. 4 -> 0 .. Base - 1]
         /\ Ntp!ntp_to_unixtime(Ntp!BigEndian((t + Epoch) % Ntp!Word)) = t % Ntp!Word
         /\ Ntp!ntp_to_unixtime(Ntp!Zeros) = (-Epoch) % Ntp!Word
<1>0. t \in Int /\ Epoch \in Int /\ t + Epoch \in Int /\ Ntp!Word \in Nat \ {0} /\ Base \in Nat \ {0}
  BY NtpNumbers
<1>1. PICK m \in 0 .. Ntp!Word - 1 : m = (t + Epoch) % Ntp!Word
  BY <1>0, QuotientRemainder
<1>2. /\ Ntp!BigEndian(m) \in [1 .. 4 -> 0 .. Base - 1]
      /\ Ntp!htobe32(Ntp!Load(Ntp!BigEndian(m))) = m
  BY SwapReads
<1>3. (m - Epoch) % Ntp!Word = t % Ntp!Word
  BY <1>0, <1>1, OffsetCancels, Zenon
<1>4. Ntp!ntp_to_unixtime(Ntp!BigEndian(m)) = t % Ntp!Word
  BY <1>2, <1>3, Zenon DEF Ntp!ntp_to_unixtime
<1>5. Ntp!Load(Ntp!Zeros) = 0
  BY <1>0 DEF Ntp!Load, Ntp!Zeros
<1>6. Ntp!htobe32(0) = 0
  <2>1. 0 \div Base = 0 /\ 0 % Base = 0
    BY <1>0
  <2>2. Ntp!LittleEndian(0) = Ntp!Zeros
    BY <2>1, Zenon DEF Ntp!LittleEndian, Ntp!Zeros
  <2>3. Ntp!Swapped(Ntp!Zeros) = Ntp!Zeros
    BY DEF Ntp!Swapped, Ntp!Zeros
  <2> QED
    BY <1>5, <2>2, <2>3, Zenon DEF Ntp!htobe32
<1>7. Ntp!ntp_to_unixtime(Ntp!Zeros) = (0 - Epoch) % Ntp!Word
  BY <1>5, <1>6, Zenon DEF Ntp!ntp_to_unixtime
<1>8. 0 - Epoch = -Epoch
  BY <1>0
<1> QED
  BY <1>1, <1>2, <1>4, <1>7, <1>8

(* Whatever bytes an answer brings, the printed time is in its range. *)
LEMMA PrintTypes ==
  ASSUME NEW b \in [1 .. 4 -> 0 .. Base - 1]
  PROVE  Ntp!ntp_to_unixtime(b) \in 0 .. Ntp!Word - 1
<1>0. Epoch \in Int /\ Ntp!Word \in Nat \ {0} /\ Base \in Nat \ {0}
  BY NtpNumbers
<1>1. PICK n \in Int : n = Ntp!Load(b)
  BY BytesOfLoad
<1>2. PICK l \in [1 .. 4 -> 0 .. Base - 1] : l = Ntp!LittleEndian(n)
  BY BytesOf
<1>3. PICK r : r = Ntp!Swapped(l)
  OBVIOUS
<1>4. r \in [1 .. 4 -> 0 .. Base - 1]
  <2>1. PICK S : S = 0 .. Base - 1
    OBVIOUS
  <2>2. l[1] \in S /\ l[2] \in S /\ l[3] \in S /\ l[4] \in S
    BY <1>2, <2>1
  <2>3. r = <<l[4], l[3], l[2], l[1]>>
    BY <1>3 DEF Ntp!Swapped
  <2> QED
    BY <2>1, <2>2, <2>3
<1>5. PICK v \in Int : v = Ntp!htobe32(n)
  BY <1>2, <1>3, <1>4, BytesOfLoad DEF Ntp!htobe32
<1>6. v - Epoch \in Int /\ Ntp!ntp_to_unixtime(b) = (v - Epoch) % Ntp!Word
  BY <1>0, <1>1, <1>5 DEF Ntp!ntp_to_unixtime
<1> QED
  BY <1>0, <1>6, QuotientRemainder

(* Every step of ntp_main keeps NtpInv. *)
LEMMA NtpStepKeeps ==
  ASSUME Ntp!NtpInv, [Ntp!Next]_(Ntp!ntpVars) PROVE Ntp!NtpInv'
<1> USE DEF Ntp!Octets
<1>0. /\ now \in Times /\ now \in Nat /\ xmt \in [1 .. 4 -> 0 .. Base - 1]
      /\ Base \in Nat \ {0} /\ 0 \in 0 .. Base - 1
  BY NtpNumbers DEF Ntp!NtpInv, Ntp!TypeOK
<1>1. CASE Ntp!Query
  <2>1. xmt' = Ntp!Zeros /\ Ntp!Zeros \in [1 .. 4 -> 0 .. Base - 1]
    <3>1. PICK S : S = 0 .. Base - 1
      OBVIOUS
    <3> QED
      BY <1>0, <1>1, <3>1 DEF Ntp!Query, Ntp!Zeros
  <2>2. /\ ntpAt = "query" /\ ntpAt' = "wait" /\ UNCHANGED <<now, filled, unixtime, printed>>
    BY <1>1 DEF Ntp!Query
  <2> QED
    BY <2>1, <2>2 DEF Ntp!NtpInv, Ntp!TypeOK, Ntp!TimeExplained
<1>2. ASSUME NEW n \in 0 .. 4, Ntp!Receive(n) PROVE Ntp!NtpInv'
  <2>1. /\ ntpAt = "wait" /\ ntpAt' = "print" /\ filled' = n
        /\ UNCHANGED <<now, unixtime, printed>>
    BY <1>2 DEF Ntp!Receive
  <2>2. PICK b \in [1 .. 4 -> 0 .. Base - 1] : b = Ntp!BigEndian((now + Epoch) % Ntp!Word)
    BY <1>0, StampIs
  <2>3. xmt' = [k \in 1 .. 4 |-> IF k <= n THEN b[k] ELSE xmt[k]]
    BY <1>2, <2>2 DEF Ntp!Receive
  <2>4. xmt' \in [1 .. 4 -> 0 .. Base - 1]
    BY <1>0, <2>2, <2>3
  <2>5. n = 4 => xmt' = b
    BY <2>2, <2>3
  <2>6. n = 0 => xmt' = xmt
    BY <1>0, <2>3
  <2>7. xmt = Ntp!Zeros /\ printed = None
    BY <2>1 DEF Ntp!NtpInv
  <2> QED
    BY <2>1, <2>2, <2>4, <2>5, <2>6, <2>7 DEF Ntp!NtpInv, Ntp!TypeOK, Ntp!TimeExplained
<1>3. CASE Ntp!NoAnswer
  BY <1>3 DEF Ntp!NoAnswer, Ntp!NtpInv, Ntp!TypeOK, Ntp!TimeExplained
<1>4. ASSUME NEW ok \in BOOLEAN, Ntp!print_time(ok) PROVE Ntp!NtpInv'
  <2>1. /\ ntpAt = "print" /\ ntpAt' = "done" /\ UNCHANGED <<now, xmt, filled>>
        /\ unixtime' = Ntp!ntp_to_unixtime(xmt)
        /\ printed' = IF ok THEN Ntp!Signed(unixtime') ELSE None
    BY <1>4 DEF Ntp!print_time
  <2>2. PICK u \in 0 .. Ntp!Word - 1 : u = Ntp!ntp_to_unixtime(xmt)
    BY <1>0, PrintTypes
  <2>3. unixtime' = u /\ (printed' = Ntp!Signed(u) \/ printed' = None)
    BY <2>1, <2>2
  <2>4. /\ Ntp!Signed(u) \in -(Ntp!Word \div 2) .. Ntp!Word \div 2 - 1
        /\ u < Ntp!Word \div 2 => Ntp!Signed(u) = u
    BY SignedIs
  <2>5. Ntp!TypeOK'
    BY <2>1, <2>3, <2>4 DEF Ntp!NtpInv, Ntp!TypeOK
  <2>6. filled = 4 => u = now % Ntp!Word
    BY <1>0, <2>1, <2>2, StampIs DEF Ntp!NtpInv
  <2>7. filled = 0 => u = (-Epoch) % Ntp!Word
    BY <1>0, <2>1, <2>2, StampIs DEF Ntp!NtpInv
  <2>8. now < Ntp!Word \div 2 => now % Ntp!Word = now
    <3> SUFFICES ASSUME now < Ntp!Word \div 2 PROVE now % Ntp!Word = now
      OBVIOUS
    <3>1. Ntp!Word \in Nat \ {0} /\ now \in 0 .. Ntp!Word - 1
      BY <1>0, NtpNumbers
    <3> QED
      BY <3>1, SmallRemainder
  <2>9. ASSUME printed' # None, filled = 4, now < Ntp!Word \div 2 PROVE printed' = now
    BY <2>3, <2>4, <2>6, <2>8, <2>9
  <2>10. Ntp!TimeExplained'
    BY <2>1, <2>3, <2>6, <2>7, <2>9 DEF Ntp!TimeExplained
  <2> QED
    BY <2>1, <2>5, <2>10 DEF Ntp!NtpInv
<1>5. CASE UNCHANGED Ntp!ntpVars
  BY <1>5 DEF Ntp!ntpVars, Ntp!NtpInv, Ntp!TypeOK, Ntp!TimeExplained
<1> QED
  BY <1>1, <1>2, <1>3, <1>4, <1>5 DEF Ntp!Next

(* Between the bytes of the answer and the number printed, ntp_main keeps  *)
(* NtpInv, for bytes of any even number of values and any epoch.           *)
THEOREM NtpInvariant == Ntp!Spec => []Ntp!NtpInv
<1>1. Ntp!Init => Ntp!NtpInv
  <2> SUFFICES ASSUME Ntp!Init PROVE Ntp!NtpInv
    OBVIOUS
  <2>0. /\ Base \in Nat \ {0} /\ Ntp!Word \in Nat \ {0}
    BY NtpNumbers
  <2>1. xmt \in [1 .. 4 -> 0 .. Base - 1]
    <3>1. {0, Base - 1} \subseteq 0 .. Base - 1
      BY <2>0
    <3>2. xmt \in [1 .. 4 -> {0, Base - 1}]
      BY DEF Ntp!Init, Ntp!Octets
    <3> QED
      BY <3>1, <3>2
  <2>2. Ntp!TypeOK
    BY <2>0, <2>1 DEF Ntp!Init, Ntp!TypeOK, Ntp!Octets
  <2> QED
    BY <2>2 DEF Ntp!Init, Ntp!NtpInv, Ntp!TimeExplained
<1>2. Ntp!NtpInv /\ [Ntp!Next]_(Ntp!ntpVars) => Ntp!NtpInv'
  BY NtpStepKeeps
<1> QED
  BY <1>1, <1>2, PTL DEF Ntp!Spec

(* The time ntp_main prints is the server's, as far as 32 bits carry it;   *)
(* an answer that ends before the time stamp prints the epoch.             *)
THEOREM TimesExplained == Spec => []TimeExplained
<1>1. Ntp!NtpInv => TimeExplained
  BY DEF Ntp!NtpInv, TimeExplained
<1> QED
  BY <1>1, SideBySide, NtpInvariant, PTL

-----------------------------------------------------------------------------
(* The download of http.c *)

(* What httpc_dump_cb computes is within its 32 bits. *)
LEMMA DumpComputes ==
  ASSUME Http!HttpInv
  PROVE  /\ Http!delta = Http!Seconds /\ Http!delta \in Nat
         /\ Http!kbit = (8 * got) \div PerKilo
         /\ Http!kbit \in 0 .. UintMod - 1
<1>0. /\ uptime \in Nat /\ began \in Nat /\ began <= uptime
      /\ uptime <= MaxTime /\ MaxTime \in Nat /\ MaxTime \div UsPerSec < UintMod
      /\ position \in Nat /\ got = position /\ position * 8 < UintMod
      /\ UsPerSec \in Nat \ {0} /\ UintMod \in Nat \ {0} /\ PerKilo \in Nat \ {0}
  BY ServicesAssumption DEF Http!HttpAssumption, Http!HttpInv, Http!TypeOK
<1>1. time_started = began \div UsPerSec
  BY DEF Http!HttpInv
<1>2. /\ began \div UsPerSec \in Nat /\ uptime \div UsPerSec \in Nat
      /\ MaxTime \div UsPerSec \in Nat
      /\ began \div UsPerSec <= uptime \div UsPerSec
      /\ uptime \div UsPerSec <= MaxTime \div UsPerSec
  BY <1>0, Quotient, QuotientKeepsOrder
<1>3. uptime \div UsPerSec - began \div UsPerSec \in 0 .. UintMod - 1
  BY <1>0, <1>2
<1>4. Http!delta = Http!Seconds /\ Http!delta \in Nat
  BY <1>0, <1>1, <1>3, SmallRemainder DEF Http!delta, Http!Seconds
<1>5. (position * 8) % UintMod = 8 * got /\ 8 * got \in 0 .. UintMod - 1
  BY <1>0, SmallRemainder
<1>6. (8 * got) \div PerKilo \in 0 .. 8 * got
  BY <1>0, <1>5, Quotient
<1> QED
  BY <1>0, <1>4, <1>5, <1>6 DEF Http!kbit

(* Every step of the download keeps HttpInv. *)
LEMMA HttpStepKeeps ==
  ASSUME Http!HttpInv, [Http!Next]_(Http!httpVars) PROVE Http!HttpInv'
<1> USE DEF Http!reqVars, Http!fileVars
<1>0. /\ Request \in Nat /\ File \in Nat /\ MaxTime \in Nat /\ Chunk \in Nat
      /\ UsPerSec \in Nat \ {0} /\ UintMod \in Nat \ {0}
  BY ServicesAssumption DEF Http!HttpAssumption
<1>1. CASE Http!Tick
  BY <1>0, <1>1 DEF Http!Tick, Http!HttpInv, Http!TypeOK
<1>2. CASE Http!httpc_main
  <2>1. uptime \div UsPerSec \in 0 .. uptime /\ uptime \in 0 .. MaxTime
    BY <1>0, Quotient DEF Http!HttpInv, Http!TypeOK
  <2>2. uptime \div UsPerSec \in 0 .. MaxTime
    BY <1>0, <2>1
  <2> QED
    BY <1>0, <1>2, <2>2 DEF Http!httpc_main, Http!HttpInv, Http!TypeOK
<1>3. ASSUME NEW length \in 1 .. Request, NEW n \in -1 .. length,
             Http!httpc_write(length, n)
      PROVE  Http!HttpInv'
  <2>1. UNCHANGED <<uptime, time_started, got, position, speed, began>>
    BY <1>3 DEF Http!httpc_write
  <2>2. /\ asked \in Nat /\ sent \in Nat /\ sent <= asked /\ asked + length <= Request
        /\ (sent < asked <=> short) /\ short \in BOOLEAN
    BY <1>0, <1>3 DEF Http!httpc_write, Http!HttpInv, Http!TypeOK
  <2>3. CASE n = -1
    <3>1. asked' = asked /\ sent' = sent /\ short' = short /\ httpAt' = "done"
      BY <1>3, <2>2, <2>3 DEF Http!httpc_write, Http!WriteResult
    <3> QED
      BY <2>1, <3>1 DEF Http!HttpInv, Http!TypeOK
  <2>4. CASE n \in 0 .. length
    <3>1. /\ asked' = asked + length /\ sent' = sent + n
          /\ short' = (short \/ n < length)
          /\ httpAt' = IF asked' = Request THEN "read" ELSE "write"
      BY <1>0, <1>3, <2>2, <2>4 DEF Http!httpc_write, Http!WriteResult
    <3>2. /\ asked' \in 0 .. Request /\ sent' \in 0 .. Request
          /\ sent' <= asked' /\ (sent' < asked' <=> (sent < asked \/ n < length))
      BY <1>0, <2>2, <2>4, <3>1
    <3>3. short' \in BOOLEAN /\ (short' <=> (short \/ n < length))
      BY <3>1
    <3>4. httpAt' \in {"read", "write"} /\ (httpAt' = "read" => asked' = Request)
      BY <3>1
    <3> QED
      BY <2>1, <2>2, <3>2, <3>3, <3>4 DEF Http!HttpInv, Http!TypeOK
  <2> QED
    BY <1>0, <2>3, <2>4
<1>4. ASSUME NEW n \in -1 .. Chunk, got + n <= File, Http!httpc_read(n)
      PROVE  Http!HttpInv'
  <2>1. UNCHANGED <<uptime, time_started, asked, sent, short, speed, began>>
    BY <1>4 DEF Http!httpc_read
  <2>2. /\ got \in 0 .. File /\ position = got /\ asked = Request
    BY <1>4 DEF Http!httpc_read, Http!HttpInv, Http!TypeOK
  <2>3. /\ got' \in 0 .. File /\ position' = got'
        /\ httpAt' \in {"dump", "done"}
    BY <1>0, <1>4, <2>2 DEF Http!httpc_read, Http!ReadLength
  <2> QED
    BY <2>1, <2>2, <2>3 DEF Http!HttpInv, Http!TypeOK
<1>5. CASE Http!httpc_dump_cb
  <2>1. UNCHANGED <<uptime, time_started, asked, sent, short, got, position, began>>
    BY <1>5 DEF Http!httpc_dump_cb
  <2>2. speed' \in -1 .. UintMod - 1
    <3>1. CASE Http!delta # 0
      <4>1. speed' = Http!kbit \div Http!delta
        BY <1>5, <3>1 DEF Http!httpc_dump_cb
      <4>2. Http!kbit \in 0 .. UintMod - 1 /\ Http!delta \in Nat \ {0}
        BY <3>1, DumpComputes
      <4>3. Http!kbit \div Http!delta \in 0 .. Http!kbit
        BY <4>2, Quotient
      <4> QED
        BY <1>0, <4>1, <4>2, <4>3
    <3>2. CASE Http!delta = 0
      BY <1>0, <1>5, <3>2 DEF Http!httpc_dump_cb, Http!HttpInv, Http!TypeOK
    <3> QED
      BY <3>1, <3>2
  <2>3. httpAt = "dump" /\ httpAt' \in {"read", "fault"}
    BY <1>5 DEF Http!httpc_dump_cb
  <2> QED
    BY <2>1, <2>2, <2>3 DEF Http!HttpInv, Http!TypeOK
<1>6. CASE UNCHANGED Http!httpVars
  BY <1>6 DEF Http!httpVars, Http!HttpInv, Http!TypeOK
<1> QED
  BY <1>1, <1>2, <1>3, <1>4, <1>5, <1>6 DEF Http!Next

(* The download keeps HttpInv from the start. *)
THEOREM HttpInvariant == Http!Spec => []Http!HttpInv
<1>1. Http!Init => Http!HttpInv
  <2> SUFFICES ASSUME Http!Init PROVE Http!HttpInv
    OBVIOUS
  <2>1. /\ Request \in Nat /\ File \in Nat /\ MaxTime \in Nat
        /\ UsPerSec \in Nat \ {0} /\ UintMod \in Nat \ {0}
    BY ServicesAssumption DEF Http!HttpAssumption
  <2>2. 0 \div UsPerSec = 0
    BY <2>1
  <2>3. Http!TypeOK
    <3>1. /\ {uptime, began} \subseteq 0 .. MaxTime /\ time_started \in 0 .. MaxTime
          /\ {asked, sent} \subseteq 0 .. Request /\ {got, position} \subseteq 0 .. File
      BY <2>1 DEF Http!Init
    <3>2. speed \in -1 .. UintMod - 1
      BY <2>1 DEF Http!Init
    <3> QED
      BY <3>1, <3>2 DEF Http!Init, Http!TypeOK
  <2>4. ~short /\ ~(sent < asked) /\ sent <= asked /\ began <= uptime
    BY <2>1 DEF Http!Init
  <2> QED
    BY <2>2, <2>3, <2>4 DEF Http!Init, Http!HttpInv
<1>2. Http!HttpInv /\ [Http!Next]_(Http!httpVars) => Http!HttpInv'
  BY HttpStepKeeps
<1> QED
  BY <1>1, <1>2, PTL DEF Http!Spec

(* httpc of http.c reads no answer to a request it did not send whole,     *)
(* except where httpc_write hid a short send.                              *)
THEOREM RequestsExplained == Spec => []RequestExplained
<1>1. Http!HttpInv => RequestExplained
  BY DEF Http!HttpInv, RequestExplained, Http!RequestExplained
<1> QED
  BY <1>1, SideBySide, HttpInvariant, PTL

(* The speed of httpc_dump_cb is right in 32 bits for every file they can  *)
(* count the bits of, and divides by 0 in the first second only.           *)
THEOREM SpeedsRight == Spec => []SpeedRight
<1>1. Http!HttpInv => SpeedRight
  BY DumpComputes DEF SpeedRight, Http!SpeedRight
<1> QED
  BY <1>1, SideBySide, HttpInvariant, PTL

-----------------------------------------------------------------------------
(* The events of gps.c *)

(* An element of a sequence has the type of the sequence's elements. *)
LEMMA ElementOf ==
  ASSUME NEW S, NEW s \in Seq(S), NEW n \in 1 .. Len(s) PROVE s[n] \in S
  OBVIOUS

(* What the handler takes: an event about a frame that exists. *)
LEMMA TakeIs ==
  ASSUME Gps!GnssInv, NEW kind, Gps!Take(kind)
  PROVE  /\ events' \in Seq([kind : Gps!Kinds, frame : Gps!Frames])
         /\ Len(events') <= MaxEvents
         /\ \A n \in 1 .. Len(events') : events'[n].frame \in 1 .. Len(frames)
         /\ announced' \in 1 .. Len(frames) /\ announced' \in Gps!Frames
         /\ gnssAt = "idle"
<1>1. /\ events \in Seq([kind : Gps!Kinds, frame : Gps!Frames]) /\ events # << >>
      /\ Len(events) <= MaxEvents /\ MaxEvents \in Nat
      /\ events' = Tail(events) /\ announced' = Head(events).frame /\ gnssAt = "idle"
  BY ServicesAssumption
  DEF Gps!GnssAssumption, Gps!Take, Gps!GnssInv, Gps!TypeOK
<1>2. /\ Len(events) >= 1 /\ Head(events) = events[1] /\ Len(events') = Len(events) - 1
      /\ \A n \in 1 .. Len(events') : events'[n] = events[n + 1]
  BY <1>1
<1>3. \A n \in 1 .. Len(events) :
        events[n].frame \in 1 .. Len(frames) /\ events[n].frame \in Gps!Frames
  <2>1. \A n \in 1 .. Len(events) : events[n].frame \in 1 .. Len(frames)
    BY DEF Gps!GnssInv
  <2>2. \A n \in 1 .. Len(events) : events[n] \in [kind : Gps!Kinds, frame : Gps!Frames]
    BY <1>1, ElementOf
  <2> QED
    BY <2>1, <2>2
<1>4. \A n \in 1 .. Len(events') : n + 1 \in 1 .. Len(events)
  BY <1>1, <1>2
<1> QED
  BY <1>1, <1>2, <1>3, <1>4

(* Every step of the modem and of gnss_event_handler keeps GnssInv. *)
LEMMA GnssStepKeeps ==
  ASSUME Gps!GnssInv, [Gps!Next]_(Gps!gnssVars) PROVE Gps!GnssInv'
<1>0. /\ Gps!TypeOK /\ Gps!FixSound /\ MaxFrames \in Nat /\ MaxEvents \in Nat
      /\ frames \in Seq(SUBSET Gps!Flags) /\ Len(frames) \in Gps!Frames
      /\ Len(frames) \in Nat /\ Len(frames) <= MaxFrames
  BY ServicesAssumption
  DEF Gps!GnssAssumption, Gps!GnssInv, Gps!TypeOK, Gps!Frames
<1>1. CASE Gps!Compute
  <2>1. PICK f \in SUBSET Gps!Flags : frames' = Append(frames, f)
    BY <1>1 DEF Gps!Compute
  <2>2. /\ frames' \in Seq(SUBSET Gps!Flags) /\ Len(frames') = Len(frames) + 1
        /\ \A n \in 1 .. Len(frames) : frames'[n] = frames[n]
    BY <1>0, <2>1
  <2>3. /\ UNCHANGED <<events, gnssAt, announced, pvt, shown, heard>>
        /\ Len(frames') <= MaxFrames
    BY <1>0, <1>1, <2>2 DEF Gps!Compute
  <2>4. Gps!TypeOK'
    BY <1>0, <2>2, <2>3 DEF Gps!TypeOK
  <2>5. shown.frame \in 0 .. Len(frames)
    BY <1>0 DEF Gps!GnssInv, Gps!TypeOK, Gps!Frames
  <2>6. Gps!FixSound'
    BY <1>0, <2>2, <2>3, <2>5 DEF Gps!FixSound
  <2> QED
    BY <1>0, <2>2, <2>3, <2>4, <2>5, <2>6 DEF Gps!GnssInv
<1>2. ASSUME NEW kind \in Gps!Kinds, Gps!Announce(kind) PROVE Gps!GnssInv'
  <2>1. /\ events \in Seq([kind : Gps!Kinds, frame : Gps!Frames])
        /\ frames # << >> /\ Len(events) < MaxEvents
        /\ events' = Append(events, [kind |-> kind, frame |-> Len(frames)])
        /\ UNCHANGED <<frames, gnssAt, announced, pvt, shown, heard>>
    BY <1>0, <1>2 DEF Gps!Announce, Gps!TypeOK
  <2>2. /\ events' \in Seq([kind : Gps!Kinds, frame : Gps!Frames])
        /\ Len(events') = Len(events) + 1
        /\ \A n \in 1 .. Len(events) : events'[n] = events[n]
        /\ events'[Len(events) + 1].frame = Len(frames)
    BY <1>0, <2>1
  <2>3. Len(frames) \in 1 .. Len(frames) /\ Len(events') <= MaxEvents
    BY <1>0, <2>1, <2>2
  <2>4. \A n \in 1 .. Len(events') : events'[n].frame \in 1 .. Len(frames')
    BY <2>1, <2>2, <2>3 DEF Gps!GnssInv
  <2>5. Gps!TypeOK' /\ Gps!FixSound'
    BY <1>0, <2>1, <2>2, <2>3 DEF Gps!TypeOK, Gps!FixSound
  <2> QED
    BY <2>1, <2>4, <2>5 DEF Gps!GnssInv
<1>3. ASSUME NEW ok \in BOOLEAN, Gps!ReadPvt(ok) PROVE Gps!GnssInv'
  <2>1. Gps!Take("PVT") /\ UNCHANGED <<frames, shown, heard>>
    BY <1>3 DEF Gps!ReadPvt
  <2>2. Gps!FixSound'
    BY <1>0, <2>1 DEF Gps!FixSound
  <2>3. CASE ok
    <3>1. pvt' = [frame |-> Len(frames), flags |-> frames[Len(frames)]] /\ gnssAt' = "pvt"
      BY <1>3, <2>3 DEF Gps!ReadPvt, Gps!Latest
    <3>2. Len(frames) \in 1 .. Len(frames) /\ Len(frames) >= announced'
      BY <1>0, <2>1, TakeIs
    <3>3. pvt' \in [frame : Gps!Frames, flags : SUBSET Gps!Flags]
      BY <1>0, <3>1, <3>2
    <3>4. Gps!TypeOK'
      BY <1>0, <2>1, <3>1, <3>3, TakeIs DEF Gps!TypeOK
    <3> QED
      BY <2>1, <2>2, <3>1, <3>2, <3>4, TakeIs DEF Gps!GnssInv
  <2>4. CASE ~ok
    <3>1. UNCHANGED <<pvt, gnssAt>>
      BY <1>3, <2>4 DEF Gps!ReadPvt
    <3>2. Gps!TypeOK'
      BY <1>0, <2>1, <3>1, TakeIs DEF Gps!TypeOK
    <3> QED
      BY <2>1, <2>2, <3>1, <3>2, TakeIs DEF Gps!GnssInv
  <2> QED
    BY <2>3, <2>4
<1>4. CASE Gps!JudgePvt
  <2>1. /\ UNCHANGED <<frames, events, announced, pvt, heard>> /\ gnssAt' = "idle"
        /\ pvt.frame \in 1 .. Len(frames) /\ pvt.flags = frames[pvt.frame]
        /\ pvt.frame >= announced /\ pvt.frame \in Gps!Frames /\ announced \in Gps!Frames
        /\ pvt.flags \subseteq Gps!Flags
    BY <1>4 DEF Gps!JudgePvt, Gps!GnssInv, Gps!TypeOK
  <2>2. \/ shown' = shown
        \/ /\ shown' = [frame |-> pvt.frame, event |-> announced]
           /\ pvt.flags = {Gps!FIX_VALID}
    BY <1>4, <2>1 DEF Gps!JudgePvt, Gps!Output, Gps!Flags
  <2>3. CASE shown' = shown
    BY <1>0, <2>1, <2>3 DEF Gps!GnssInv, Gps!TypeOK, Gps!FixSound
  <2>4. CASE /\ shown' = [frame |-> pvt.frame, event |-> announced]
             /\ pvt.flags = {Gps!FIX_VALID}
    <3>1. /\ shown' \in [frame : Gps!Frames, event : Gps!Frames]
          /\ shown'.frame = pvt.frame /\ shown'.event = announced
      BY <2>1, <2>4
    <3>2. Gps!TypeOK'
      BY <1>0, <2>1, <3>1 DEF Gps!TypeOK
    <3>3. shown'.frame <= Len(frames) /\ shown'.frame >= shown'.event
      BY <1>0, <2>1, <3>1
    <3>4. frames'[shown'.frame] = {Gps!FIX_VALID}
      BY <2>1, <2>4, <3>1
    <3>5. Gps!FixSound'
      BY <1>0, <2>1, <3>3, <3>4 DEF Gps!FixSound
    <3> QED
      BY <2>1, <3>2, <3>3, <3>5 DEF Gps!GnssInv
  <2> QED
    BY <2>2, <2>3, <2>4
<1>5. ASSUME NEW ok \in BOOLEAN, Gps!ReadNmea(ok) PROVE Gps!GnssInv'
  <2>1. Gps!Take("NMEA") /\ UNCHANGED <<frames, gnssAt, pvt, shown>>
    BY <1>5 DEF Gps!ReadNmea
  <2>2. /\ heard' \in [frame : Gps!Frames, event : Gps!Frames]
        /\ heard'.frame >= heard'.event
    <3>1. CASE ok
      <4>1. heard' = [frame |-> Len(frames), event |-> announced']
        BY <1>5, <3>1 DEF Gps!ReadNmea, Gps!Output
      <4>2. announced' \in 1 .. Len(frames) /\ announced' \in Gps!Frames
        BY <2>1, TakeIs
      <4> QED
        BY <1>0, <4>1, <4>2
    <3>2. CASE ~ok
      BY <1>0, <1>5, <3>2 DEF Gps!ReadNmea, Gps!TypeOK, Gps!FixSound
    <3> QED
      BY <3>1, <3>2
  <2>3. Gps!TypeOK'
    BY <1>0, <2>1, <2>2, TakeIs DEF Gps!TypeOK
  <2>4. Gps!FixSound'
    BY <1>0, <2>1, <2>2 DEF Gps!FixSound
  <2> QED
    BY <2>1, <2>3, <2>4, TakeIs DEF Gps!GnssInv
<1>6. CASE Gps!OtherEvent
  <2>1. PICK kind \in {"AGNSS_REQ", "other"} : Gps!Take(kind)
    BY <1>6 DEF Gps!OtherEvent
  <2>2. UNCHANGED <<frames, gnssAt, pvt, shown, heard>>
    BY <1>6 DEF Gps!OtherEvent
  <2>3. Gps!TypeOK' /\ Gps!FixSound'
    BY <1>0, <2>1, <2>2, TakeIs DEF Gps!TypeOK, Gps!FixSound
  <2> QED
    BY <2>1, <2>2, <2>3, TakeIs DEF Gps!GnssInv
<1>7. CASE UNCHANGED Gps!gnssVars
  BY <1>7 DEF Gps!gnssVars, Gps!GnssInv, Gps!TypeOK, Gps!FixSound
<1> QED
  BY <1>1, <1>2, <1>3, <1>4, <1>5, <1>6, <1>7 DEF Gps!Next, Gps!gnss_event_handler

(* The modem and gnss_event_handler keep GnssInv from the start. *)
THEOREM GnssInvariant == Gps!Spec => []Gps!GnssInv
<1>1. Gps!Init => Gps!GnssInv
  BY ServicesAssumption
  DEF Gps!GnssAssumption, Gps!Init, Gps!GnssInv, Gps!TypeOK, Gps!FixSound,
      Gps!Output, Gps!Frames
<1>2. Gps!GnssInv /\ [Gps!Next]_(Gps!gnssVars) => Gps!GnssInv'
  BY GnssStepKeeps
<1> QED
  BY <1>1, <1>2, PTL DEF Gps!Spec

(* gnss_event_handler prints valid fixes only and nothing older than the   *)
(* event it answers, however late events are handled.                      *)
THEOREM FixesSound == Spec => []FixSound
<1>1. Gps!GnssInv => FixSound
  BY DEF Gps!GnssInv, FixSound
<1> QED
  BY <1>1, SideBySide, GnssInvariant, PTL

-----------------------------------------------------------------------------
(* The memory shared with the modem *)

(* ShmZone counts its chunks as everybody does. *)
LEMMA SameCardinality ==
  ASSUME NEW S
  PROVE  /\ Shm!IsFiniteSet(S) <=> IsFiniteSet(S)
         /\ Shm!Cardinality(S) = Cardinality(S)
  BY Zenon DEF Shm!Cardinality, Cardinality, Shm!IsFiniteSet, IsFiniteSet

(* Where the regions of main.c, board.c and the ldscript lie. *)
LEMMA Regions ==
  /\ Shm!ShmTxZone = 41 .. 48 /\ Shm!SRAM_MODEM = 32 .. 63
  /\ Shm!ShmTxZone \subseteq Shm!SRAM_MODEM
  /\ Shm!ShmTxZone \cap (Shm!SHMEM_CTRL \cup Shm!SHMEM_TX \cup Shm!SHMEM_RX) = {}
  BY DEF Shm!ShmTxZone, Shm!SRAM_MODEM, Shm!SHMEM_CTRL, Shm!SHMEM_TX,
         Shm!SHMEM_RX, Shm!Region

(* ZoneInv contains all that ZoneSound asks for. *)
LEMMA ZoneInvGives ==
  ASSUME Shm!ZoneInv PROVE Shm!ZoneSound
<1>1. Shm!ChunksApart
  BY DEF Shm!ZoneInv
<1>2. Shm!ChunksPlaced
  <2>1. Shm!Held \subseteq Shm!ShmTxZone
    BY DEF Shm!ZoneInv, Shm!Held
  <2> QED
    BY <2>1, Regions DEF Shm!ChunksPlaced
<1>3. Shm!CritBalanced
  <2>1. CASE Shm!Inside = {}
    BY <2>1, FS_EmptySet, SameCardinality DEF Shm!ZoneInv, Shm!CritBalanced
  <2>2. ASSUME NEW c \in Callers, Shm!Inside = {c}, critnest = 1
        PROVE  Shm!CritBalanced
    BY <2>2, FS_Singleton, SameCardinality DEF Shm!CritBalanced
  <2> QED
    BY <2>1, <2>2 DEF Shm!ZoneInv
<1> QED
  BY <1>1, <1>2, <1>3 DEF Shm!ZoneSound

(* Entering and leaving a critical section. *)
LEMMA EnterIs ==
  ASSUME Shm!ZoneInv, NEW c \in Callers, NEW j, j.op # "none", Shm!Enter(c, j)
  PROVE  /\ booted /\ Shm!Inside = {} /\ critnest' = 1 /\ Shm!Inside' = {c}
         /\ job'[c] = j /\ free \cup Shm!Held = Shm!ShmTxZone
<1>1. critnest = 0 /\ Shm!Inside = {} /\ booted
  BY DEF Shm!ZoneInv, Shm!Enter, Shm!MayEnter
<1>2. j # Shm!Outside
  BY DEF Shm!Outside
<1>3. job' = [job EXCEPT ![c] = j] /\ DOMAIN job = Callers
  BY DEF Shm!Enter, Shm!ZoneInv, Shm!TypeOK
<1>4. Shm!Inside' = {c}
  BY <1>1, <1>2, <1>3 DEF Shm!Inside
<1> QED
  BY <1>1, <1>3, <1>4 DEF Shm!Enter, Shm!ZoneInv, Shm!ChunksApart

(* What holds when a caller is about to leave its critical section: it is  *)
(* the only one inside, and free list, chunks and the units it works on    *)
(* make up the zone.                                                       *)
LEMMA ExitIs ==
  ASSUME Shm!ZoneInv, NEW c \in Callers, job[c].op # "none", Shm!Exit(c)
  PROVE  /\ booted /\ critnest' = 0 /\ Shm!Inside' = {} /\ Shm!JobSound(c)
         /\ free \cup Shm!Held \cup job[c].units = Shm!ShmTxZone
<1>1. c \in Shm!Inside
  BY DEF Shm!Inside, Shm!Outside
<1>2. PICK d \in Callers :
        /\ Shm!Inside = {d} /\ critnest = 1 /\ Shm!JobSound(d)
        /\ free \cup Shm!Held \cup job[d].units = Shm!ShmTxZone
  BY <1>1 DEF Shm!ZoneInv
<1>3. d = c
  BY <1>1, <1>2
<1>4. job' = [job EXCEPT ![c] = Shm!Outside] /\ DOMAIN job = Callers /\ critnest' = 0
  BY <1>2 DEF Shm!Exit, Shm!ZoneInv, Shm!TypeOK
<1>5. Shm!Inside' = {}
  BY <1>2, <1>3, <1>4 DEF Shm!Inside
<1> QED
  BY <1>1, <1>2, <1>3, <1>4, <1>5 DEF Shm!ZoneInv

(* Every step of board_init, shm_alloc and shm_free keeps ZoneInv. *)
LEMMA ShmStepKeeps ==
  ASSUME Shm!ZoneInv, [Shm!Next]_(Shm!shmVars) PROVE Shm!ZoneInv'
<1> DEFINE Job == [op : {"none", "alloc", "free"}, size : Sizes \cup {0},
                   units : SUBSET Shm!SRAM_MODEM, seen : SUBSET Shm!SRAM_MODEM]
           Chunks == [owner : Callers, units : SUBSET Shm!SRAM_MODEM]
<1>0. /\ Shm!TypeOK /\ Shm!ChunksApart /\ MaxChunks \in Nat
      /\ job \in [Callers -> Job] /\ chunks \subseteq Chunks /\ IsFiniteSet(chunks)
      /\ Cardinality(chunks) \in Nat /\ Cardinality(chunks) <= MaxChunks
      /\ \A k \in chunks : k.units \subseteq Shm!ShmTxZone
  BY ServicesAssumption, SameCardinality, FS_CardinalityType
  DEF Shm!ShmAssumption, Shm!ZoneInv, Shm!TypeOK
<1>1. CASE Shm!board_init
  <2>1. /\ chunks = {} /\ Shm!Inside = {} /\ critnest = 0
        /\ booted' = TRUE /\ free' = Shm!ShmTxZone /\ UNCHANGED <<chunks, critnest, job>>
    BY <1>1 DEF Shm!board_init, Shm!ZoneInv
  <2>2. Shm!Held' = {} /\ Shm!Inside' = {}
    BY <2>1 DEF Shm!Held, Shm!Inside
  <2>3. Shm!TypeOK'
    BY <1>0, <2>1, Regions DEF Shm!TypeOK
  <2> QED
    BY <2>1, <2>2, <2>3 DEF Shm!ZoneInv, Shm!ChunksApart
<1>2. ASSUME NEW c \in Callers, NEW size \in Sizes, Shm!shm_alloc(c, size)
      PROVE  Shm!ZoneInv'
  <2> DEFINE j == [op |-> "alloc", size |-> size, units |-> {}, seen |-> free]
  <2>1. Shm!Enter(c, j) /\ UNCHANGED <<booted, free, chunks>>
    BY <1>2 DEF Shm!shm_alloc
  <2>2. /\ booted /\ Shm!Inside = {} /\ critnest' = 1 /\ Shm!Inside' = {c}
        /\ job'[c] = j /\ free \cup Shm!Held = Shm!ShmTxZone
    BY <2>1, EnterIs
  <2>3. Shm!Held' = Shm!Held
    BY <2>1 DEF Shm!Held
  <2>4. Shm!TypeOK'
    <3>1. j \in Job
      BY <1>0 DEF Shm!TypeOK
    <3>2. job' \in [Callers -> Job]
      BY <1>0, <2>1, <3>1 DEF Shm!Enter
    <3> QED
      BY <1>0, <2>1, <2>2, <3>2 DEF Shm!TypeOK
  <2>5. Shm!JobSound(c)'
    BY <1>2, <2>1, <2>2, SameCardinality DEF Shm!JobSound, Shm!shm_alloc
  <2>6. Shm!ChunksApart'
    BY <1>0, <2>1, <2>2, <2>3 DEF Shm!ChunksApart
  <2> QED
    BY <1>0, <2>1, <2>2, <2>3, <2>4, <2>5, <2>6 DEF Shm!ZoneInv
<1>3. ASSUME NEW c \in Callers, NEW chunk \in chunks, Shm!shm_free(c, chunk)
      PROVE  Shm!ZoneInv'
  <2> DEFINE j == [op |-> "free", size |-> 0, units |-> chunk.units, seen |-> free]
  <2>1. /\ Shm!Enter(c, j) /\ UNCHANGED <<booted, free>>
        /\ chunks' = chunks \ {chunk}
    BY <1>3 DEF Shm!shm_free
  <2>2. /\ booted /\ Shm!Inside = {} /\ critnest' = 1 /\ Shm!Inside' = {c}
        /\ job'[c] = j /\ free \cup Shm!Held = Shm!ShmTxZone
    BY <2>1, EnterIs
  <2>3. /\ Shm!Held = Shm!Held' \cup chunk.units
        /\ Shm!Held' \cap chunk.units = {} /\ chunk.units \cap free = {}
    BY <1>0, <2>1 DEF Shm!Held, Shm!ChunksApart
  <2>4. Shm!TypeOK'
    <3>1. j \in Job
      BY <1>0 DEF Shm!TypeOK
    <3>2. job' \in [Callers -> Job]
      BY <1>0, <2>1, <3>1 DEF Shm!Enter
    <3>3. IsFiniteSet(chunks') /\ Cardinality(chunks') = Cardinality(chunks) - 1
      BY <1>0, <2>1, FS_RemoveElement, Zenon
    <3>4. Cardinality(chunks') <= MaxChunks
      BY <1>0, <3>3
    <3> QED
      BY <1>0, <2>1, <2>2, <3>2, <3>3, <3>4, SameCardinality DEF Shm!TypeOK
  <2>5. Shm!JobSound(c)'
    BY <2>1, <2>2, <2>3 DEF Shm!JobSound
  <2>6. Shm!ChunksApart'
    BY <1>0, <2>1, <2>2, <2>3 DEF Shm!ChunksApart
  <2>7. free' \cup Shm!Held' \cup job'[c].units = Shm!ShmTxZone
    BY <2>1, <2>2, <2>3
  <2> QED
    BY <1>0, <2>1, <2>2, <2>4, <2>5, <2>6, <2>7 DEF Shm!ZoneInv
<1>4. ASSUME NEW c \in Callers, Shm!AllocEnds(c) PROVE Shm!ZoneInv'
  <2>1. /\ booted /\ critnest' = 0 /\ Shm!Inside' = {} /\ job[c].seen = free
        /\ free \cup Shm!Held = Shm!ShmTxZone /\ booted' = booted
        /\ Cardinality(chunks) < MaxChunks
    BY <1>4, ExitIs, SameCardinality DEF Shm!AllocEnds, Shm!JobSound
  <2>2. job' \in [Callers -> Job]
    <3>1. Shm!Outside \in Job
      BY DEF Shm!Outside
    <3> QED
      BY <1>0, <1>4, <3>1 DEF Shm!AllocEnds, Shm!Exit
  <2>3. CASE UNCHANGED <<free, chunks>>
    <3>1. Shm!TypeOK' /\ Shm!Held' = Shm!Held
      BY <1>0, <2>1, <2>2, <2>3 DEF Shm!TypeOK, Shm!Held
    <3> QED
      BY <1>0, <2>1, <2>3, <3>1 DEF Shm!ZoneInv, Shm!ChunksApart
  <2>4. ASSUME NEW g \in Shm!Gaps(job[c].seen, job[c].size), free' = job[c].seen \ g,
               chunks' = chunks \cup {[owner |-> c, units |-> g]}
        PROVE  Shm!ZoneInv'
    <3>1. g \subseteq free
      BY <2>1, <2>4 DEF Shm!Gaps
    <3>2. Shm!Held' = Shm!Held \cup g
      <4>1. \A k \in chunks' : k \in chunks \/ k.units = g
        BY <2>4
      <4>2. \E k \in chunks' : k.units = g
        <5>1. [owner |-> c, units |-> g] \in chunks'
          BY <2>4
        <5>2. [owner |-> c, units |-> g].units = g
          OBVIOUS
        <5> QED
          BY <5>1, <5>2
      <4>3. chunks \subseteq chunks'
        BY <2>4
      <4> QED
        BY <4>1, <4>2, <4>3 DEF Shm!Held
    <3>3. g \cap Shm!Held = {} /\ g \subseteq Shm!ShmTxZone
      BY <1>0, <2>1, <3>1 DEF Shm!ChunksApart
    <3>4. Shm!TypeOK'
      <4>1. [owner |-> c, units |-> g] \in Chunks /\ free' \subseteq Shm!SRAM_MODEM
        BY <1>0, <2>1, <2>4, <3>3, Regions DEF Shm!TypeOK
      <4>2. /\ IsFiniteSet(chunks')
            /\ Cardinality(chunks') \in {Cardinality(chunks), Cardinality(chunks) + 1}
        BY <1>0, <2>4, FS_AddElement, Zenon
      <4>3. Cardinality(chunks') <= MaxChunks
        BY <1>0, <2>1, <4>2
      <4> QED
        BY <1>0, <2>1, <2>2, <2>4, <4>1, <4>2, <4>3, SameCardinality DEF Shm!TypeOK
    <3>5. \A k \in chunks' : k.units \subseteq Shm!ShmTxZone
      BY <1>0, <2>4, <3>3
    <3>6. Shm!ChunksApart'
      <4>1. \A k \in chunks : k.units \cap g = {}
        BY <3>3 DEF Shm!Held
      <4>2. \A k, l \in chunks' : k # l => k.units \cap l.units = {}
        BY <1>0, <2>4, <4>1 DEF Shm!ChunksApart
      <4>3. free' \cap Shm!Held' = {} /\ free' \cup Shm!Held' = Shm!ShmTxZone
        BY <1>0, <2>1, <2>4, <3>1, <3>2, <3>3 DEF Shm!ChunksApart
      <4> QED
        BY <4>2, <4>3 DEF Shm!ChunksApart
    <3> QED
      BY <2>1, <3>4, <3>5, <3>6 DEF Shm!ZoneInv
  <2> QED
    BY <1>4, <2>3, <2>4 DEF Shm!AllocEnds
<1>5. ASSUME NEW c \in Callers, Shm!FreeEnds(c) PROVE Shm!ZoneInv'
  <2>1. /\ booted /\ critnest' = 0 /\ Shm!Inside' = {} /\ job[c].seen = free
        /\ free \cup Shm!Held \cup job[c].units = Shm!ShmTxZone
        /\ job[c].units \cap (free \cup Shm!Held) = {}
        /\ free' = free \cup job[c].units /\ UNCHANGED <<booted, chunks>>
    BY <1>5, ExitIs DEF Shm!FreeEnds, Shm!JobSound
  <2>2. job' \in [Callers -> Job]
    <3>1. Shm!Outside \in Job
      BY DEF Shm!Outside
    <3> QED
      BY <1>0, <1>5, <3>1 DEF Shm!FreeEnds, Shm!Exit
  <2>3. Shm!Held' = Shm!Held
    BY <2>1 DEF Shm!Held
  <2>4. Shm!TypeOK'
    <3>1. free' \subseteq Shm!SRAM_MODEM
      BY <2>1, Regions
    <3> QED
      BY <1>0, <2>1, <2>2, <3>1 DEF Shm!TypeOK
  <2>5. Shm!ChunksApart'
    BY <1>0, <2>1, <2>3 DEF Shm!ChunksApart
  <2> QED
    BY <1>0, <2>1, <2>4, <2>5 DEF Shm!ZoneInv
<1>6. CASE UNCHANGED Shm!shmVars
  BY <1>6
  DEF Shm!shmVars, Shm!ZoneInv, Shm!TypeOK, Shm!ChunksApart, Shm!Held, Shm!Inside,
      Shm!JobSound
<1> QED
  BY <1>1, <1>2, <1>3, <1>4, <1>5, <1>6 DEF Shm!Next

(* board_init, shm_alloc and shm_free keep ZoneInv from the start. *)
THEOREM ZoneInvariant == Shm!Spec => []Shm!ZoneInv
<1>1. Shm!Init => Shm!ZoneInv
  <2> SUFFICES ASSUME Shm!Init PROVE Shm!ZoneInv
    OBVIOUS
  <2>1. Shm!Held = {} /\ Shm!Inside = {}
    BY DEF Shm!Init, Shm!Held, Shm!Inside
  <2>2. Shm!TypeOK
    <3>1. IsFiniteSet(chunks) /\ Cardinality(chunks) <= MaxChunks
      BY FS_EmptySet, ServicesAssumption DEF Shm!Init, Shm!ShmAssumption
    <3> QED
      BY <3>1, SameCardinality DEF Shm!Init, Shm!TypeOK, Shm!Outside
  <2> QED
    BY <2>1, <2>2 DEF Shm!Init, Shm!ZoneInv, Shm!ChunksApart
<1>2. Shm!ZoneInv /\ [Shm!Next]_(Shm!shmVars) => Shm!ZoneInv'
  BY ShmStepKeeps
<1> QED
  BY <1>1, <1>2, PTL DEF Shm!Spec

(* shm_alloc of board.c never hands out memory twice, nor memory of the    *)
(* modem's own regions, and its critical sections balance, for any callers *)
(* and sizes.                                                              *)
THEOREM ZonesSound == Spec => []ZoneSound
<1>1. Shm!ZoneInv => ZoneSound
  BY ZoneInvGives DEF ZoneSound
<1> QED
  BY <1>1, SideBySide, ZoneInvariant, PTL

(* The inductive invariants hold in the run of the services side by side. *)
THEOREM ServicesInvariant == Spec => []ServicesInv
  BY SideBySide, NtpInvariant, HttpInvariant, GnssInvariant, ZoneInvariant, PTL DEF ServicesInv
=============================================================================
