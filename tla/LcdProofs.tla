----------------------------- MODULE LcdProofs -----------------------------
(***************************************************************************)
(* Theorems about Lcd, for panels of any size.  LcdControl is inductive;   *)
(* what it says of the clock and of vcom gives the two properties of the   *)
(* signals.  With it BitsArrive is inductive, which follows every bit from *)
(* the byte that Write_Data is called with to the panel; eight of them are *)
(* the byte again (SumOfBits), so the transfers arrive whole and the lines *)
(* are painted one by one.                                                 *)
(***************************************************************************)
EXTENDS Lcd, TLAPS

(* Sequences: put together, and their elements. *)
LEMMA Concat ==
  ASSUME NEW S, NEW s \in Seq(S), NEW t \in Seq(S)
  PROVE  s \o t \in Seq(S) /\ Len(s \o t) = Len(s) + Len(t)
  OBVIOUS

(* What Write_Data indexes within its length is one of the bytes. *)
LEMMA ElementOf ==
  ASSUME NEW S, NEW s \in Seq(S), NEW n \in 1 .. Len(s) PROVE s[n] \in S
  OBVIOUS

(* ... each in its place, the second behind the first, ... *)
LEMMA Places ==
  ASSUME NEW S, NEW s \in Seq(S), NEW t \in Seq(S)
  PROVE  \A n \in 1 .. Len(s) + Len(t) :
           (s \o t)[n] = IF n <= Len(s) THEN s[n] ELSE t[n - Len(s)]
  OBVIOUS

(* ... and a piece taken out again. *)
LEMMA Middle ==
  ASSUME NEW S, NEW s \in Seq(S), NEW t \in Seq(S), Len(t) + 2 <= Len(s),
         \A n \in 1 .. Len(t) : s[n + 2] = t[n]
  PROVE  SubSeq(s, 3, Len(t) + 2) = t
<1> DEFINE u == SubSeq(s, 3, Len(t) + 2)
<1>1. Len(s) \in Nat /\ Len(t) \in Nat
  OBVIOUS
<1>2. u \in Seq(S) /\ Len(u) = Len(t) /\ \A n \in 1 .. Len(t) : u[n] = s[n + 2]
  BY <1>1
<1> QED
  BY <1>1, <1>2

(* The pattern of a line. *)
LEMMA LineIs == Line \in Seq(0 .. 255) /\ Len(Line) = 2 * Half
<1> DEFINE a == [n \in 1 .. Half |-> 204]
           b == [n \in 1 .. Half |-> 51]
<1>0. Half \in Nat \ {0}
  BY LcdAssumption
<1>1. /\ a \in Seq(0 .. 255) /\ Len(a) = Half
      /\ b \in Seq(0 .. 255) /\ Len(b) = Half
  BY <1>0
<1> HIDE DEF a, b
<1>2. Line = a \o b
  BY DEF Line, a, b
<1>3. a \o b \in Seq(0 .. 255) /\ Len(a \o b) = Len(a) + Len(b)
  BY <1>1, Concat, Zenon
<1> QED
  BY <1>0, <1>1, <1>2, <1>3

(* The transfers: none is empty nor longer than a line's, and all they     *)
(* consist of is bytes.                                                    *)
LEMMA FrameType ==
  ASSUME NEW f \in 1 .. LastFrame
  PROVE  /\ Frame(f) \in Seq(0 .. 255)
         /\ Len(Frame(f)) \in 1 .. 2 * Half + 4
<1>0. Half \in Nat \ {0} /\ Lines \in 1 .. 255
  BY LcdAssumption
<1>1. CASE f = 1
  BY <1>0, <1>1 DEF Frame, ClearScreen, JDI_CMD_ALL_CLEAR
<1>2. CASE f # 1 /\ f < LastFrame
  <2>2. Line \in Seq(0 .. 255) /\ Len(Line) = 2 * Half
    BY LineIs
  <2> DEFINE h == <<LCD_COLOR_CMD_UPDATE, (f - 2 + 1) % 256>>
             z == <<0, 0>>
  <2>3. (f - 2 + 1) % 256 \in 0 .. 255
    BY <1>2
  <2>4. /\ h \in Seq(0 .. 255) /\ Len(h) = 2
        /\ z \in Seq(0 .. 255) /\ Len(z) = 2
    BY <2>3 DEF LCD_COLOR_CMD_UPDATE
  <2>5. Frame(f) = h \o Line \o z
    BY <1>2 DEF Frame, set_line
  <2> HIDE DEF h, z
  <2>6. h \o Line \in Seq(0 .. 255) /\ Len(h \o Line) = Len(h) + Len(Line)
    BY <2>2, <2>4, Concat, Zenon
  <2>7. /\ (h \o Line) \o z \in Seq(0 .. 255)
        /\ Len((h \o Line) \o z) = Len(h \o Line) + Len(z)
    BY <2>4, <2>6, Concat, Zenon
  <2>8. Len(Frame(f)) = 2 * Half + 4
    BY <1>0, <2>2, <2>4, <2>5, <2>6, <2>7
  <2> QED
    BY <1>0, <2>5, <2>7, <2>8
<1>3. CASE f # 1 /\ ~(f < LastFrame)
  <2>1. Frame(f) = <<0, 0>>
    BY <1>3 DEF Frame, setBlinkMode, Modes
  <2> QED
    BY <1>0, <2>1
<1> QED
  BY <1>1, <1>2, <1>3

(* A write to a pin moves this pin alone; the panel samples bits. *)
LEMMA DriveIs ==
  ASSUME TypeOK, NEW p \in Pins, NEW level \in {0, 1}, Drive(p, level)
  PROVE  /\ pin' \in [Pins -> {0, 1}] /\ rx' \in Seq({0, 1})
         /\ pin'[p] = level /\ \A q \in Pins \ {p} : pin'[q] = pin[q]
<1>1. /\ pin \in [Pins -> {0, 1}] /\ rx \in Seq({0, 1})
      /\ pin' = [pin EXCEPT ![p] = level] /\ Panel
  BY DEF TypeOK, Drive
<1>2. pin.MOSI \in {0, 1}
  BY <1>1 DEF Pins
<1>3. << >> \in Seq({0, 1}) /\ Append(rx, pin.MOSI) \in Seq({0, 1})
  BY <1>1, <1>2
<1>4. rx' \in {<< >>, Append(rx, pin.MOSI), rx}
  BY <1>1 DEF Panel
<1> QED
  BY <1>1, <1>3, <1>4

(* Every write of lcd_init and toggle_vcom keeps LcdControl. *)
LEMMA LcdStep == ASSUME LcdControl, [Next]_vars PROVE LcdControl'
<1> USE DEF writeVars, panelVars, pin_set, pin_clr, Then
<1>0. /\ TypeOK /\ pin \in [Pins -> {0, 1}] /\ frame \in 0 .. LastFrame
      /\ LastFrame \in Nat /\ LastFrame > 2 /\ Half \in Nat
  BY LcdAssumption DEF LcdControl, TypeOK, LastFrame
<1>1. CASE Configure
  <2>1. pin' \in [Pins -> {0, 1}]
    BY <1>0, <1>1 DEF Configure, Pins
  <2> QED
    BY <1>0, <1>1, <2>1 DEF Configure, LcdControl, TypeOK, Resetting, Steps
<1>2. CASE lcd_reset
  <2>1. PICK p \in {"CS", "DISP"}, level \in {0, 1} : Drive(p, level)
    BY <1>2 DEF lcd_reset
  <2>2. pin' \in [Pins -> {0, 1}] /\ rx' \in Seq({0, 1})
    BY <1>0, <2>1, DriveIs DEF Pins
  <2>3. /\ UNCHANGED <<vcom, frame, byte, dh, i>> /\ at \in Resetting
        /\ at' \in {"reset_disp", "disp", "select"}
    BY <1>2 DEF lcd_reset, Resetting
  <2> QED
    BY <1>0, <2>2, <2>3 DEF LcdControl, TypeOK, Resetting, Steps
<1>3. CASE Select
  <2>1. /\ pin' \in [Pins -> {0, 1}] /\ rx' \in Seq({0, 1})
        /\ pin'.EXTCOMIN = pin.EXTCOMIN
    BY <1>0, <1>3, DriveIs DEF Select, Pins
  <2>2. frame' \in 0 .. LastFrame /\ frame' = frame + 1
    BY <1>0, <1>3 DEF Select, LcdControl
  <2> QED
    BY <1>0, <1>3, <2>1, <2>2 DEF Select, LcdControl, TypeOK, Resetting, Steps
<1>4. CASE NextByte
  <2>1. frame > 0
    BY <1>0, <1>4 DEF NextByte, LcdControl, Resetting
  <2>2. /\ Frame(frame) \in Seq(0 .. 255) /\ Len(Frame(frame)) \in 1 .. 2 * Half + 4
    BY <1>0, <2>1, FrameType
  <2>3. byte' \in 1 .. Len(Frame(frame)) /\ byte' \in 0 .. 2 * Half + 4
    BY <1>0, <1>4, <2>2 DEF NextByte, TypeOK
  <2>4. Frame(frame)[byte'] \in 0 .. 255
    BY <2>2, <2>3, ElementOf, Zenon
  <2>5. dh' \in 0 .. 255
    BY <1>4, <2>4 DEF NextByte
  <2> QED
    BY <1>0, <1>4, <2>3, <2>5 DEF NextByte, LcdControl, TypeOK, Resetting, Steps
<1>5. CASE Deselect
  <2>1. /\ pin' \in [Pins -> {0, 1}] /\ rx' \in Seq({0, 1})
        /\ pin'.EXTCOMIN = pin.EXTCOMIN
    BY <1>0, <1>5, DriveIs DEF Deselect, Pins
  <2> QED
    BY <1>0, <1>5, <2>1 DEF Deselect, LcdControl, TypeOK, Resetting, Steps
<1>6. CASE ClockLow
  <2>1. /\ pin' \in [Pins -> {0, 1}] /\ rx' \in Seq({0, 1})
        /\ pin'.EXTCOMIN = pin.EXTCOMIN /\ pin'.SCK = 0
    BY <1>0, <1>6, DriveIs DEF ClockLow, Pins
  <2> QED
    BY <1>0, <1>6, <2>1 DEF ClockLow, LcdControl, TypeOK, Resetting, Steps
<1>7. CASE Data
  <2>1. PICK level \in {0, 1} : Drive("MOSI", level)
    BY <1>7 DEF Data
  <2>2. /\ pin' \in [Pins -> {0, 1}] /\ rx' \in Seq({0, 1})
        /\ pin'.EXTCOMIN = pin.EXTCOMIN /\ pin'.SCK = pin.SCK
    BY <1>0, <2>1, DriveIs DEF Pins
  <2>3. dh' \in 0 .. 255
    BY <1>0, <1>7 DEF Data, TypeOK
  <2> QED
    BY <1>0, <1>7, <2>2, <2>3 DEF Data, LcdControl, TypeOK, Resetting, Steps
<1>8. CASE ClockHigh
  <2>1. /\ pin' \in [Pins -> {0, 1}] /\ rx' \in Seq({0, 1})
        /\ pin'.EXTCOMIN = pin.EXTCOMIN
    BY <1>0, <1>8, DriveIs DEF ClockHigh, Pins
  <2>2. i' \in 0 .. 8
    BY <1>0, <1>8 DEF ClockHigh, LcdControl, TypeOK
  <2> QED
    BY <1>0, <1>8, <2>1, <2>2 DEF ClockHigh, LcdControl, TypeOK, Resetting, Steps
<1>9. CASE ByteDone
  <2>1. /\ pin' \in [Pins -> {0, 1}] /\ rx' \in Seq({0, 1})
        /\ pin'.EXTCOMIN = pin.EXTCOMIN /\ pin'.SCK = 0
    BY <1>0, <1>9, DriveIs DEF ByteDone, Pins
  <2> QED
    BY <1>0, <1>9, <2>1 DEF ByteDone, LcdControl, TypeOK, Resetting, Steps
<1>10. CASE toggle_vcom
  <2>1. Drive("EXTCOMIN", 1 - vcom) /\ 1 - vcom \in {0, 1} /\ vcom' = 1 - vcom
    BY <1>0, <1>10 DEF toggle_vcom, TypeOK
  <2>2. /\ pin' \in [Pins -> {0, 1}] /\ rx' \in Seq({0, 1})
        /\ pin'.EXTCOMIN = vcom'
    BY <1>0, <2>1, DriveIs DEF Pins
  <2>3. at' \in {"select", "done"} /\ (at' = "select" => frame < LastFrame)
    BY <1>10 DEF toggle_vcom
  <2> QED
    BY <1>0, <1>10, <2>1, <2>2, <2>3 DEF toggle_vcom, LcdControl, TypeOK, Resetting, Steps
<1>11. CASE UNCHANGED vars
  BY <1>11 DEF vars, LcdControl, TypeOK
<1> QED
  BY <1>1, <1>2, <1>3, <1>4, <1>5, <1>6, <1>7, <1>8, <1>9, <1>10, <1>11 DEF Next

(* lcd_init keeps its types, its clock and vcom in order from any levels   *)
(* of the pins.                                                            *)
THEOREM LcdControlled == Spec => []LcdControl
<1>1. Init => LcdControl
  <2> SUFFICES ASSUME Init PROVE LcdControl
    OBVIOUS
  <2>1. TypeOK
    BY LcdAssumption DEF Init, TypeOK, Steps, LastFrame
  <2> QED
    BY <2>1 DEF Init, LcdControl, Resetting
<1>2. LcdControl /\ [Next]_vars => LcdControl'
  BY LcdStep
<1> QED
  BY <1>1, <1>2, PTL DEF Spec

(* The bits of a byte by name. *)
LEMMA BitsOf ==
  ASSUME NEW b \in 0 .. 255
  PROVE  /\ Bit(b, 1) = (b \div 128) % 2 /\ Bit(b, 2) = (b \div 64) % 2
         /\ Bit(b, 3) = (b \div 32) % 2 /\ Bit(b, 4) = (b \div 16) % 2
         /\ Bit(b, 5) = (b \div 8) % 2 /\ Bit(b, 6) = (b \div 4) % 2
         /\ Bit(b, 7) = (b \div 2) % 2 /\ Bit(b, 8) = b % 2
<1>1. Bit(b, 8) = (b \div 1) % 2 /\ b \div 1 = b
  BY DEF Bit, Weight
<1> QED
  BY <1>1 DEF Bit, Weight

(* A byte is the weighted sum of its bits. *)
LEMMA SumOfBits ==
  ASSUME NEW b \in 0 .. 255
  PROVE  /\ \A k \in 1 .. 8 : Bit(b, k) \in {0, 1}
         /\ b = 128 * Bit(b, 1) + 64 * Bit(b, 2) + 32 * Bit(b, 3) + 16 * Bit(b, 4)
                + 8 * Bit(b, 5) + 4 * Bit(b, 6) + 2 * Bit(b, 7) + Bit(b, 8)
<1>1. /\ b \div 128 = Bit(b, 1)
      /\ b \div 64 = 2 * (b \div 128) + Bit(b, 2)
      /\ b \div 32 = 2 * (b \div 64) + Bit(b, 3)
      /\ b \div 16 = 2 * (b \div 32) + Bit(b, 4)
      /\ b \div 8 = 2 * (b \div 16) + Bit(b, 5)
      /\ b \div 4 = 2 * (b \div 8) + Bit(b, 6)
      /\ b \div 2 = 2 * (b \div 4) + Bit(b, 7)
      /\ b = 2 * (b \div 2) + Bit(b, 8)
  <2>1. /\ b \div 64 = 2 * (b \div 128) + ((b \div 64) % 2)
        /\ b \div 32 = 2 * (b \div 64) + ((b \div 32) % 2)
        /\ b \div 16 = 2 * (b \div 32) + ((b \div 16) % 2)
        /\ b \div 8 = 2 * (b \div 16) + ((b \div 8) % 2)
        /\ b \div 4 = 2 * (b \div 8) + ((b \div 4) % 2)
        /\ b \div 2 = 2 * (b \div 4) + ((b \div 2) % 2)
        /\ b = 2 * (b \div 2) + (b % 2)
        /\ b \div 128 = (b \div 128) % 2
    OBVIOUS
  <2> QED
    BY <2>1, BitsOf
<1>2. /\ Bit(b, 1) \in {0, 1} /\ Bit(b, 2) \in {0, 1} /\ Bit(b, 3) \in {0, 1}
      /\ Bit(b, 4) \in {0, 1} /\ Bit(b, 5) \in {0, 1} /\ Bit(b, 6) \in {0, 1}
      /\ Bit(b, 7) \in {0, 1} /\ Bit(b, 8) \in {0, 1}
  BY BitsOf
<1>3. \A k \in 1 .. 8 : Bit(b, k) \in {0, 1}
  BY <1>2
<1>4. /\ b \div 128 \in Int /\ b \div 64 \in Int /\ b \div 32 \in Int /\ b \div 16 \in Int
      /\ b \div 8 \in Int /\ b \div 4 \in Int /\ b \div 2 \in Int
  OBVIOUS
<1>5. b = 128 * Bit(b, 1) + 64 * Bit(b, 2) + 32 * Bit(b, 3) + 16 * Bit(b, 4)
          + 8 * Bit(b, 5) + 4 * Bit(b, 6) + 2 * Bit(b, 7) + Bit(b, 8)
  <2>1. PICK q1, q2, q3, q4, q5, q6, q7 \in Int :
          /\ q1 = b \div 128 /\ q2 = b \div 64 /\ q3 = b \div 32 /\ q4 = b \div 16
          /\ q5 = b \div 8 /\ q6 = b \div 4 /\ q7 = b \div 2
    BY <1>4
  <2>2. /\ q1 = Bit(b, 1) /\ q2 = 2 * q1 + Bit(b, 2) /\ q3 = 2 * q2 + Bit(b, 3)
        /\ q4 = 2 * q3 + Bit(b, 4) /\ q5 = 2 * q4 + Bit(b, 5) /\ q6 = 2 * q5 + Bit(b, 6)
        /\ q7 = 2 * q6 + Bit(b, 7) /\ b = 2 * q7 + Bit(b, 8)
    BY <1>1, <2>1
  <2>3. PICK b1, b2, b3, b4, b5, b6, b7, b8 \in {0, 1} :
          /\ b1 = Bit(b, 1) /\ b2 = Bit(b, 2) /\ b3 = Bit(b, 3) /\ b4 = Bit(b, 4)
          /\ b5 = Bit(b, 5) /\ b6 = Bit(b, 6) /\ b7 = Bit(b, 7) /\ b8 = Bit(b, 8)
    BY <1>2
  <2>4. /\ q1 = b1 /\ q2 = 2 * q1 + b2 /\ q3 = 2 * q2 + b3
        /\ q4 = 2 * q3 + b4 /\ q5 = 2 * q4 + b5 /\ q6 = 2 * q5 + b6
        /\ q7 = 2 * q6 + b7 /\ b = 2 * q7 + b8
    BY <2>2, <2>3, Zenon
  <2>5. b = 128 * b1 + 64 * b2 + 32 * b3 + 16 * b4 + 8 * b5 + 4 * b6 + 2 * b7 + b8
    BY <2>4
  <2> QED
    BY <2>3, <2>5, Zenon
<1> QED
  BY <1>3, <1>5

(* What the shift of Write_Data does: the second bit becomes the first. *)
LEMMA ShiftBits ==
  ASSUME NEW b \in 0 .. 255
  PROVE  /\ Bit(b, 1) = IF b >= 128 THEN 1 ELSE 0
         /\ (2 * b) % 256 \in 0 .. 255
         /\ \A k \in 1 .. 7 : Bit((2 * b) % 256, k) = Bit(b, k + 1)
<1>1. PICK c \in 0 .. 255 : c = (2 * b) % 256
  OBVIOUS
<1>2. /\ c \div 128 = b \div 64 - 2 * (b \div 128)
      /\ c \div 64 = b \div 32 - 4 * (b \div 128)
      /\ c \div 32 = b \div 16 - 8 * (b \div 128)
      /\ c \div 16 = b \div 8 - 16 * (b \div 128)
      /\ c \div 8 = b \div 4 - 32 * (b \div 128)
      /\ c \div 4 = b \div 2 - 64 * (b \div 128)
      /\ c \div 2 = b - 128 * (b \div 128)
  <2>1. b \div 128 \in {0, 1} /\ c = 2 * b - 256 * (b \div 128)
    BY <1>1
  <2> QED
    BY <2>1
<1>3. \A q, r \in Int : /\ (q - 2 * r) % 2 = q % 2 /\ (q - 4 * r) % 2 = q % 2
                        /\ (q - 8 * r) % 2 = q % 2 /\ (q - 16 * r) % 2 = q % 2
                        /\ (q - 32 * r) % 2 = q % 2 /\ (q - 64 * r) % 2 = q % 2
                        /\ (q - 128 * r) % 2 = q % 2
  OBVIOUS
<1>4. /\ b \div 128 \in Int /\ b \div 64 \in Int /\ b \div 32 \in Int /\ b \div 16 \in Int
      /\ b \div 8 \in Int /\ b \div 4 \in Int /\ b \div 2 \in Int
  OBVIOUS
<1>5. /\ (c \div 128) % 2 = (b \div 64) % 2 /\ (c \div 64) % 2 = (b \div 32) % 2
      /\ (c \div 32) % 2 = (b \div 16) % 2 /\ (c \div 16) % 2 = (b \div 8) % 2
      /\ (c \div 8) % 2 = (b \div 4) % 2 /\ (c \div 4) % 2 = (b \div 2) % 2
      /\ (c \div 2) % 2 = b % 2
  BY <1>2, <1>3, <1>4
<1>6. /\ Bit(c, 1) = Bit(b, 2) /\ Bit(c, 2) = Bit(b, 3) /\ Bit(c, 3) = Bit(b, 4)
      /\ Bit(c, 4) = Bit(b, 5) /\ Bit(c, 5) = Bit(b, 6) /\ Bit(c, 6) = Bit(b, 7)
      /\ Bit(c, 7) = Bit(b, 8)
  <2>1. /\ Bit(c, 1) = (c \div 128) % 2 /\ Bit(c, 2) = (c \div 64) % 2
        /\ Bit(c, 3) = (c \div 32) % 2 /\ Bit(c, 4) = (c \div 16) % 2
        /\ Bit(c, 5) = (c \div 8) % 2 /\ Bit(c, 6) = (c \div 4) % 2
        /\ Bit(c, 7) = (c \div 2) % 2
    BY BitsOf, Zenon
  <2>2. /\ Bit(b, 2) = (b \div 64) % 2 /\ Bit(b, 3) = (b \div 32) % 2
        /\ Bit(b, 4) = (b \div 16) % 2 /\ Bit(b, 5) = (b \div 8) % 2
        /\ Bit(b, 6) = (b \div 4) % 2 /\ Bit(b, 7) = (b \div 2) % 2
        /\ Bit(b, 8) = b % 2
    BY BitsOf, Zenon
  <2>3. Bit(c, 1) = Bit(b, 2)
    BY <1>5, <2>1, <2>2, Zenon
  <2>4. Bit(c, 2) = Bit(b, 3)
    BY <1>5, <2>1, <2>2, Zenon
  <2>5. Bit(c, 3) = Bit(b, 4)
    BY <1>5, <2>1, <2>2, Zenon
  <2>6. Bit(c, 4) = Bit(b, 5)
    BY <1>5, <2>1, <2>2, Zenon
  <2>7. Bit(c, 5) = Bit(b, 6)
    BY <1>5, <2>1, <2>2, Zenon
  <2>8. Bit(c, 6) = Bit(b, 7)
    BY <1>5, <2>1, <2>2, Zenon
  <2>9. Bit(c, 7) = Bit(b, 8)
    BY <1>5, <2>1, <2>2, Zenon
  <2> QED
    BY <2>3, <2>4, <2>5, <2>6, <2>7, <2>8, <2>9
<1>7. ASSUME NEW k \in 1 .. 7 PROVE Bit(c, k) = Bit(b, k + 1)
  BY <1>6
<1>8. Bit(b, 1) = IF b >= 128 THEN 1 ELSE 0
  BY BitsOf
<1> QED
  BY <1>1, <1>7, <1>8

(* What the panel makes of a write: it samples at a rising edge of SCK and *)
(* acts on CS; no other write of lcd.c means anything to it.               *)
LEMMA PanelIs ==
  ASSUME TypeOK, NEW p \in Pins, NEW level \in {0, 1}, Drive(p, level)
  PROVE  /\ p \notin {"CS", "SCK"} \/ (p = "SCK" /\ level = 0) =>
              rx' = rx /\ shown' = shown
         /\ p = "SCK" /\ level = 1 /\ pin.SCK = 0 /\ pin.CS = 1 =>
              rx' = Append(rx, pin.MOSI) /\ shown' = shown
         /\ p = "CS" /\ level = 1 /\ pin.CS = 0 => rx' = << >> /\ shown' = shown
         /\ p = "CS" /\ level = 0 /\ pin.CS = 1 => rx' = rx /\ shown' = Execute
<1>1. /\ pin \in [Pins -> {0, 1}] /\ Panel
      /\ pin'[p] = level /\ \A q \in Pins \ {p} : pin'[q] = pin[q]
  BY DriveIs DEF TypeOK, Drive
<1>2. {"CS", "SCK", "MOSI"} \subseteq Pins
  BY DEF Pins
<1>3. /\ p # "CS" => pin'.CS = pin.CS
      /\ p # "SCK" => pin'.SCK = pin.SCK
  BY <1>1, <1>2
<1> QED
  BY <1>1, <1>2, <1>3 DEF Panel, Rises, Falls

(* The transfers in full. *)
LEMMA FrameIs ==
  ASSUME NEW f \in 1 .. LastFrame
  PROVE  /\ f = 1 => Frame(f) = <<32, 0>>
         /\ f = LastFrame => Frame(f) = <<0, 0>>
         /\ f \in 2 .. Lines + 1 =>
              /\ Len(Frame(f)) = 2 * Half + 4
              /\ Frame(f)[1] = 144 /\ Frame(f)[2] = f - 1
              /\ SubSeq(Frame(f), 3, 2 * Half + 2) = Line
<1>0. Half \in Nat \ {0} /\ Lines \in 1 .. 255 /\ LastFrame = Lines + 2
  BY LcdAssumption DEF LastFrame
<1>1. f = 1 => Frame(f) = <<32, 0>>
  BY DEF Frame, ClearScreen, JDI_CMD_ALL_CLEAR
<1>2. f = LastFrame => Frame(f) = <<0, 0>>
  BY <1>0 DEF Frame, setBlinkMode, Modes
<1>3. ASSUME f \in 2 .. Lines + 1
      PROVE  /\ Len(Frame(f)) = 2 * Half + 4
             /\ Frame(f)[1] = 144 /\ Frame(f)[2] = f - 1
             /\ SubSeq(Frame(f), 3, 2 * Half + 2) = Line
  <2>1. Line \in Seq(0 .. 255) /\ Len(Line) = 2 * Half
    BY LineIs
  <2>2. (f - 2 + 1) % 256 = f - 1 /\ f - 1 \in 0 .. 255
    BY <1>0, <1>3
  <2>3. PICK h : h = <<LCD_COLOR_CMD_UPDATE, (f - 2 + 1) % 256>>
    OBVIOUS
  <2>4. h \in Seq(0 .. 255) /\ Len(h) = 2 /\ h[1] = 144 /\ h[2] = f - 1
    BY <2>2, <2>3 DEF LCD_COLOR_CMD_UPDATE
  <2>5. PICK z : z = <<0, 0>>
    OBVIOUS
  <2>6. z \in Seq(0 .. 255) /\ Len(z) = 2
    BY <2>5
  <2>7. PICK u : u = h \o Line
    OBVIOUS
  <2>8. Frame(f) = u \o z
    BY <1>0, <1>3, <2>3, <2>5, <2>7 DEF Frame, set_line
  <2>9. /\ u \in Seq(0 .. 255) /\ Len(u) = Len(h) + Len(Line)
        /\ \A n \in 1 .. Len(h) + Len(Line) :
             u[n] = IF n <= Len(h) THEN h[n] ELSE Line[n - Len(h)]
    <3>1. h \in Seq(0 .. 255) /\ Line \in Seq(0 .. 255)
      BY <2>1, <2>4
    <3> QED
      BY <2>7, <3>1, Concat, Places, Zenon
  <2>10. PICK v : v = Frame(f)
    OBVIOUS
  <2>11. v = u \o z
    BY <2>8, <2>10, Zenon
  <2>12. /\ v \in Seq(0 .. 255) /\ Len(v) = Len(u) + Len(z)
         /\ \A n \in 1 .. Len(u) + Len(z) :
              v[n] = IF n <= Len(u) THEN u[n] ELSE z[n - Len(u)]
    BY <2>6, <2>9, <2>11, Concat, Places, Zenon
  <2>13. PICK m \in Nat : m = 2 * Half
    BY <1>0
  <2>14. Len(u) = m + 2 /\ Len(v) = m + 4 /\ Len(Line) = m
    BY <2>1, <2>4, <2>6, <2>9, <2>12, <2>13
  <2>15. \A n \in 1 .. 2 + m : u[n] = IF n <= 2 THEN h[n] ELSE Line[n - 2]
    <3>1. Len(h) = 2 /\ Len(Line) = m
      BY <2>4, <2>14
    <3>2. \A n \in 1 .. Len(h) + Len(Line) :
             u[n] = IF n <= Len(h) THEN h[n] ELSE Line[n - Len(h)]
      BY <2>9
    <3> QED
      BY <3>1, <3>2, Zenon
  <2>16. \A n \in 1 .. (m + 2) + 2 : v[n] = IF n <= m + 2 THEN u[n] ELSE z[n - (m + 2)]
    BY <2>6, <2>12, <2>14, Zenon
  <2>17. \A n \in 1 .. m + 2 : v[n] = IF n <= 2 THEN h[n] ELSE Line[n - 2]
    BY <2>15, <2>16
  <2>18. v[1] = h[1] /\ v[2] = h[2] /\ \A n \in 1 .. m : v[n + 2] = Line[n]
    BY <2>17
  <2>19. Len(Line) + 2 <= Len(v) /\ \A n \in 1 .. Len(Line) : v[n + 2] = Line[n]
    BY <2>14, <2>18
  <2>20. SubSeq(v, 3, Len(Line) + 2) = Line
    BY <2>1, <2>12, <2>19, Middle, Zenon
  <2>21. Len(v) = 2 * Half + 4
    BY <2>13, <2>14
  <2> QED
    BY <2>1, <2>4, <2>10, <2>18, <2>20, <2>21, Zenon
<1> QED
  BY <1>1, <1>2, <1>3

(* What LcdControl says of the numbers of a transfer. *)
LEMMA Underway ==
  ASSUME LcdControl, at \in Transferring \cup {"vcom"}
  PROVE  /\ TypeOK /\ frame \in 1 .. LastFrame /\ byte \in Nat /\ i \in 0 .. 8
         /\ Frame(frame) \in Seq(0 .. 255) /\ Len(Frame(frame)) \in 1 .. 2 * Half + 4
<1>1. /\ TypeOK /\ frame \in 1 .. LastFrame /\ byte \in Nat /\ i \in 0 .. 8
  BY LcdAssumption DEF LcdControl, TypeOK, Transferring, Resetting, LastFrame
<1> QED
  BY <1>1, FrameType

(* The bits on their way: no write of lcd_init loses or adds one. *)
LEMMA BitsStep == ASSUME LcdControl, BitsArrive, [Next]_vars PROVE BitsArrive'
<1> USE DEF writeVars, panelVars, pin_set, pin_clr, Then
<1>0. TypeOK /\ pin \in [Pins -> {0, 1}] /\ {"CS", "SCK", "MOSI", "DISP", "EXTCOMIN"} \subseteq Pins
  BY DEF LcdControl, TypeOK, Pins
<1>1. CASE Configure
  BY <1>1 DEF Configure, BitsArrive, Transferring
<1>2. CASE lcd_reset
  <2>1. at' \in {"reset_disp", "disp", "select"}
    BY <1>2 DEF lcd_reset
  <2>2. pin'.CS = 0
    <3>1. CASE at = "reset"
      BY <1>0, <1>2, <3>1, DriveIs DEF lcd_reset
    <3>2. CASE at # "reset"
      <4>1. PICK level \in {0, 1} : Drive("DISP", level)
        BY <1>2, <3>2 DEF lcd_reset
      <4>2. pin.CS = 0
        BY <1>2, <3>2 DEF lcd_reset, BitsArrive
      <4> QED
        BY <1>0, <4>1, <4>2, DriveIs
    <3> QED
      BY <3>1, <3>2
  <2> QED
    BY <2>1, <2>2 DEF BitsArrive, Transferring
<1>3. CASE Select
  <2>1. pin.CS = 0 /\ Drive("CS", 1)
    BY <1>3 DEF Select, BitsArrive
  <2>2. pin'.CS = 1 /\ rx' = << >>
    BY <1>0, <2>1, DriveIs, PanelIs
  <2>3. /\ at' = "byte" /\ byte' = 0 /\ frame' \in 1 .. LastFrame
    BY <1>0, <1>3, LcdAssumption DEF Select, LcdControl, TypeOK, LastFrame
  <2>4. Len(Frame(frame')) \in Nat
    BY <2>3, FrameType
  <2>5. Len(rx') = 0
    BY <2>2
  <2> QED
    BY <2>2, <2>3, <2>4, <2>5 DEF BitsArrive, Transferring, Sent
<1>4. CASE NextByte
  <2>1. /\ at = "byte" /\ byte < Len(Frame(frame)) /\ at' = "low" /\ byte' = byte + 1
        /\ dh' = Frame(frame)[byte + 1] /\ i' = 0 /\ UNCHANGED <<pin, frame, rx>>
    BY <1>4 DEF NextByte
  <2>2. byte \in Nat /\ Len(Frame(frame)) \in Nat
    BY <2>1, Underway DEF Transferring
  <2>3. /\ pin.CS = 1 /\ Len(rx) = 8 * byte
        /\ \A n \in 1 .. byte, k \in 1 .. 8 : 8 * (n - 1) + k <= 8 * byte =>
             rx[8 * (n - 1) + k] = Bit(Frame(frame)[n], k)
    BY <2>1 DEF BitsArrive, Transferring, Sent
  <2>4. \A n \in 1 .. byte + 1, k \in 1 .. 8 : 8 * (n - 1) + k <= 8 * byte =>
          rx[8 * (n - 1) + k] = Bit(Frame(frame)[n], k)
    <3>1. \A n \in 1 .. byte + 1, k \in 1 .. 8 : 8 * (n - 1) + k <= 8 * byte => n \in 1 .. byte
      BY <2>2
    <3> QED
      BY <2>3, <3>1, Zenon
  <2>5. Sent' = 8 * byte
    BY <2>1, <2>2 DEF Sent
  <2>6. \A k \in 1 .. 8 - i' : Bit(dh', k) = Bit(Frame(frame)[byte'], k + i')
    BY <2>1
  <2> QED
    BY <2>1, <2>2, <2>3, <2>4, <2>5, <2>6 DEF BitsArrive, Transferring
<1>5. CASE Deselect
  <2>1. /\ at = "byte" /\ byte = Len(Frame(frame)) /\ at' = "vcom" /\ Drive("CS", 0)
        /\ UNCHANGED <<frame, byte>>
    BY <1>5 DEF Deselect
  <2>2. pin.CS = 1
    BY <2>1 DEF BitsArrive, Transferring
  <2>3. pin'.CS = 0 /\ rx' = rx
    BY <1>0, <2>1, <2>2, DriveIs, PanelIs
  <2>4. Sent' = Sent
    BY <2>1 DEF Sent
  <2> QED
    BY <2>1, <2>3, <2>4 DEF BitsArrive, Transferring
<1>6. CASE ClockLow
  <2>1. /\ at = "low" /\ at' = "data" /\ Drive("SCK", 0) /\ UNCHANGED <<frame, byte, dh, i>>
    BY <1>6 DEF ClockLow
  <2>2. pin'.CS = pin.CS /\ rx' = rx
    BY <1>0, <2>1, DriveIs, PanelIs
  <2>3. Sent' = Sent
    BY <2>1 DEF Sent
  <2> QED
    BY <2>1, <2>2, <2>3 DEF BitsArrive, Transferring
<1>7. CASE Data
  <2>1. /\ at = "data" /\ at' = "high" /\ dh' = (2 * dh) % 256
        /\ UNCHANGED <<frame, byte, i>>
        /\ Drive("MOSI", IF dh >= 128 THEN 1 ELSE 0)
    BY <1>7 DEF Data
  <2>2. dh \in 0 .. 255 /\ i \in 0 .. 7
    BY <1>0, <2>1 DEF LcdControl, TypeOK
  <2>3. (IF dh >= 128 THEN 1 ELSE 0) \in {0, 1}
    OBVIOUS
  <2>4. /\ pin'.CS = pin.CS /\ rx' = rx
        /\ pin'.MOSI = IF dh >= 128 THEN 1 ELSE 0
    BY <1>0, <2>1, <2>3, DriveIs, PanelIs
  <2>5. Sent' = Sent
    BY <2>1 DEF Sent
  <2>6. /\ byte > 0
        /\ \A k \in 1 .. 8 - i : Bit(dh, k) = Bit(Frame(frame)[byte], k + i)
    BY <2>1 DEF BitsArrive
  <2>7. pin'.MOSI = Bit(Frame(frame)[byte], i + 1)
    <3>1. 1 \in 1 .. 8 - i /\ 1 + i = i + 1
      BY <2>2
    <3>2. Bit(dh, 1) = IF dh >= 128 THEN 1 ELSE 0
      BY <2>2, ShiftBits
    <3> QED
      BY <2>4, <2>6, <3>1, <3>2
  <2>8. ASSUME NEW k \in 1 .. 7 - i
        PROVE  Bit(dh', k) = Bit(Frame(frame)[byte], k + i + 1)
    <3>1. /\ k \in 1 .. 7 /\ k + 1 \in 1 .. 8 - i /\ (k + 1) + i = k + i + 1
      BY <2>2
    <3>2. Bit(dh', k) = Bit(dh, k + 1)
      BY <2>1, <2>2, <3>1, ShiftBits, Zenon
    <3>3. Bit(dh, k + 1) = Bit(Frame(frame)[byte], (k + 1) + i)
      BY <2>6, <3>1, Zenon
    <3> QED
      BY <3>1, <3>2, <3>3, Zenon
  <2> QED
    BY <2>1, <2>4, <2>5, <2>6, <2>7, <2>8 DEF BitsArrive, Transferring
<1>8. CASE ClockHigh
  <2>1. /\ at = "high" /\ at' = "low" /\ Drive("SCK", 1) /\ i' = i + 1
        /\ UNCHANGED <<frame, byte, dh>>
    BY <1>8 DEF ClockHigh
  <2>2. pin.CS = 1 /\ pin.SCK = 0 /\ i \in 0 .. 7 /\ byte \in Nat \ {0} /\ rx \in Seq({0, 1})
    BY <1>0, <2>1 DEF LcdControl, TypeOK, BitsArrive, Transferring
  <2>3. pin'.CS = 1 /\ rx' = Append(rx, pin.MOSI)
    BY <1>0, <2>1, <2>2, DriveIs, PanelIs
  <2>4. /\ byte <= Len(Frame(frame)) /\ Len(rx) = 8 * (byte - 1) + i
        /\ \A n \in 1 .. byte, k \in 1 .. 8 : 8 * (n - 1) + k <= 8 * (byte - 1) + i =>
             rx[8 * (n - 1) + k] = Bit(Frame(frame)[n], k)
        /\ pin.MOSI = Bit(Frame(frame)[byte], i + 1)
        /\ \A k \in 1 .. 7 - i : Bit(dh, k) = Bit(Frame(frame)[byte], k + i + 1)
    BY <2>1 DEF BitsArrive, Transferring, Sent
  <2>5. Sent' = 8 * (byte - 1) + i + 1
    BY <2>1, <2>2 DEF Sent
  <2>6. /\ Len(rx') = 8 * (byte - 1) + i + 1
        /\ \A n \in 1 .. 8 * (byte - 1) + i : rx'[n] = rx[n]
        /\ rx'[8 * (byte - 1) + i + 1] = pin.MOSI
    <3>1. PICK m \in Nat : m = 8 * (byte - 1) + i
      BY <2>2
    <3>2. /\ Len(rx') = m + 1 /\ \A n \in 1 .. m : rx'[n] = rx[n]
          /\ rx'[m + 1] = pin.MOSI
      BY <2>2, <2>3, <2>4, <3>1
    <3> QED
      BY <2>2, <3>1, <3>2
  <2>7. ASSUME NEW n \in 1 .. byte, NEW k \in 1 .. 8,
               8 * (n - 1) + k <= 8 * (byte - 1) + i + 1
        PROVE  rx'[8 * (n - 1) + k] = Bit(Frame(frame)[n], k)
    <3>1. CASE 8 * (n - 1) + k <= 8 * (byte - 1) + i
      <4>1. 8 * (n - 1) + k \in 1 .. 8 * (byte - 1) + i
        BY <2>2, <3>1
      <4> QED
        BY <2>4, <2>6, <3>1, <4>1, Zenon
    <3>2. CASE ~(8 * (n - 1) + k <= 8 * (byte - 1) + i)
      <4>1. n = byte /\ k = i + 1 /\ 8 * (n - 1) + k = 8 * (byte - 1) + i + 1
        BY <2>2, <2>7, <3>2
      <4> QED
        BY <2>4, <2>6, <4>1
    <3> QED
      BY <3>1, <3>2
  <2>8. \A k \in 1 .. 8 - (i + 1) : Bit(dh, k) = Bit(Frame(frame)[byte], k + (i + 1))
    <3>1. 8 - (i + 1) = 7 - i /\ \A k \in Int : k + (i + 1) = k + i + 1
      BY <2>2
    <3> QED
      BY <2>2, <2>4, <3>1
  <2>9. /\ Len(rx') = Sent'
        /\ \A n \in 1 .. byte', k \in 1 .. 8 : 8 * (n - 1) + k <= Sent' =>
             rx'[8 * (n - 1) + k] = Bit(Frame(frame')[n], k)
    BY <2>1, <2>5, <2>6, <2>7, Zenon
  <2>10. \A k \in 1 .. 8 - i' : Bit(dh', k) = Bit(Frame(frame')[byte'], k + i')
    BY <2>1, <2>8, Zenon
  <2>11. byte' > 0 /\ pin'.CS = 1 /\ byte' <= Len(Frame(frame'))
    BY <2>1, <2>2, <2>3, <2>4
  <2> QED
    BY <2>1, <2>9, <2>10, <2>11 DEF BitsArrive, Transferring
<1>9. CASE ByteDone
  <2>1. /\ at = "low" /\ i = 8 /\ at' = "byte" /\ Drive("SCK", 0)
        /\ UNCHANGED <<frame, byte>>
    BY <1>9 DEF ByteDone
  <2>2. pin'.CS = pin.CS /\ rx' = rx
    BY <1>0, <2>1, DriveIs, PanelIs
  <2>3. Sent' = Sent
    BY <1>0, <2>1 DEF Sent, TypeOK
  <2> QED
    BY <2>1, <2>2, <2>3 DEF BitsArrive, Transferring
<1>10. CASE toggle_vcom
  <2>1. PICK level \in {0, 1} : Drive("EXTCOMIN", level)
    BY <1>10 DEF toggle_vcom
  <2>2. at = "vcom" /\ at' \in {"select", "done"}
    BY <1>10 DEF toggle_vcom
  <2>3. pin'.CS = 0
    BY <1>0, <2>1, <2>2, DriveIs DEF BitsArrive
  <2> QED
    BY <2>2, <2>3 DEF BitsArrive, Transferring
<1>11. CASE UNCHANGED vars
  BY <1>11 DEF vars, BitsArrive, Sent
<1> QED
  BY <1>1, <1>2, <1>3, <1>4, <1>5, <1>6, <1>7, <1>8, <1>9, <1>10, <1>11 DEF Next

(* Between two bytes the panel has the bytes sent so far, whole. *)
LEMMA BytesArrive ==
  ASSUME LcdControl, BitsArrive, at \in {"byte", "vcom"}
  PROVE  /\ Len(rx) % 8 = 0
         /\ Received = SubSeq(Frame(frame), 1, byte)
         /\ byte = Len(Frame(frame)) => Received = Frame(frame)
<1>1. /\ byte \in Nat /\ Frame(frame) \in Seq(0 .. 255)
  BY Underway DEF Transferring
<1>2. /\ byte <= Len(Frame(frame)) /\ Len(rx) = 8 * byte
      /\ \A n \in 1 .. byte, k \in 1 .. 8 : 8 * (n - 1) + k <= 8 * byte =>
           rx[8 * (n - 1) + k] = Bit(Frame(frame)[n], k)
  <2>1. Sent = 8 * byte
    BY DEF Sent
  <2>2. /\ Len(rx) = Sent
        /\ \A n \in 1 .. byte, k \in 1 .. 8 : 8 * (n - 1) + k <= Sent =>
             rx[8 * (n - 1) + k] = Bit(Frame(frame)[n], k)
    BY Zenon DEF BitsArrive, Transferring
  <2>3. byte <= Len(Frame(frame))
    <3>1. CASE at = "byte"
      BY <3>1, Zenon DEF BitsArrive, Transferring
    <3>2. CASE at = "vcom"
      <4>1. byte = Len(Frame(frame))
        BY <3>2, Zenon DEF BitsArrive
      <4> QED
        BY <1>1, <4>1
    <3> QED
      BY <3>1, <3>2
  <2> QED
    BY <2>1, <2>2, <2>3, Zenon
<1>3. Len(rx) % 8 = 0 /\ Len(rx) \div 8 = byte
  BY <1>1, <1>2
<1>4. ASSUME NEW n \in 1 .. byte PROVE ByteAt(n) = Frame(frame)[n]
  <2>1. n \in 1 .. Len(Frame(frame))
    BY <1>1, <1>2
  <2>2. PICK g \in 0 .. 255 : g = Frame(frame)[n]
    BY <1>1, <2>1, ElementOf, Zenon
  <2>3. ASSUME NEW k \in 1 .. 8 PROVE rx[8 * (n - 1) + k] = Bit(g, k)
    <3>1. 8 * (n - 1) + k <= 8 * byte
      BY <1>1
    <3> QED
      BY <1>2, <2>2, <3>1, Zenon
  <2>4. /\ rx[8 * (n - 1) + 1] = Bit(g, 1) /\ rx[8 * (n - 1) + 2] = Bit(g, 2)
        /\ rx[8 * (n - 1) + 3] = Bit(g, 3) /\ rx[8 * (n - 1) + 4] = Bit(g, 4)
        /\ rx[8 * (n - 1) + 5] = Bit(g, 5) /\ rx[8 * (n - 1) + 6] = Bit(g, 6)
        /\ rx[8 * (n - 1) + 7] = Bit(g, 7) /\ rx[8 * (n - 1) + 8] = Bit(g, 8)
    BY <2>3
  <2>5. ByteAt(n) = 128 * Bit(g, 1) + 64 * Bit(g, 2) + 32 * Bit(g, 3) + 16 * Bit(g, 4)
                    + 8 * Bit(g, 5) + 4 * Bit(g, 6) + 2 * Bit(g, 7) + Bit(g, 8)
    BY <2>4, Zenon DEF ByteAt
  <2> QED
    BY <2>2, <2>5, SumOfBits, Zenon
<1>5. Received = [n \in 1 .. byte |-> Frame(frame)[n]]
  BY <1>3, <1>4, Zenon DEF Received
<1>6. PICK s \in Seq(0 .. 255) : s = Frame(frame)
  BY <1>1
<1>7. SubSeq(s, 1, byte) = [n \in 1 .. byte |-> s[n]]
  BY <1>1, <1>2, <1>6
<1>8. byte = Len(s) => s = [n \in 1 .. byte |-> s[n]]
  BY <1>6
<1> QED
  BY <1>3, <1>5, <1>6, <1>7, <1>8, Zenon

(* What the panel carries out when a transfer ends. *)
LEMMA PaintsFrame ==
  ASSUME LcdControl, BitsArrive, LinesPainted, Deselect
  PROVE  Execute = [n \in 1 .. Lines |-> IF n < frame THEN Line ELSE Blank]
<1>0. /\ at = "byte" /\ byte = Len(Frame(frame)) /\ frame \in 1 .. LastFrame
      /\ LastFrame = Lines + 2 /\ Lines \in 1 .. 255 /\ Half \in Nat \ {0}
  <2>1. at = "byte" /\ byte = Len(Frame(frame))
    BY DEF Deselect
  <2> QED
    BY <2>1, LcdAssumption, Underway DEF Transferring, LastFrame
<1>1. PICK r : r = Frame(frame)
  OBVIOUS
<1>2. Received = r
  BY <1>0, <1>1, BytesArrive
<1>3. frame > 1 => shown = [n \in 1 .. Lines |-> IF n < frame - 1 THEN Line ELSE Blank]
  BY <1>0 DEF LinesPainted, Finished, Transferring
<1>4. CASE frame = 1
  <2>1. r = <<32, 0>>
    BY <1>0, <1>1, <1>4, FrameIs
  <2>2. Len(r) >= 2 /\ r[1] = JDI_CMD_ALL_CLEAR
    BY <2>1 DEF JDI_CMD_ALL_CLEAR
  <2>3. Execute = [n \in 1 .. Lines |-> Blank]
    BY <1>2, <2>2 DEF Execute, JDI_CMD_ALL_CLEAR, LCD_COLOR_CMD_UPDATE
  <2> QED
    BY <1>0, <1>4, <2>3
<1>5. CASE frame \in 2 .. Lines + 1
  <2>1. /\ Len(r) = 2 * Half + 4 /\ r[1] = 144 /\ r[2] = frame - 1
        /\ SubSeq(r, 3, 2 * Half + 2) = Line
    BY <1>0, <1>1, <1>5, FrameIs
  <2>2. /\ r[1] = LCD_COLOR_CMD_UPDATE /\ r[1] # JDI_CMD_ALL_CLEAR
        /\ frame - 1 \in 1 .. Lines
    BY <1>0, <1>5, <2>1 DEF LCD_COLOR_CMD_UPDATE, JDI_CMD_ALL_CLEAR
  <2>3. Execute = [shown EXCEPT ![frame - 1] = Line]
    BY <1>2, <2>1, <2>2 DEF Execute
  <2>4. PICK a, b : a = Line /\ b = Blank
    OBVIOUS
  <2>5. shown = [n \in 1 .. Lines |-> IF n < frame - 1 THEN a ELSE b]
    BY <1>0, <1>3, <1>5, <2>4
  <2>6. [shown EXCEPT ![frame - 1] = a] = [n \in 1 .. Lines |-> IF n < frame THEN a ELSE b]
    <3>1. PICK f, t : f = frame /\ t = [shown EXCEPT ![f - 1] = a]
      OBVIOUS
    <3>2. f - 1 \in 1 .. Lines
      BY <2>2, <3>1
    <3>3. DOMAIN t = 1 .. Lines
      BY <2>5, <3>1
    <3>4. ASSUME NEW n \in 1 .. Lines PROVE t[n] = IF n < f THEN a ELSE b
      <4>1. shown[n] = IF n < f - 1 THEN a ELSE b
        BY <2>5, <3>1
      <4>2. t[n] = IF n = f - 1 THEN a ELSE shown[n]
        BY <2>5, <3>1
      <4>3. n < f <=> n < f - 1 \/ n = f - 1
        BY <1>0, <3>1
      <4> QED
        BY <4>1, <4>2, <4>3
    <3>5. t = [n \in 1 .. Lines |-> t[n]]
      BY <2>5, <3>1
    <3> QED
      BY <3>1, <3>4, <3>5, Zenon
  <2> QED
    BY <2>3, <2>4, <2>6, Zenon
<1>6. CASE frame = LastFrame
  <2>1. r = <<0, 0>>
    BY <1>0, <1>1, <1>6, FrameIs
  <2>2. r[1] # JDI_CMD_ALL_CLEAR /\ r[1] # LCD_COLOR_CMD_UPDATE
    BY <2>1 DEF JDI_CMD_ALL_CLEAR, LCD_COLOR_CMD_UPDATE
  <2>3. Execute = shown
    BY <1>2, <2>2 DEF Execute
  <2> QED
    BY <1>0, <1>3, <1>6, <2>3
<1> QED
  BY <1>0, <1>4, <1>5, <1>6

(* Nothing but the end of a transfer of lcd_init changes what is shown. *)
LEMMA PaintStep ==
  ASSUME LcdControl, BitsArrive, LinesPainted, [Next]_vars
  PROVE  LinesPainted'
<1> USE DEF writeVars, panelVars, pin_set, pin_clr, Then
<1>0. TypeOK /\ {"CS", "SCK", "MOSI", "EXTCOMIN"} \subseteq Pins /\ frame \in Nat
  BY LcdAssumption DEF LcdControl, TypeOK, Pins, LastFrame
<1>1. CASE Configure \/ lcd_reset
  <2>1. frame' = 0 /\ at' \notin Transferring
    BY <1>1 DEF Configure, lcd_reset, LcdControl, Resetting, Transferring
  <2> QED
    BY <2>1 DEF LinesPainted, Finished
<1>2. CASE Deselect
  <2>1. at = "byte" /\ at' = "vcom" /\ Drive("CS", 0) /\ frame' = frame
    BY <1>2 DEF Deselect
  <2>2. pin.CS = 1
    BY <2>1 DEF BitsArrive, Transferring
  <2>3. shown' = Execute
    BY <1>0, <2>1, <2>2, PanelIs
  <2>4. Finished' = frame
    BY <2>1 DEF Finished, Transferring
  <2> QED
    BY <1>2, <2>3, <2>4, PaintsFrame DEF LinesPainted
<1>3. CASE ~(Configure \/ lcd_reset \/ Deselect)
  <2>1. Finished' = Finished
    BY <1>0, <1>3 DEF Next, Select, NextByte, ClockLow, Data, ClockHigh, ByteDone,
       toggle_vcom, vars, Finished, Transferring
  <2>2. shown' = shown
    <3>1. CASE Select
      <4>1. pin.CS = 0 /\ Drive("CS", 1)
        BY <3>1 DEF Select, BitsArrive
      <4> QED
        BY <1>0, <4>1, PanelIs
    <3>2. CASE ClockLow \/ ByteDone
      <4>1. Drive("SCK", 0)
        BY <3>2 DEF ClockLow, ByteDone
      <4> QED
        BY <1>0, <4>1, PanelIs
    <3>3. CASE ClockHigh
      <4>1. pin.CS = 1 /\ pin.SCK = 0 /\ Drive("SCK", 1)
        BY <3>3 DEF ClockHigh, BitsArrive, LcdControl, Transferring
      <4> QED
        BY <1>0, <4>1, PanelIs
    <3>4. CASE Data
      <4>1. PICK level \in {0, 1} : Drive("MOSI", level)
        BY <3>4 DEF Data
      <4> QED
        BY <1>0, <4>1, PanelIs
    <3>5. CASE toggle_vcom
      <4>1. PICK level \in {0, 1} : Drive("EXTCOMIN", level)
        BY <3>5 DEF toggle_vcom
      <4> QED
        BY <1>0, <4>1, PanelIs
    <3>6. CASE NextByte \/ UNCHANGED vars
      BY <3>6 DEF NextByte, vars
    <3> QED
      BY <1>3, <3>1, <3>2, <3>3, <3>4, <3>5, <3>6 DEF Next
  <2> QED
    BY <2>1, <2>2 DEF LinesPainted
<1> QED
  BY <1>1, <1>2, <1>3

(* The panel gets exactly the bytes that ClearScreen, set_line and         *)
(* setBlinkMode send, and shows the lines painted so far: at every moment  *)
(* of lcd_init, on a panel of any size, from any levels of the pins.       *)
THEOREM LcdInvariant == Spec => []LcdInv
<1> DEFINE Base == LcdControl /\ BitsArrive /\ LinesPainted
<1>1. Init => Base
  <2> SUFFICES ASSUME Init PROVE Base
    OBVIOUS
  <2>1. TypeOK
    BY LcdAssumption DEF Init, TypeOK, Steps, LastFrame
  <2>2. LcdControl
    BY <2>1 DEF Init, LcdControl, Resetting
  <2>3. BitsArrive
    BY DEF Init, BitsArrive, Transferring
  <2>4. LinesPainted
    BY DEF Init, LinesPainted, Finished, Transferring
  <2> QED
    BY <2>2, <2>3, <2>4
<1>2. Base /\ [Next]_vars => Base'
  BY LcdStep, BitsStep, PaintStep
<1>3. Base => LcdInv
  <2> SUFFICES ASSUME Base PROVE FramesArrive
    BY DEF LcdInv
  <2>1. at = "vcom" => Received = Frame(frame) /\ Len(rx) % 8 = 0
    BY BytesArrive DEF BitsArrive
  <2>2. at = "byte" => Received = SubSeq(Frame(frame), 1, byte)
    BY BytesArrive
  <2> QED
    BY <2>1, <2>2 DEF FramesArrive
<1> QED
  BY <1>1, <1>2, <1>3, PTL DEF Spec

(* While SCK is high in a transfer, lcd.c moves neither MOSI nor CS. *)
THEOREM SignalsHoldStill == Spec => HoldsStill
<1> DEFINE Still == pin.CS = 1 /\ pin.SCK = 1 /\ frame > 0
                      => pin'.MOSI = pin.MOSI /\ pin'.CS = 1
<1>1. LcdControl /\ [Next]_vars => [Still]_vars
  <2> SUFFICES ASSUME LcdControl, Next, pin.CS = 1, pin.SCK = 1, frame > 0
               PROVE  pin'.MOSI = pin.MOSI /\ pin'.CS = 1
    OBVIOUS
  <2> USE DEF pin_set, pin_clr
  <2>0. TypeOK /\ pin \in [Pins -> {0, 1}] /\ at \notin Resetting /\ frame \in 1 .. LastFrame
    BY DEF LcdControl, TypeOK
  <2>1. CASE NextByte
    BY <2>1 DEF NextByte
  <2>2. CASE Select
    BY <2>0, <2>2, DriveIs DEF Select, Pins
  <2>3. CASE ClockLow \/ ClockHigh \/ ByteDone
    <3>1. PICK level \in {0, 1} : Drive("SCK", level)
      BY <2>3 DEF ClockLow, ClockHigh, ByteDone
    <3> QED
      BY <2>0, <3>1, DriveIs DEF Pins
  <2>4. CASE toggle_vcom
    <3>1. PICK level \in {0, 1} : Drive("EXTCOMIN", level)
      BY <2>4 DEF toggle_vcom
    <3> QED
      BY <2>0, <3>1, DriveIs DEF Pins
  <2>5. ~Data
    BY DEF Data, LcdControl
  <2>6. ~Deselect
    <3>1. Len(Frame(frame)) # 0
      BY <2>0, FrameType
    <3> QED
      BY <3>1 DEF Deselect, LcdControl
  <2>7. ~Configure /\ ~lcd_reset
    BY <2>0 DEF Configure, lcd_reset, Resetting
  <2> QED
    BY <2>1, <2>2, <2>3, <2>4, <2>5, <2>6, <2>7 DEF Next
<1> QED
  BY <1>1, LcdControlled, PTL DEF Spec, HoldsStill

(* toggle_vcom inverts EXTCOMIN after every transfer but the first. *)
THEOREM CommonInverts == Spec => ComInverts
<1> DEFINE Inverts == at = "vcom" /\ at' # "vcom" /\ frame > 1
                        => pin'.EXTCOMIN # pin.EXTCOMIN
<1>1. LcdControl /\ [Next]_vars => [Inverts]_vars
  <2> SUFFICES ASSUME LcdControl, Next, at = "vcom", frame > 1
               PROVE  pin'.EXTCOMIN # pin.EXTCOMIN
    OBVIOUS
  <2>1. toggle_vcom
    BY DEF Next, Configure, lcd_reset, Select, NextByte, Deselect, ClockLow, Data,
           ClockHigh, ByteDone
  <2>2. TypeOK /\ vcom \in {0, 1} /\ pin.EXTCOMIN = vcom
    BY DEF LcdControl, TypeOK
  <2>3. Drive("EXTCOMIN", 1 - vcom) /\ 1 - vcom \in {0, 1}
    BY <2>1, <2>2 DEF toggle_vcom, pin_set, pin_clr
  <2>4. pin'.EXTCOMIN = 1 - vcom
    BY <2>2, <2>3, DriveIs DEF Pins
  <2> QED
    BY <2>2, <2>4
<1> QED
  BY <1>1, LcdControlled, PTL DEF Spec, ComInverts
=============================================================================
