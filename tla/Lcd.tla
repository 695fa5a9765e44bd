-------------------------------- MODULE Lcd --------------------------------
(***************************************************************************)
(* The driver of the memory LCD (src/src/lcd.c): lcd_init, which clears    *)
(* the panel and paints it line by line over three GPIO pins that it moves *)
(* itself, and toggle_vcom, which inverts the panel's common voltage       *)
(* between any two transfers.  One action per write to a pin that the      *)
(* panel can tell apart.                                                   *)
(*                                                                         *)
(* The panel is external: while CS is high it samples MOSI at each rising  *)
(* edge of SCK, and it carries out what it got when CS falls.              *)
(***************************************************************************)
EXTENDS Integers, Sequences

CONSTANTS
  Lines,     \* 176
  Half       \* 44: bytes in either half of a line

ASSUME LcdAssumption == Lines \in 1 .. 255 /\ Half \in Nat \ {0}

VARIABLES
  pin,       \* the levels of the GPIO outputs
  vcom,
  at,        \* the step that comes next
  frame,     \* the transfers so far; the one under way
  byte,      \* the bytes of it that Write_Data was called for
  dh, i,     \* the argument and the local of Write_Data
  rx,        \* the panel: the bits since CS rose
  shown      \* the panel: what each line shows

panelVars  == <<rx, shown>>
writeVars  == <<frame, byte, dh, i>>
vars       == <<pin, vcom, at, writeVars, panelVars>>

-----------------------------------------------------------------------------
(* The transfers *)

JDI_CMD_ALL_CLEAR    == 32     \* 0x20
LCD_COLOR_CMD_UPDATE == 144    \* 0x90
Modes == [NONE |-> 0, WHITE |-> 24, BLACK |-> 16, INVERSE |-> 20]

Line == [n \in 1 .. Half |-> 204] \o [n \in 1 .. Half |-> 51]

ClearScreen    == <<JDI_CMD_ALL_CLEAR, 0>>

set_line(line) == <<LCD_COLOR_CMD_UPDATE, (line + 1) % 256>> \o Line \o <<0, 0>>

setBlinkMode(mode) ==
  <<IF mode \in DOMAIN Modes THEN Modes[mode] ELSE Modes.NONE, 0>>

(* What lcd_init sends, in this order; the call of invertDisplay is dead. *)
(* Mutant: the loop ends one line early.                                   *)
LastFrameEarly == Lines + 1
LastFrame == Lines + 2
Frame(f) ==
  IF f = 1 THEN ClearScreen
  ELSE IF f < LastFrame THEN set_line(f - 2) ELSE setBlinkMode("NONE")

-----------------------------------------------------------------------------
(* The panel *)

(* The bytes it got, each with its most significant bit first. *)
ByteAt(n) ==
  LET b(k) == rx[8 * (n - 1) + k] IN
  128 * b(1) + 64 * b(2) + 32 * b(3) + 16 * b(4) + 8 * b(5) + 4 * b(6) + 2 * b(7) + b(8)

Received == [n \in 1 .. Len(rx) \div 8 |-> ByteAt(n)]

Blank   == << >>
Unknown == <<-1>>

(* A transfer that is cut short or names no line changes nothing. *)
Execute ==
  LET r == Received IN
  CASE Len(r) >= 2 /\ r[1] = JDI_CMD_ALL_CLEAR -> [n \in 1 .. Lines |-> Blank]
    [] Len(r) = 2 * Half + 4 /\ r[1] = LCD_COLOR_CMD_UPDATE /\ r[2] \in 1 .. Lines ->
         [shown EXCEPT ![r[2]] = SubSeq(r, 3, 2 * Half + 2)]
    [] OTHER -> shown

Rises(p) == pin[p] = 0 /\ pin'[p] = 1
Falls(p) == pin[p] = 1 /\ pin'[p] = 0

Panel ==
  /\ rx' = CASE Rises("CS")                  -> << >>
             [] pin.CS = 1 /\ Rises("SCK")   -> Append(rx, pin.MOSI)
             [] OTHER                        -> rx
  /\ shown' = IF Falls("CS") THEN Execute ELSE shown

(* mdx_gpio_set, and what the panel makes of it. *)
Drive(p, level) == pin' = [pin EXCEPT ![p] = level] /\ Panel
pin_set(p) == Drive(p, 1)
pin_clr(p) == Drive(p, 0)

Then(step) == at' = step

-----------------------------------------------------------------------------
(* lcd_init *)

(* The pins become outputs; EXTMODE and EXTCOMIN are set. *)
Configure ==
  /\ at = "configure" /\ Then("reset")
  /\ pin' = [pin EXCEPT !.EXTMODE = 1, !.EXTCOMIN = 1]
  /\ UNCHANGED <<vcom, writeVars, panelVars>>

lcd_reset ==
  /\ \/ at = "reset" /\ Then("reset_disp") /\ pin_clr("CS")
     \/ at = "reset_disp" /\ Then("disp") /\ pin_clr("DISP")
     \/ at = "disp" /\ Then("select") /\ pin_set("DISP")
  /\ UNCHANGED <<vcom, writeVars>>

(* The start of a transfer and the call of Write_Data for its next byte. *)
Select ==
  /\ at = "select" /\ Then("byte") /\ pin_set("CS")
  /\ frame' = frame + 1 /\ byte' = 0
  /\ UNCHANGED <<vcom, dh, i>>

NextByte ==
  /\ at = "byte" /\ byte < Len(Frame(frame)) /\ Then("low")
  /\ byte' = byte + 1 /\ dh' = Frame(frame)[byte'] /\ i' = 0
  /\ UNCHANGED <<pin, vcom, frame, panelVars>>

(* Write_Data *)

ClockLow ==
  /\ at = "low" /\ i < 8 /\ Then("data") /\ pin_clr("SCK")
  /\ UNCHANGED <<vcom, writeVars>>

(* Mutant: the bits in the other order.                                    *)
DataLsbFirst ==
  /\ at = "data" /\ Then("high")
  /\ IF dh % 2 = 1 THEN pin_set("MOSI") ELSE pin_clr("MOSI")
  /\ dh' = dh \div 2
  /\ UNCHANGED <<vcom, frame, byte, i>>
Data ==
  /\ at = "data" /\ Then("high")
  /\ IF dh >= 128 THEN pin_set("MOSI") ELSE pin_clr("MOSI")
  /\ dh' = (2 * dh) % 256
  /\ UNCHANGED <<vcom, frame, byte, i>>

ClockHigh ==
  /\ at = "high" /\ Then("low") /\ pin_set("SCK")
  /\ i' = i + 1
  /\ UNCHANGED <<vcom, frame, byte, dh>>

(* Mutant: the clock is left high.                                         *)
ByteDoneHigh ==
  /\ at = "low" /\ i = 8 /\ Then("byte")
  /\ UNCHANGED <<pin, panelVars, vcom, writeVars>>
ByteDone ==
  /\ at = "low" /\ i = 8 /\ Then("byte") /\ pin_clr("SCK")
  /\ UNCHANGED <<vcom, writeVars>>

(* The end of a transfer. *)
Deselect ==
  /\ at = "byte" /\ byte = Len(Frame(frame)) /\ Then("vcom")
  /\ pin_clr("CS")
  /\ UNCHANGED <<vcom, writeVars>>

(* Mutant: vcom is not kept up to date when it falls.                      *)
toggle_vcom_stale ==
  /\ at = "vcom"
  /\ IF vcom = 1 THEN pin_clr("EXTCOMIN") ELSE pin_set("EXTCOMIN")
  /\ vcom' = 1
  /\ Then(IF frame < LastFrame THEN "select" ELSE "done")
  /\ UNCHANGED writeVars
toggle_vcom ==
  /\ at = "vcom"
  /\ IF vcom = 1 THEN pin_clr("EXTCOMIN") ELSE pin_set("EXTCOMIN")
  /\ vcom' = 1 - vcom
  /\ Then(IF frame < LastFrame THEN "select" ELSE "done")
  /\ UNCHANGED writeVars

-----------------------------------------------------------------------------
(* Nothing is known of the levels that the pins and the panel start with. *)
Pins == {"EXTMODE", "EXTCOMIN", "CS", "SCK", "MOSI", "DISP"}

Init ==
  /\ pin \in [Pins -> {0, 1}] /\ vcom = 0
  /\ at = "configure" /\ frame = 0 /\ byte = 0 /\ dh = 0 /\ i = 0
  /\ rx = << >> /\ shown = [n \in 1 .. Lines |-> Unknown]

Next ==
  \/ Configure \/ lcd_reset
  \/ Select \/ NextByte \/ Deselect
  \/ ClockLow \/ Data \/ ClockHigh \/ ByteDone
  \/ toggle_vcom

Spec == Init /\ [][Next]_vars

FairSpec == Spec /\ WF_vars(Next)

-----------------------------------------------------------------------------
(* Properties *)

Steps == {"configure", "reset", "reset_disp", "disp", "select", "byte", "low",
          "data", "high", "vcom", "done"}

TypeOK ==
  /\ pin \in [Pins -> {0, 1}] /\ vcom \in {0, 1} /\ at \in Steps
  /\ frame \in 0 .. LastFrame /\ byte \in 0 .. 2 * Half + 4
  /\ dh \in 0 .. 255 /\ i \in 0 .. 8
  /\ rx \in Seq({0, 1})

(* Write_Data, bit by bit, brings the panel exactly the bytes that         *)
(* ClearScreen, set_line and setBlinkMode hand to it, whole and in order,  *)
(* whatever the levels of the pins were before the first transfer.         *)
FramesArrive ==
  /\ at = "vcom" => Received = Frame(frame) /\ Len(rx) % 8 = 0
  /\ at = "byte" => Received = SubSeq(Frame(frame), 1, byte)

(* The loop of lcd_init paints every line once: after the clear and k      *)
(* transfers of set_line the first k lines show the pattern and the others *)
(* are blank, and lcd_init returns with the whole panel painted.           *)
Transferring == {"byte", "low", "data", "high"}
Finished == IF at \in Transferring THEN frame - 1 ELSE frame

LinesPainted ==
  Finished > 0 =>
    shown = [n \in 1 .. Lines |-> IF n < Finished THEN Line ELSE Blank]

Resetting == {"configure", "reset", "reset_disp", "disp"}

(* The inductive invariant behind the theorems of LcdProofs: the clock is  *)
(* low wherever Write_Data or the end of a transfer of lcd.c moves another *)
(* pin, and from the first toggle_vcom on vcom is the level of EXTCOMIN.   *)
LcdControl ==
  /\ TypeOK
  /\ at \in Resetting => frame = 0
  /\ frame = 0 => at \in Resetting \cup {"select"} /\ vcom = 0
  /\ at = "select" => frame < LastFrame
  /\ at \in {"data", "high"} => pin.SCK = 0 /\ i < 8
  /\ at = "byte" => byte = 0 \/ pin.SCK = 0
  /\ IF frame > 1 \/ at \in {"select", "done"}
       THEN frame > 0 => pin.EXTCOMIN = vcom ELSE vcom = 0

(* Bit by bit: Write_Data has brought the panel the bits of the bytes it   *)
(* was called for up to now, and the bits that the current byte still      *)
(* lacks are in dh, or on MOSI while the clock is about to rise.           *)
Weight == <<128, 64, 32, 16, 8, 4, 2, 1>>
Bit(b, k) == (b \div Weight[k]) % 2

Sent == IF at \in {"low", "data", "high"} THEN 8 * (byte - 1) + i ELSE 8 * byte

BitsArrive ==
  /\ at \in {"reset_disp", "disp", "select", "vcom", "done"} => pin.CS = 0
  /\ at \in Transferring => pin.CS = 1 /\ byte <= Len(Frame(frame))
  /\ at = "vcom" => byte = Len(Frame(frame))
  /\ at \in Transferring \cup {"vcom"} =>
       /\ Len(rx) = Sent
       /\ \A n \in 1 .. byte, k \in 1 .. 8 : 8 * (n - 1) + k <= Sent =>
            rx[8 * (n - 1) + k] = Bit(Frame(frame)[n], k)
  /\ at \in {"low", "data"} =>
       /\ byte > 0
       /\ \A k \in 1 .. 8 - i : Bit(dh, k) = Bit(Frame(frame)[byte], k + i)
  /\ at = "high" =>
       /\ byte > 0 /\ pin.MOSI = Bit(Frame(frame)[byte], i + 1)
       /\ \A k \in 1 .. 7 - i : Bit(dh, k) = Bit(Frame(frame)[byte], k + i + 1)

(* What holds of every state of lcd_init; inductive. *)
LcdInv == LcdControl /\ BitsArrive /\ FramesArrive /\ LinesPainted

(* MOSI and CS keep still while SCK is high in a transfer: neither a bit   *)
(* nor a transfer of lcd.c can be read twice or cut.                       *)
HoldsStill ==
  [][pin.CS = 1 /\ pin.SCK = 1 /\ frame > 0
       => pin'.MOSI = pin.MOSI /\ pin'.CS = 1]_vars

(* toggle_vcom inverts EXTCOMIN between any two transfers and after the    *)
(* last, so no voltage stays on the panel.  Not after the first one:       *)
(* lcd_init has set the pin already (line 213) while vcom is still 0.      *)
ComInverts ==
  [][at = "vcom" /\ at' # "vcom" /\ frame > 1
       => pin'.EXTCOMIN # pin.EXTCOMIN]_vars

(* lcd_init ends, and then every line shows the pattern. *)
Painted ==
  <>(at = "done" /\ \A n \in 1 .. Lines : shown[n] = Line)

=============================================================================
