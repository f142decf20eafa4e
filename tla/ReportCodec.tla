----------------------------- MODULE ReportCodec ----------------------------
(***************************************************************************)
(* The conversions of pro2_protocol.c, from an FD2 report of the           *)
(* controller to the two USB reports: 12-bit packing, the buttons, and     *)
(* the axes about a centre with a dead zone.  A set of buttons on the wire *)
(* is the set of its bits.                                                 *)
(***************************************************************************)
EXTENDS Integers, Sequences

AxisCenter == 2048
AxisMax    == 4095
PhysicalRange  == 1600      \* AXIS_PHYSICAL_RANGE
CenterMaxDelta == 256       \* AXIS_CENTER_MAX_DELTA

-----------------------------------------------------------------------------
(* Two 12-bit values in three bytes: unpack12_x, unpack12_y and pack12.     *)
Unpack12(p) == [x |-> p[1] + (p[2] % 16) * 256,
                y |-> (p[2] \div 16) + p[3] * 16]

Pack12(v) == << v.x % 256,
                ((v.x \div 256) % 16) + (v.y % 16) * 16,
                (v.y \div 16) % 256 >>

-----------------------------------------------------------------------------
(* Axes.                                                                    *)
NearCenter(v) ==
    v - AxisCenter <= CenterMaxDelta /\ AxisCenter - v <= CenterMaxDelta

(* How far a deflection goes beyond the dead zone, of target.               *)
Scaled(magnitude, deadzone, target) ==
    LET usable == PhysicalRange - deadzone
    IN  ((magnitude - deadzone) * target + usable \div 2) \div usable

(* Mutant of Clipped: a stick pushed further than its range is not held.    *)
Unclipped(v, target) == v

Clipped(v, target) == IF v > target THEN target ELSE v

(* normalize_axis.                                                          *)
Normalize(v, center, deadzone) ==
    LET low == AxisCenter
        high == AxisMax - AxisCenter
    IN  IF v - center < -deadzone
          THEN AxisCenter - Clipped(Scaled(center - v, deadzone, low), low)
        ELSE IF v - center > deadzone
          THEN AxisCenter + Clipped(Scaled(v - center, deadzone, high), high)
        ELSE AxisCenter

-----------------------------------------------------------------------------
(* Buttons.  The bit of each in an FD2 report, decode_buttons, and in bytes *)
(* 5 to 8 of report 0x05, pro2_make_usb_report_05.                          *)
Fd2Bit == [Y |-> 0, X |-> 1, B |-> 2, A |-> 3, R |-> 6, ZR |-> 7,
           MINUS |-> 8, PLUS |-> 9, RSTICK |-> 10, LSTICK |-> 11,
           HOME |-> 12, CAPTURE |-> 13, C |-> 14,
           DDOWN |-> 16, DUP |-> 17, DRIGHT |-> 18, DLEFT |-> 19,
           L |-> 22, ZL |-> 23, GR |-> 24, GL |-> 25]

Buttons == DOMAIN Fd2Bit

DecodeButtons(bits) == {b \in Buttons : Fd2Bit[b] \in bits}

NativeByte == [Y |-> 0, X |-> 0, B |-> 0, A |-> 0, R |-> 0, ZR |-> 0,
               MINUS |-> 1, PLUS |-> 1, RSTICK |-> 1, LSTICK |-> 1,
               HOME |-> 1, CAPTURE |-> 1, C |-> 1,
               DDOWN |-> 2, DUP |-> 2, DRIGHT |-> 2, DLEFT |-> 2,
               L |-> 2, ZL |-> 2, GR |-> 3, GL |-> 3]

NativeMask == [Y |-> 0, X |-> 1, B |-> 2, A |-> 3, R |-> 6, ZR |-> 7,
               MINUS |-> 0, PLUS |-> 1, RSTICK |-> 2, LSTICK |-> 3,
               HOME |-> 4, CAPTURE |-> 5, C |-> 6,
               DDOWN |-> 0, DUP |-> 1, DRIGHT |-> 2, DLEFT |-> 3,
               L |-> 6, ZL |-> 7, GR |-> 0, GL |-> 1]

(* Mutant of NativeBits: the two shoulder buttons of a side are swapped.    *)
NativeBitsSwapped(buttons) ==
    {IF b = "ZL" THEN 22 ELSE IF b = "L" THEN 23
     ELSE 8 * NativeByte[b] + NativeMask[b] : b \in buttons}

NativeBits(buttons) == {8 * NativeByte[b] + NativeMask[b] : b \in buttons}

(* usb_button_order of pro2_make_usb_report_09: the standard gamepad's.     *)
GenericOrder == << "B", "A", "Y", "X", "L", "R", "ZL", "ZR", "MINUS", "PLUS",
                   "LSTICK", "RSTICK", "DUP", "DDOWN", "DLEFT", "DRIGHT",
                   "HOME", "CAPTURE", "GR", "GL", "C" >>

GenericBits(buttons) ==
    {i - 1 : i \in {j \in DOMAIN GenericOrder : GenericOrder[j] \in buttons}}
=============================================================================
