--------------------------- MODULE VendorProtocol ---------------------------
(***************************************************************************)
(* What a host can say on the vendor interface and how long the answer is: *)
(* vendor_protocol_build_reply (vendor_protocol.c) and the queries that    *)
(* process_vendor_command answers itself.  The bytes of a reply are left   *)
(* out.                                                                    *)
(*                                                                         *)
(* A command is what the firmware looks at of a packet: its length, the    *)
(* first and the fourth byte, the address in bytes 12 to 15, and whether   *)
(* it starts with one of the five magic words.                             *)
(***************************************************************************)
EXTENDS Naturals

ReplyMax        == 80       \* PRO2_VENDOR_REPLY_MAX
DiagnosticSize  == 64       \* PRO2_USB_DIAGNOSTIC_REPORT_SIZE and the like
PacketSize      == 64       \* the packet size of endpoint 0x82

Packets == [size : 0..64, magic : BOOLEAN, first : 0..255, fourth : 0..255,
            address : Nat]

IsDiagnostic(c) == c.size >= 4 /\ c.magic

Argument(c) == IF c.size > 3 THEN c.fourth ELSE 0

-----------------------------------------------------------------------------
(* flash_length: how much factory data is served of a block.                *)
FlashLength(address) ==
    CASE address = 77888 -> 16          \* 0x13040
      [] address = 78080 -> 24          \* 0x13100
      [] address = 77920 -> 32          \* 0x13060
      [] OTHER           -> 64

IsFlashRead(c) == c.size >= 16 /\ c.first = 2

Unanswered(c) == (c.first = 12 /\ Argument(c) = 2) \/ c.first = 16

(* vendor_protocol_build_reply: the answer to a packet that is not empty,   *)
(* were there room for any.                                                 *)
WholeAnswer(c) ==
    CASE IsFlashRead(c)                     -> 16 + FlashLength(c.address)
      [] Unanswered(c)                      -> 0
      [] c.first = 3 /\ Argument(c) = 13    -> 12
      [] c.first = 3 /\ Argument(c) = 1     -> 16
      [] c.first = 21 /\ Argument(c) = 1    -> 17
      [] c.first = 21 /\ Argument(c) = 2    -> 25
      [] c.first = 21 /\ Argument(c) = 3    -> 9
      [] c.first = 17                       -> 37
      [] c.first = 1 /\ Argument(c) = 12    -> 12
      [] OTHER                              -> 8

(* vendor_reply_len: an answer that does not fit in the buffer is not given. *)
ReplyLength(c) ==
    IF c.size = 0 THEN 0
    ELSE IF IsDiagnostic(c) THEN DiagnosticSize
    ELSE IF WholeAnswer(c) > ReplyMax THEN 0
    ELSE WholeAnswer(c)

(* The packets a reply is sent in, as try_send_vendor cuts it.              *)
Chunks(c) == (ReplyLength(c) + PacketSize - 1) \div PacketSize
=============================================================================
