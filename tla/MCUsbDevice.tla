---------------------------- MODULE MCUsbDevice -----------------------------
(* A small instance of UsbDevice for TLC: one packet of each kind that      *)
(* VendorProtocol tells apart.                                              *)
EXTENDS UsbDevice, VendorProtocol

Packet(size, magic, first, fourth, address) ==
    [size |-> size, magic |-> magic, first |-> first, fourth |-> fourth,
     address |-> address]

(* A read of the serial number (0x13000), a request for a report, a         *)
(* command that is not answered, a query, and a packet of length zero.      *)
MCCommands ==
    {Packet(16, FALSE, 2, 1, 77824), Packet(8, FALSE, 3, 13, 0),
     Packet(8, FALSE, 16, 0, 0), Packet(4, TRUE, 80, 71, 0),
     Packet(0, FALSE, 0, 0, 0)}

MCDiagnostic == {c \in MCCommands : IsDiagnostic(c)}
MCLong       == {c \in MCCommands : Chunks(c) = 2}
MCSilent     == {c \in MCCommands : Chunks(c) = 0}
MCEmpty      == {c \in MCCommands : c.size = 0}
=============================================================================
