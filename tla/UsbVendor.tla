----------------------------- MODULE UsbVendor ------------------------------
(***************************************************************************)
(* The vendor interface (MI_01) of usb_nintendo.c.  The host writes a      *)
(* command to endpoint 0x02 and reads the reply from endpoint 0x82 in      *)
(* chunks of at most one packet.  The two endpoints share one VDMA and     *)
(* FIFO: an OUT transfer that is armed while an IN transfer is in flight   *)
(* corrupts it.                                                            *)
(*                                                                         *)
(* Everything here runs in the interrupt handler of the USB controller, so *)
(* a callback is one action.  What makes it hard is that the firmware      *)
(* keeps its own flags of what the controller is doing, that bus events    *)
(* change both, and that the host may stop reading at any time.            *)
(***************************************************************************)
EXTENDS Naturals

CONSTANTS
    Commands,       \* the commands a host sends
    NoCommand,      \* "no command"
    Diagnostic,     \* those that are diagnostic queries (P2DG, P2DU, ...)
    Long,           \* those whose reply takes two chunks
    Silent,         \* those that have no reply
    Empty           \* the packet of length zero

ASSUME UsbVendorAssumption ==
    /\ NoCommand \notin Commands
    /\ Diagnostic \subseteq Commands
    /\ Long \subseteq Commands
    /\ Silent \subseteq Commands \ Long
    /\ Empty \subseteq Silent \ Diagnostic

VARIABLES
    port,           \* the flags and buffers of the firmware and the endpoints
    bus,            \* "default", or "configured" by the host: endpoints open
    suspended,      \* the host suspended the bus
    hostReads,      \* the host's program has the interface open and reads
    broken          \* a suspend hit a chunk in flight since configuration

vars == <<port, bus, suspended, hostReads, broken>>

ReplyLen == [c \in Commands |-> IF c \in Silent THEN 0
                                ELSE IF c \in Long THEN 2 ELSE 1]

Ports == [configured : BOOLEAN,
          busy : BOOLEAN,           \* vendor_busy
          armed : BOOLEAN,          \* vendor_out_armed
          command : Commands \cup {NoCommand},  \* whose reply vendor_reply is
          len : 0..2,               \* vendor_reply_len, in chunks
          offset : 0..2,            \* vendor_reply_offset, in chunks
          pending : Commands \cup {NoCommand},  \* pending_vendor_out
          outArmed : BOOLEAN,       \* endpoint 0x02 can receive
          inFlight : 0..2]          \* the chunk in endpoint 0x82, 0 if none

TypeOK ==
    /\ port \in Ports
    /\ bus \in {"default", "configured"}
    /\ suspended \in BOOLEAN /\ hostReads \in BOOLEAN /\ broken \in BOOLEAN

(* usb_nintendo_init.                                                       *)
NewPort == [configured |-> FALSE, busy |-> FALSE, armed |-> FALSE,
            command |-> NoCommand, len |-> 0, offset |-> 0,
            pending |-> NoCommand, outArmed |-> FALSE, inFlight |-> 0]

Init ==
    /\ port = NewPort
    /\ bus = "default" /\ suspended = FALSE
    /\ hostReads \in BOOLEAN /\ broken = FALSE

-----------------------------------------------------------------------------
(* The functions the callbacks are made of, from port to port.  A transfer  *)
(* can be started on an open endpoint.                                      *)

(* Mutant of ArmOut: the next OUT does not wait for the reply to be read.   *)
ArmOutAtOnce(p, open) ==
    IF ~p.configured \/ p.armed \/ ~open THEN p
    ELSE [p EXCEPT !.armed = TRUE, !.outArmed = TRUE]

(* arm_vendor_out.                                                          *)
ArmOut(p, open) ==
    IF ~p.configured \/ p.busy \/ p.armed \/ ~open THEN p
    ELSE [p EXCEPT !.armed = TRUE, !.outArmed = TRUE]

(* Mutant of TrySend: one chunk past the end.                               *)
TrySendPastEnd(p) ==
    IF p.busy \/ p.offset > p.len \/ ~p.configured THEN p
    ELSE [p EXCEPT !.offset = @ + 1, !.busy = TRUE, !.inFlight = p.offset + 1]

(* try_send_vendor: the next chunk, if the reply has one.                   *)
TrySend(p) ==
    IF p.busy \/ p.offset >= p.len \/ ~p.configured THEN p
    ELSE [p EXCEPT !.offset = @ + 1, !.busy = TRUE, !.inFlight = p.offset + 1]

(* The head of process_vendor_command: a reply scheduled to its end counts  *)
(* as read, and a diagnostic query replaces one that is not.                *)
Freed(c, p) ==
    IF p.busy /\ p.offset >= p.len THEN [p EXCEPT !.busy = FALSE]
    ELSE IF p.busy /\ c \in Diagnostic
      THEN [p EXCEPT !.busy = FALSE, !.len = 0, !.offset = 0]
    ELSE p

(* Mutant of Process: the new reply starts where the last one ended.        *)
ProcessKeepsOffset(c, p) ==
    LET q == Freed(c, p) IN
    IF q.busy
      THEN [q EXCEPT !.pending = IF @ = NoCommand /\ c \notin Empty
                                     THEN c ELSE @]
      ELSE TrySend([q EXCEPT !.command = c, !.len = ReplyLen[c]])

(* process_vendor_command: the command waits, is dropped or is answered.    *)
Process(c, p) ==
    LET q == Freed(c, p) IN
    IF q.busy
      THEN [q EXCEPT !.pending = IF @ = NoCommand /\ c \notin Empty
                                     THEN c ELSE @]
      ELSE TrySend([q EXCEPT !.command = c, !.len = ReplyLen[c], !.offset = 0])

(* The command that waited is answered once the reply before it was sent.   *)
ProcessPending(p) ==
    IF ~p.busy /\ p.pending # NoCommand
      THEN Process(p.pending, [p EXCEPT !.pending = NoCommand])
      ELSE p

-----------------------------------------------------------------------------
Active == bus = "configured" /\ ~suspended

(* vendor_out_cb: endpoint 0x02 has received command c.                     *)
OutCb(c) ==
    /\ Active /\ port.outArmed
    /\ port' = ArmOut(Process(c, [port EXCEPT !.outArmed = FALSE,
                                              !.armed = FALSE]), TRUE)
    /\ UNCHANGED <<bus, suspended, hostReads, broken>>

(* Mutant of InCb: only the end of a reply that waited arms the next OUT.   *)
InCbUnarmed ==
    /\ Active /\ hostReads /\ port.inFlight # 0
    /\ port' = ProcessPending(TrySend([port EXCEPT !.inFlight = 0,
                                                   !.busy = FALSE]))
    /\ UNCHANGED <<bus, suspended, hostReads, broken>>

(* vendor_in_cb: the host has read the chunk in endpoint 0x82.              *)
InCb ==
    /\ Active /\ hostReads /\ port.inFlight # 0
    /\ port' = ArmOut(ProcessPending(TrySend([port EXCEPT !.inFlight = 0,
                                                          !.busy = FALSE])), TRUE)
    /\ UNCHANGED <<bus, suspended, hostReads, broken>>

(* The events of usb_event that are not just counted.                       *)
Configured ==
    /\ bus = "default" /\ ~suspended
    /\ bus' = "configured"
    /\ port' = ArmOut([NewPort EXCEPT !.configured = TRUE], TRUE)
    /\ broken' = FALSE
    /\ UNCHANGED <<suspended, hostReads>>

(* USBD_EVENT_RESET and USBD_EVENT_DISCONNECTED; the endpoints are closed.  *)
Reset ==
    /\ bus' = "default" /\ suspended' = FALSE
    /\ port' = [port EXCEPT !.configured = FALSE, !.busy = FALSE,
                            !.armed = FALSE, !.outArmed = FALSE, !.inFlight = 0]
    /\ broken' = FALSE
    /\ UNCHANGED hostReads

(* The transfers stay in the endpoints.                                     *)
Suspend ==
    /\ ~suspended /\ suspended' = TRUE
    /\ port' = [port EXCEPT !.configured = FALSE, !.busy = FALSE, !.armed = FALSE]
    /\ broken' = (broken \/ port.inFlight # 0)
    /\ UNCHANGED <<bus, hostReads>>

Resume ==
    /\ suspended /\ suspended' = FALSE
    /\ port' = ArmOut([port EXCEPT !.configured = TRUE], bus = "configured")
    /\ UNCHANGED <<bus, hostReads, broken>>

(* A program on the host opens or closes the interface.                     *)
HostOpensOrCloses ==
    /\ hostReads' = ~hostReads
    /\ UNCHANGED <<port, bus, suspended, broken>>

Next ==
    \/ \E c \in Commands : OutCb(c)
    \/ InCb \/ Configured \/ Reset \/ Suspend \/ Resume \/ HostOpensOrCloses

Spec == Init /\ [][Next]_vars

-----------------------------------------------------------------------------
(* Properties.                                                              *)

(* The shared VDMA never serves both directions (the comment in             *)
(* vendor_out_cb, the README), until a suspend leaves a chunk in flight.    *)
EP2Serialized ==
    ~broken => ~(port.outArmed /\ port.inFlight # 0)

(* No command is ever queued behind a reply or dropped: the host cannot     *)
(* send one before the reply is read, even after a suspend, so the pending  *)
(* command and the drop counter of process_vendor_command are never used.   *)
NothingWaits == port.pending = NoCommand

(* The port is deaf only while endpoint 0x82 holds a chunk the host has not *)
(* fetched: whatever the replies, suspends and resumes before, every other  *)
(* way out of a callback leaves endpoint 0x02 armed (arm_vendor_out).       *)
OnlyAChunkWaits ==
    Active /\ port.configured => port.outArmed \/ port.inFlight # 0

(* The comments in process_vendor_command: the next command may be received *)
(* while the IN callback of the last chunk is still to come, and a query    *)
(* replaces the reply that a host abandoned by closing the interface.       *)
AbandonedIsReplaced ==
    Active /\ port.busy /\ ~hostReads => port.outArmed

(* The port keeps the promise of VendorPort: every reply is handed over     *)
(* whole, in order and to the command it answers.                           *)
Promise == INSTANCE VendorPort WITH
    phase   <- IF bus # "configured" THEN "closed"
               ELSE IF broken THEN "broken"
               ELSE IF port.inFlight # 0 THEN "serving" ELSE "idle",
    serving <- IF bus # "configured" \/ broken THEN NoCommand ELSE port.command,
    left    <- IF bus = "configured" /\ ~broken /\ port.inFlight # 0
                 THEN port.len - port.inFlight + 1 ELSE 0

KeepsPromise == Promise!Spec
=============================================================================
