------------------------------ MODULE UsbDevice -----------------------------
(***************************************************************************)
(* The USB side of the dongle: the vendor interface (UsbVendor) and the    *)
(* input reports (UsbInput) on one bus.  They meet in three places: every  *)
(* bus event changes both, the flag configured guards both, and the first  *)
(* vendor command that is not a diagnostic query selects the input report. *)
(***************************************************************************)
EXTENDS UsbVendor

VARIABLES hid, task, submit

Hid == INSTANCE UsbInput WITH configured <- port.configured

hidVars == <<hid, task, submit>>
deviceVars == <<vars, hidVars>>

DeviceInit == Init /\ Hid!HidInit

(* vendor_out_cb with the mode selection of process_vendor_command.         *)
Command(c) ==
    /\ OutCb(c)
    /\ IF c \in Diagnostic \cup Empty \/ hid.native
         THEN UNCHANGED hidVars
         ELSE Hid!SelectNative

(* usb_event.  A bus that is reset or configured takes milliseconds over    *)
(* it, in which usb_input_task has long left try_send_input.                *)
BusEvent ==
    \/ Configured /\ ~Hid!InWindow /\ Hid!HidConfigured
    \/ Reset /\ Hid!HidReset
    \/ Suspend /\ Hid!HidSuspend
    \/ Resume /\ UNCHANGED hidVars

HidStep ==
    /\ Hid!TaskStep \/ Hid!Submit \/ Hid!Submitted \/ Hid!HidInCb
    /\ UNCHANGED vars

DeviceNext ==
    \/ \E c \in Commands : Command(c)
    \/ (InCb \/ HostOpensOrCloses) /\ UNCHANGED hidVars
    \/ BusEvent
    \/ HidStep

(* The Bluetooth host finishes what it does and leaves the task time to     *)
(* run.  The host fetches the reports, for it polls endpoint 0x81.  Nothing *)
(* is assumed of the programs that use the vendor interface.                *)
DeviceSpec ==
    /\ DeviceInit /\ [][DeviceNext]_deviceVars
    /\ WF_deviceVars(Hid!Submitted /\ UNCHANGED vars)
    /\ SF_deviceVars(Hid!TaskStep /\ UNCHANGED vars)
    /\ WF_deviceVars(Hid!HidInCb /\ UNCHANGED vars)

-----------------------------------------------------------------------------
(* Properties.                                                              *)

DeviceTypeOK == TypeOK /\ Hid!HidTypeOK

(* hid_in belongs to the task while it fills the buffer and starts its      *)
(* transfer: the endpoint is not sending it.  Two things only take that     *)
(* away: a suspend that clears hid_busy under a transfer, for the rest of   *)
(* the configuration, and the command that selects the native mode when it  *)
(* comes inside that stretch, until a transfer has ended (try_send_input,   *)
(* hid_in_cb).                                                              *)
BufferIsFree ==
    Hid!InWindow /\ ~hid.stray /\ ~hid.late => ~hid.inFlight

(* The comment in process_vendor_command: the first real vendor command     *)
(* stops 0x09 and keeps only 0x05.  No generic report is put into the       *)
(* buffer, or sent, once the native mode is on.                             *)
NativeStops09 ==
    [][hid.native /\ hid'.native /\ hid'.inFlight /\ hid'.buffer = 9
         => hid.inFlight /\ hid.buffer = 9]_deviceVars

(* The same, but for a command that comes while the task is inside          *)
(* try_send_input: one 0x09 more can be sent after it, no second one when   *)
(* the transfer it disturbed has ended with the task outside, however       *)
(* suspends, failed transfers and the Bluetooth host come in between.       *)
NativeSettles ==
    [][hid.native /\ hid'.native /\ hid'.inFlight /\ hid'.buffer = 9
         => hid.late \/ (hid.inFlight /\ hid.buffer = 9)]_deviceVars

(* Input never dries up: on a configured bus a report is on offer again and *)
(* again, whatever the commands, suspends and failed transfers before.      *)
InputFlows ==
    (Active /\ port.configured) ~> (hid.inFlight \/ ~Active)

(* In the native mode the host gets native reports in the end.              *)
NativeArrives ==
    hid.native ~> (~hid.native \/ ~Active \/ (hid.inFlight /\ hid.buffer = 5))
=============================================================================
