------------------------------ MODULE UsbInput ------------------------------
(***************************************************************************)
(* The input reports of usb_nintendo.c.  One buffer, hid_in, feeds         *)
(* endpoint 0x81.  try_send_input fills it and starts a transfer; it runs  *)
(* in usb_input_task every INPUT_PERIOD_MS, and in the interrupt handler   *)
(* of the USB controller when a transfer has ended (hid_in_cb) and when    *)
(* the host's first real vendor command selects the native report 0x05     *)
(* instead of the generic 0x09.  Only hid_busy keeps the two apart: the    *)
(* task tests it, and sets it several statements later.                    *)
(*                                                                         *)
(* In the interrupt try_send_input is one step, in the task one step per   *)
(* access the interrupt can come between.  Reports are abstracted to their *)
(* ids.  The bus is shared with the vendor interface: UsbDevice composes   *)
(* the two, and owns configured, bus and suspended.                        *)
(***************************************************************************)
EXTENDS Naturals

VARIABLES
    configured,     \* configured
    bus,            \* "configured" when the endpoints are open
    suspended,      \* the host suspended the bus
    hid,            \* the flags, hid_in and endpoint 0x81
    task,           \* usb_input_task: where it is in its loop
    submit          \* usb_nintendo_submit_state: the mode it has read, if any

Hids == [native : BOOLEAN,      \* steam_native_mode
         busy : BOOLEAN,        \* hid_busy
         input : BOOLEAN,       \* input_pending
         generic : BOOLEAN,     \* generic_pending
         buffer : {5, 9},       \* the id of the report in hid_in
         inFlight : BOOLEAN,    \* endpoint 0x81 is sending hid_in
         stray : BOOLEAN,       \* a suspend hit a transfer since configuration
         late : BOOLEAN]        \* the native mode was selected while the task
                                \* was inside try_send_input, and no transfer
                                \* has ended with the task outside since

(* The locals: the mode the loop has read, then send_generic.               *)
Tasks == [pc : {"delay", "mode", "try", "choose", "fill", "start", "write",
                "failed"},
          generic : BOOLEAN]

Submits == {"no", "native", "generic"}

HidTypeOK == hid \in Hids /\ task \in Tasks /\ submit \in Submits

(* usb_nintendo_init.                                                       *)
HidInit ==
    /\ hid = [native |-> FALSE, busy |-> FALSE, input |-> FALSE,
              generic |-> TRUE, buffer |-> 9, inFlight |-> FALSE,
              stray |-> FALSE, late |-> FALSE]
    /\ task = [pc |-> "delay", generic |-> FALSE]
    /\ submit = "no"

Id(generic)         == IF generic THEN 9 ELSE 5
Pending(generic, h) == IF generic THEN h.generic ELSE h.input

(* The report of the other mode is no longer pending.                       *)
Choose(generic, h) == [h EXCEPT !.input   = @ /\ ~generic,
                                !.generic = @ /\ generic]

Fill(generic, h) == [h EXCEPT !.input   = @ /\ generic,
                              !.generic = @ /\ ~generic,
                              !.buffer  = Id(generic)]

(* usbd_ep_start_write failed: the report is pending again.                 *)
Failed(generic, h) == [h EXCEPT !.busy = FALSE,
                                !.input   = @ \/ ~generic,
                                !.generic = @ \/ generic]

(* A transfer can be started on an open endpoint.                           *)
Open == bus = "configured"

(* try_send_input in the interrupt handler.                                 *)
TrySendInput(h) ==
    LET generic == ~h.native
        c == Choose(generic, h)
    IN  IF ~configured \/ h.busy THEN h
        ELSE IF ~Pending(generic, h) THEN c
        ELSE IF Open
          THEN [Fill(generic, c) EXCEPT !.busy = TRUE, !.inFlight = TRUE]
          ELSE Failed(generic, Fill(generic, c))

-----------------------------------------------------------------------------
(* usb_input_task.                                                          *)

At(from, next) == task.pc = from /\ task' = [task EXCEPT !.pc = next]

(* The period is over: the mode is read ...                                 *)
TaskWakes ==
    /\ task.pc = "delay"
    /\ task' = [pc |-> "mode", generic |-> ~hid.native]
    /\ UNCHANGED hid

(* ... and a report of that mode made pending.                              *)
TaskMarks ==
    /\ At("mode", "try")
    /\ hid' = [hid EXCEPT !.input = ~task.generic, !.generic = task.generic]

(* Mutant of TaskTries: the transfer in progress is not looked at.          *)
TaskTriesAnyway ==
    /\ At("try", IF ~configured THEN "delay" ELSE "choose")
    /\ UNCHANGED hid

TaskTries ==
    /\ At("try", IF ~configured \/ hid.busy THEN "delay" ELSE "choose")
    /\ UNCHANGED hid

(* Mutant of TaskChooses: the mode is not read again.                       *)
TaskChoosesOldMode ==
    /\ task.pc = "choose"
    /\ task' = [task EXCEPT !.pc = IF Pending(task.generic, hid) THEN "fill"
                                                                 ELSE "delay"]
    /\ hid' = Choose(task.generic, hid)

TaskChooses ==
    LET generic == ~hid.native IN
    /\ task.pc = "choose"
    /\ task' = [pc |-> IF Pending(generic, hid) THEN "fill" ELSE "delay",
                generic |-> generic]
    /\ hid' = Choose(generic, hid)

TaskFills ==
    /\ At("fill", "start")
    /\ hid' = Fill(task.generic, hid)

TaskStarts ==
    /\ At("start", "write")
    /\ hid' = [hid EXCEPT !.busy = TRUE]

TaskWrites ==
    /\ At("write", IF Open THEN "delay" ELSE "failed")
    /\ hid' = [hid EXCEPT !.inFlight = @ \/ Open]

TaskFails ==
    /\ At("failed", "delay")
    /\ hid' = Failed(task.generic, hid)

(* The Bluetooth host, which preempts the task, is not in between.          *)
TaskStep ==
    /\ submit = "no" /\ UNCHANGED submit
    /\ \/ TaskWakes \/ TaskMarks \/ TaskTries \/ TaskChooses
       \/ TaskFills \/ TaskStarts \/ TaskWrites \/ TaskFails

(* Between the test of hid_busy and the return of try_send_input.           *)
InWindow == task.pc \in {"choose", "fill", "start", "write", "failed"}

-----------------------------------------------------------------------------
(* usb_nintendo_submit_state, in the Bluetooth host: the reports are        *)
(* rewritten, the mode is read, a report of that mode is made pending.      *)

Submit ==
    /\ submit = "no"
    /\ submit' = IF hid.native THEN "native" ELSE "generic"
    /\ UNCHANGED <<hid, task>>

Submitted ==
    /\ submit # "no" /\ submit' = "no"
    /\ hid' = [hid EXCEPT !.input = (submit = "native"),
                          !.generic = (submit = "generic")]
    /\ UNCHANGED task

-----------------------------------------------------------------------------
(* The interrupt handler.                                                   *)

(* Mutant of HidInCb: the end of the transfer goes unnoticed.               *)
HidInCbStaysBusy ==
    /\ Open /\ ~suspended /\ hid.inFlight
    /\ hid' = TrySendInput([hid EXCEPT !.inFlight = FALSE])
    /\ UNCHANGED <<task, submit>>

(* hid_in_cb: the host has fetched the report.                              *)
HidInCb ==
    /\ Open /\ ~suspended /\ hid.inFlight
    /\ hid' = TrySendInput([hid EXCEPT !.inFlight = FALSE, !.busy = FALSE,
                                       !.late = @ /\ InWindow])
    /\ UNCHANGED <<task, submit>>

(* The head of process_vendor_command, on a first command that is not a     *)
(* diagnostic query, wherever the task is.                                  *)
SelectNative ==
    /\ hid' = TrySendInput([hid EXCEPT !.native = TRUE, !.generic = FALSE,
                                       !.input = TRUE, !.late = @ \/ InWindow])
    /\ UNCHANGED <<task, submit>>

(* usb_event.  Opening and closing the endpoints ends what is in flight.    *)
HidConfigured ==
    /\ hid' = [hid EXCEPT !.busy = FALSE, !.input = FALSE, !.generic = TRUE,
                          !.native = FALSE, !.inFlight = FALSE, !.stray = FALSE,
                          !.late = FALSE]
    /\ UNCHANGED <<task, submit>>

HidReset ==
    /\ hid' = [hid EXCEPT !.busy = FALSE, !.native = FALSE,
                          !.inFlight = FALSE, !.stray = FALSE, !.late = FALSE]
    /\ UNCHANGED <<task, submit>>

(* The transfer in the endpoint, or about to be started, stays.             *)
HidSuspend ==
    /\ hid' = [hid EXCEPT !.busy = FALSE,
                          !.stray = @ \/ hid.inFlight \/ task.pc = "write"]
    /\ UNCHANGED <<task, submit>>
=============================================================================
