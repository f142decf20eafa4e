-------------------------- MODULE UsbDevice_proofs --------------------------
(***************************************************************************)
(* What holds of the composed USB device for any set of commands.  A step  *)
(* of the device is a step of the vendor interface or leaves it alone, so  *)
(* the theorems of UsbVendor_proofs carry over.  That hid_in belongs to    *)
(* one writer at a time and that 0x09 stops rest on an invariant of their  *)
(* own, which says what a switch of the mode inside try_send_input can     *)
(* disturb, and for how long.                                              *)
(***************************************************************************)
EXTENDS UsbDevice, UsbVendor_proofs

-----------------------------------------------------------------------------
(* The vendor interface inside the device.                                  *)

LEMMA DeviceStepsVendor == [DeviceNext]_deviceVars => [Next]_vars
<1> SUFFICES ASSUME [DeviceNext]_deviceVars PROVE [Next]_vars
  OBVIOUS
<1>1. CASE \E c \in Commands : Command(c)
  BY <1>1 DEF Command, Next
<1>2. CASE (InCb \/ HostOpensOrCloses) /\ UNCHANGED hidVars
  BY <1>2 DEF Next
<1>3. CASE BusEvent
  BY <1>3 DEF BusEvent, Next
<1>4. CASE HidStep
  BY <1>4 DEF HidStep
<1>5. CASE UNCHANGED deviceVars
  BY <1>5 DEF deviceVars
<1> QED BY <1>1, <1>2, <1>3, <1>4, <1>5 DEF DeviceNext

LEMMA DeviceIInv == DeviceSpec => []IInv
<1>1. DeviceInit => IInv
  BY InitIInv DEF DeviceInit
<1>2. IInv /\ [DeviceNext]_deviceVars => IInv'
  BY DeviceStepsVendor, NextIInv
<1> QED BY <1>1, <1>2, PTL DEF DeviceSpec

(* On the whole device, too, endpoint 0x02 is never armed while endpoint    *)
(* 0x82 holds a chunk, until a suspend hits one (vendor_out_cb).            *)
THEOREM DeviceSerialized == DeviceSpec => []EP2Serialized
<1>1. IInv => EP2Serialized
  BY DEF IInv, EP2Serialized, BusyIsTrue, InFlightIsKnown
<1> QED BY <1>1, DeviceIInv, PTL

(* Nor is the device ever deaf to commands without a chunk in endpoint      *)
(* 0x82 that its host has not fetched (arm_vendor_out).                     *)
THEOREM DeviceListens == DeviceSpec => []OnlyAChunkWaits
<1>1. DeviceInit => OnlyAChunkWaits
  BY DEF DeviceInit, Init, OnlyAChunkWaits, Active
<1>2. IInv /\ OnlyAChunkWaits /\ [DeviceNext]_deviceVars => OnlyAChunkWaits'
  BY DeviceStepsVendor, NextListens
<1> QED BY <1>1, <1>2, DeviceIInv, PTL DEF DeviceSpec

(* The whole device keeps the promise of VendorPort to its host.            *)
THEOREM DeviceImplements == DeviceSpec => KeepsPromise
<1>1. DeviceInit => Promise!Init
  BY InitRefines DEF DeviceInit
<1>2. IInv /\ [DeviceNext]_deviceVars => [Promise!Next]_(Promise!vars)
  BY DeviceStepsVendor, NextRefines
<1> QED BY <1>1, <1>2, DeviceIInv, PTL DEF DeviceSpec, KeepsPromise, Promise!Spec

-----------------------------------------------------------------------------
(* The input reports.                                                       *)

(* A transfer in flight is announced by hid_busy, and in the stretch where  *)
(* the task relies on the test it made there is none.                       *)
OneWriter ==
    ~hid.stray /\ ~hid.late =>
      /\ hid.inFlight => hid.busy
      /\ task.pc \in {"choose", "fill", "start"} => ~hid.busy
      /\ task.pc = "write" => ~hid.inFlight /\ (hid.busy \/ bus # "configured")
      /\ task.pc = "failed" => ~hid.inFlight

(* In the native mode the task is past its choice only with report 0x05,    *)
(* unless the mode was switched after the choice.                           *)
NativeChoice ==
    hid.native /\ ~hid.late =>
      /\ task.pc \in {"fill", "start", "write"} => ~task.generic
      /\ task.pc \in {"start", "write"} => hid.buffer = 5

BusType == bus \in {"default", "configured"}

DInv == BusType /\ Hid!HidTypeOK /\ OneWriter /\ NativeChoice

(* What try_send_input does in the interrupt handler: it sends, it fails to *)
(* send, or it changes no more than what is pending.                        *)
LEMMA TrySendInputEffect ==
  ASSUME NEW h \in Hid!Hids, NEW r, r = Hid!TrySendInput(h)
  PROVE  /\ r \in Hid!Hids
         /\ r.native = h.native /\ r.stray = h.stray /\ r.late = h.late
         /\ \/ r.inFlight = h.inFlight /\ r.busy = h.busy /\ r.buffer = h.buffer
            \/ /\ ~h.busy /\ r.busy /\ r.inFlight
               /\ r.buffer = IF h.native THEN 5 ELSE 9
            \/ ~h.busy /\ ~r.busy /\ r.inFlight = h.inFlight /\ bus # "configured"
<1> DEFINE g == ~h.native
           c == Hid!Choose(g, h)
           f == Hid!Fill(g, c)
<1>1. c \in Hid!Hids /\ c.native = h.native /\ c.stray = h.stray /\ c.late = h.late
      /\ c.inFlight = h.inFlight /\ c.busy = h.busy /\ c.buffer = h.buffer
  BY DEF Hid!Choose, Hid!Hids
<1> HIDE DEF c
<1>a. f = [c EXCEPT !.input = @ /\ g, !.generic = @ /\ ~g, !.buffer = Hid!Id(g)]
  BY DEF Hid!Fill
<1>b. Hid!Id(g) = IF h.native THEN 5 ELSE 9
  BY DEF Hid!Id, Hid!Hids
<1> HIDE DEF f
<1>c. g \in BOOLEAN /\ Hid!Id(g) \in {5, 9}
  BY <1>b DEF Hid!Hids
<1> HIDE DEF g
<1>2. f \in Hid!Hids /\ f.native = h.native /\ f.stray = h.stray /\ f.late = h.late
      /\ f.inFlight = h.inFlight /\ f.busy = h.busy
      /\ f.buffer = IF h.native THEN 5 ELSE 9
  <2>1. f.buffer = Hid!Id(g)
    BY <1>1, <1>a DEF Hid!Hids
  <2>2. /\ f.native = c.native /\ f.stray = c.stray /\ f.late = c.late
        /\ f.inFlight = c.inFlight /\ f.busy = c.busy
    BY <1>1, <1>a DEF Hid!Hids
  <2>3. f \in Hid!Hids
    <3>1. /\ c.native \in BOOLEAN /\ c.busy \in BOOLEAN /\ c.inFlight \in BOOLEAN
          /\ c.stray \in BOOLEAN /\ c.late \in BOOLEAN
      BY <1>1 DEF Hid!Hids
    <3>2. (c.input /\ g) \in BOOLEAN /\ (c.generic /\ ~g) \in BOOLEAN
      OBVIOUS
    <3>3. f = [native |-> c.native, busy |-> c.busy, input |-> c.input /\ g,
               generic |-> c.generic /\ ~g, buffer |-> Hid!Id(g),
               inFlight |-> c.inFlight, stray |-> c.stray, late |-> c.late]
      BY <1>1, <1>a DEF Hid!Hids
    <3> QED
      BY <1>c, <3>1, <3>2, <3>3 DEF Hid!Hids
  <2> QED BY <1>1, <1>b, <2>1, <2>2, <2>3
<1>3. r = IF ~port.configured \/ h.busy THEN h
          ELSE IF ~Hid!Pending(g, h) THEN c
          ELSE IF Hid!Open THEN [f EXCEPT !.busy = TRUE, !.inFlight = TRUE]
          ELSE Hid!Failed(g, f)
  BY DEF Hid!TrySendInput, c, f, g
<1>4. CASE r = h
  BY <1>4
<1>5. CASE r = c
  BY <1>1, <1>5
<1>6. CASE ~h.busy /\ r = [f EXCEPT !.busy = TRUE, !.inFlight = TRUE]
  BY <1>2, <1>6 DEF Hid!Hids
<1>7. CASE ~h.busy /\ ~Hid!Open /\ r = Hid!Failed(g, f)
  <2>1. r \in Hid!Hids /\ r.native = f.native /\ r.stray = f.stray /\ r.late = f.late
        /\ r.inFlight = f.inFlight /\ ~r.busy
    BY <1>2, <1>7 DEF Hid!Failed, Hid!Hids
  <2> QED BY <1>2, <1>7, <2>1 DEF Hid!Open
<1> QED BY <1>3, <1>4, <1>5, <1>6, <1>7

LEMMA DInvInit == DeviceInit => DInv
  BY DEF DeviceInit, Init, Hid!HidInit, DInv, BusType, Hid!HidTypeOK, Hid!Hids,
         Hid!Tasks, Hid!Submits, OneWriter, NativeChoice

(* A command that reaches the port finds its endpoint open; one that turns  *)
(* the native mode on finds the task outside its window, or is recorded.    *)
LEMMA SelectNativeDInv ==
  ASSUME DInv, bus = "configured", bus' = bus, Hid!SelectNative
  PROVE  DInv'
<1> DEFINE h == [hid EXCEPT !.native = TRUE, !.generic = FALSE, !.input = TRUE,
                            !.late = @ \/ Hid!InWindow]
<1>0. Hid!InWindow \in BOOLEAN
  BY DEF Hid!InWindow
<1>1. h \in Hid!Hids /\ h.native /\ h.stray = hid.stray
      /\ h.inFlight = hid.inFlight /\ h.busy = hid.busy
      /\ (~h.late => ~Hid!InWindow)
  BY <1>0 DEF DInv, Hid!HidTypeOK, Hid!Hids
<1>2. hid' = Hid!TrySendInput(h) /\ UNCHANGED <<task, submit>>
  BY DEF Hid!SelectNative
<1> HIDE DEF h
<1>3. /\ hid' \in Hid!Hids /\ hid'.stray = h.stray /\ hid'.late = h.late
      /\ \/ hid'.inFlight = h.inFlight /\ hid'.busy = h.busy
         \/ hid'.inFlight /\ hid'.busy
  BY <1>1, <1>2, TrySendInputEffect
<1>4. hid'.late \/ task'.pc \in {"delay", "mode", "try"}
  BY <1>1, <1>2, <1>3 DEF DInv, Hid!HidTypeOK, Hid!Tasks, Hid!InWindow
<1>a. ~hid'.late => ~hid.late
  <2>1. ~h.late => ~hid.late
    BY <1>0 DEF h, DInv, Hid!HidTypeOK, Hid!Hids
  <2> QED BY <1>3, <2>1
<1>5. OneWriter'
  BY <1>1, <1>3, <1>4, <1>a DEF DInv, OneWriter
<1>6. NativeChoice'
  BY <1>4 DEF NativeChoice
<1> QED BY <1>2, <1>3, <1>5, <1>6 DEF DInv, BusType, Hid!HidTypeOK

(* The end of a transfer leaves nothing in flight but what it starts        *)
(* itself: with the task outside, a switch of the mode is made good.        *)
LEMMA HidInCbDInv ==
  ASSUME DInv, UNCHANGED vars, Hid!HidInCb
  PROVE  DInv'
<1> DEFINE h == [hid EXCEPT !.inFlight = FALSE, !.busy = FALSE,
                            !.late = @ /\ Hid!InWindow]
<1>0. Hid!InWindow \in BOOLEAN
  BY DEF Hid!InWindow
<1>1. h \in Hid!Hids /\ h.native = hid.native /\ h.stray = hid.stray
      /\ ~h.inFlight /\ ~h.busy /\ h.buffer = hid.buffer
      /\ (~h.late => ~hid.late \/ ~Hid!InWindow)
  BY <1>0 DEF DInv, Hid!HidTypeOK, Hid!Hids
<1>2. /\ hid' = Hid!TrySendInput(h) /\ UNCHANGED <<task, submit>>
      /\ bus = "configured" /\ bus' = bus /\ hid.inFlight
  BY DEF Hid!HidInCb, Hid!Open, vars
<1> HIDE DEF h
<1>3. /\ hid' \in Hid!Hids /\ hid'.stray = h.stray /\ hid'.native = h.native
      /\ hid'.late = h.late
      /\ \/ ~hid'.inFlight /\ ~hid'.busy /\ hid'.buffer = h.buffer
         \/ /\ hid'.inFlight /\ hid'.busy
            /\ hid'.buffer = IF h.native THEN 5 ELSE 9
  BY <1>1, <1>2, TrySendInputEffect
<1>4. OneWriter'
  <2>1. CASE ~Hid!InWindow
    BY <1>1, <1>2, <1>3, <2>1 DEF OneWriter, Hid!InWindow
  <2>2. CASE h.late \/ ~hid.late
    BY <1>1, <1>2, <1>3, <2>2 DEF DInv, OneWriter
  <2> QED BY <1>1, <2>1, <2>2
<1>5. NativeChoice'
  <2>1. CASE ~Hid!InWindow
    BY <1>2, <2>1 DEF NativeChoice, Hid!InWindow
  <2>2. CASE h.late \/ ~hid.late
    BY <1>1, <1>2, <1>3, <2>2 DEF DInv, NativeChoice
  <2> QED BY <1>1, <2>1, <2>2
<1> QED BY <1>2, <1>3, <1>4, <1>5 DEF DInv, BusType, Hid!HidTypeOK

(* Writing a report into hid_in.                                            *)
LEMMA FillFields ==
  ASSUME NEW h \in Hid!Hids, NEW g \in BOOLEAN, NEW f, f = Hid!Fill(g, h)
  PROVE  /\ f \in Hid!Hids
         /\ f.native = h.native /\ f.busy = h.busy /\ f.inFlight = h.inFlight
         /\ f.stray = h.stray /\ f.late = h.late
         /\ f.buffer = IF g THEN 9 ELSE 5
<1>1. Hid!Id(g) = IF g THEN 9 ELSE 5
  BY DEF Hid!Id
<1>2. f = [native |-> h.native, busy |-> h.busy, input |-> h.input /\ g,
           generic |-> h.generic /\ ~g, buffer |-> IF g THEN 9 ELSE 5,
           inFlight |-> h.inFlight, stray |-> h.stray, late |-> h.late]
  BY <1>1 DEF Hid!Fill, Hid!Hids
<1>3. (h.input /\ g) \in BOOLEAN /\ (h.generic /\ ~g) \in BOOLEAN
  OBVIOUS
<1> QED
  BY <1>2, <1>3 DEF Hid!Hids

LEMMA TaskDInv ==
  ASSUME DInv, UNCHANGED vars, Hid!TaskStep
  PROVE  DInv'
<1> USE DEF DInv, BusType, Hid!HidTypeOK, Hid!Hids, Hid!Tasks, OneWriter,
            NativeChoice, vars
<1>1. UNCHANGED submit
  BY DEF Hid!TaskStep
<1>2. CASE Hid!TaskWakes
  BY <1>1, <1>2 DEF Hid!TaskWakes
<1>3. CASE Hid!TaskMarks
  BY <1>1, <1>3 DEF Hid!TaskMarks, Hid!At
<1>4. CASE Hid!TaskTries
  BY <1>1, <1>4 DEF Hid!TaskTries, Hid!At
<1>5. CASE Hid!TaskChooses
  BY <1>1, <1>5 DEF Hid!TaskChooses, Hid!Choose
<1>6. CASE Hid!TaskFills
  <2>1. /\ hid' \in Hid!Hids
        /\ hid'.native = hid.native /\ hid'.busy = hid.busy
        /\ hid'.inFlight = hid.inFlight
        /\ hid'.stray = hid.stray /\ hid'.late = hid.late
        /\ hid'.buffer = IF task.generic THEN 9 ELSE 5
    BY <1>6, FillFields DEF Hid!TaskFills
  <2>2. /\ task.pc = "fill" /\ task' \in Hid!Tasks
        /\ task'.pc = "start" /\ task'.generic = task.generic
    BY <1>6 DEF Hid!TaskFills, Hid!At
  <2> QED
    BY <1>1, <2>1, <2>2
<1>7. CASE Hid!TaskStarts
  BY <1>1, <1>7 DEF Hid!TaskStarts, Hid!At
<1>8. CASE Hid!TaskWrites
  BY <1>1, <1>8 DEF Hid!TaskWrites, Hid!At, Hid!Open
<1>9. CASE Hid!TaskFails
  BY <1>1, <1>9 DEF Hid!TaskFails, Hid!At, Hid!Failed
<1> QED BY <1>2, <1>3, <1>4, <1>5, <1>6, <1>7, <1>8, <1>9 DEF Hid!TaskStep

LEMMA SubmitDInv ==
  ASSUME DInv, UNCHANGED vars, Hid!Submit \/ Hid!Submitted
  PROVE  DInv'
<1> USE DEF DInv, BusType, Hid!HidTypeOK, Hid!Submits, OneWriter, NativeChoice,
            vars
<1>1. CASE Hid!Submit
  BY <1>1 DEF Hid!Submit
<1>2. CASE Hid!Submitted
  BY <1>2 DEF Hid!Submitted, Hid!Hids
<1> QED BY <1>1, <1>2

LEMMA BusEventDInv ==
  ASSUME DInv, BusEvent
  PROVE  DInv'
<1> USE DEF DInv, BusType, Hid!HidTypeOK, OneWriter, NativeChoice
<1>1. CASE Configured /\ ~Hid!InWindow /\ Hid!HidConfigured
  BY <1>1 DEF Configured, Hid!InWindow, Hid!HidConfigured, Hid!Hids
<1>2. CASE Reset /\ Hid!HidReset
  BY <1>2 DEF Reset, Hid!HidReset, Hid!Hids
<1>3. CASE Suspend /\ Hid!HidSuspend
  BY <1>3 DEF Suspend, Hid!HidSuspend, Hid!Hids
<1>4. CASE Resume /\ UNCHANGED hidVars
  BY <1>4 DEF Resume, hidVars
<1> QED BY <1>1, <1>2, <1>3, <1>4 DEF BusEvent

LEMMA DInvNext == DInv /\ [DeviceNext]_deviceVars => DInv'
<1> SUFFICES ASSUME DInv, [DeviceNext]_deviceVars PROVE DInv'
  OBVIOUS
<1> DEFINE Same == UNCHANGED <<bus, hid, task, submit>>
<1>1. Same => DInv'
  BY DEF DInv, BusType, Hid!HidTypeOK, OneWriter, NativeChoice
<1>2. ASSUME NEW c \in Commands, Command(c)
      PROVE  DInv'
  <2>1. bus = "configured" /\ bus' = bus
    BY <1>2 DEF Command, OutCb, Active
  <2>2. CASE UNCHANGED hidVars
    BY <1>1, <2>1, <2>2 DEF hidVars
  <2>3. CASE Hid!SelectNative
    BY <2>1, <2>3, SelectNativeDInv
  <2> QED BY <1>2, <2>2, <2>3 DEF Command
<1>3. CASE (InCb \/ HostOpensOrCloses) /\ UNCHANGED hidVars
  BY <1>1, <1>3 DEF InCb, HostOpensOrCloses, hidVars
<1>4. CASE BusEvent
  BY <1>4, BusEventDInv
<1>5. CASE HidStep
  BY <1>5, TaskDInv, SubmitDInv, HidInCbDInv DEF HidStep
<1>6. CASE UNCHANGED deviceVars
  BY <1>1, <1>6 DEF deviceVars, vars, hidVars
<1> QED BY <1>2, <1>3, <1>4, <1>5, <1>6 DEF DeviceNext

LEMMA DeviceDInv == DeviceSpec => []DInv
  BY DInvInit, DInvNext, PTL DEF DeviceSpec

-----------------------------------------------------------------------------
(* The types of the input side hold wherever the mode is switched.          *)

LEMMA HidTypeNext ==
  Hid!HidTypeOK /\ [DeviceNext]_deviceVars => Hid!HidTypeOK'
<1> SUFFICES ASSUME Hid!HidTypeOK, [DeviceNext]_deviceVars PROVE Hid!HidTypeOK'
  OBVIOUS
<1>1. \A h \in Hid!Hids : Hid!TrySendInput(h) \in Hid!Hids
  BY TrySendInputEffect
<1>2. UNCHANGED hidVars => Hid!HidTypeOK'
  BY DEF hidVars, Hid!HidTypeOK
<1>3. CASE Hid!SelectNative \/ (Hid!HidInCb /\ UNCHANGED vars)
  <2>1. PICK h \in Hid!Hids : hid' = Hid!TrySendInput(h)
    <3>1. \/ hid' = Hid!TrySendInput([hid EXCEPT !.native = TRUE, !.generic = FALSE,
                              !.input = TRUE, !.late = @ \/ Hid!InWindow])
          \/ hid' = Hid!TrySendInput([hid EXCEPT !.inFlight = FALSE, !.busy = FALSE,
                              !.late = @ /\ Hid!InWindow])
      BY <1>3, Zenon DEF Hid!SelectNative, Hid!HidInCb
    <3>2. Hid!InWindow \in BOOLEAN
      BY DEF Hid!InWindow
    <3>3. /\ [hid EXCEPT !.native = TRUE, !.generic = FALSE, !.input = TRUE,
                         !.late = @ \/ Hid!InWindow] \in Hid!Hids
          /\ [hid EXCEPT !.inFlight = FALSE, !.busy = FALSE,
                         !.late = @ /\ Hid!InWindow] \in Hid!Hids
      BY <3>2 DEF Hid!HidTypeOK, Hid!Hids
    <3> QED BY <3>1, <3>3
  <2> QED BY <1>1, <1>3, <2>1 DEF Hid!SelectNative, Hid!HidInCb, Hid!HidTypeOK
<1>4. CASE BusEvent
  BY <1>2, <1>4 DEF BusEvent, Hid!HidConfigured, Hid!HidReset, Hid!HidSuspend,
                    Hid!HidTypeOK, Hid!Hids
<1>5. CASE Hid!Submit \/ Hid!Submitted
  BY <1>5 DEF Hid!Submit, Hid!Submitted, Hid!HidTypeOK, Hid!Hids, Hid!Submits
<1>6. CASE Hid!TaskStep
  <2>1. UNCHANGED submit
    BY <1>6 DEF Hid!TaskStep
  <2>2. task' \in Hid!Tasks
    <3> USE DEF Hid!HidTypeOK, Hid!Hids, Hid!Tasks
    <3>1. CASE Hid!TaskWakes \/ Hid!TaskChooses
      <4>1. PICK g \in BOOLEAN, p \in {"mode", "fill", "delay"} :
              task' = [pc |-> p, generic |-> g]
        BY <3>1, Zenon DEF Hid!TaskWakes, Hid!TaskChooses
      <4> QED BY <4>1
    <3>2. CASE Hid!TaskMarks \/ Hid!TaskTries \/ Hid!TaskFills
      BY <3>2 DEF Hid!TaskMarks, Hid!TaskTries, Hid!TaskFills, Hid!At
    <3>3. CASE Hid!TaskStarts \/ Hid!TaskWrites \/ Hid!TaskFails
      BY <3>3 DEF Hid!TaskStarts, Hid!TaskWrites, Hid!TaskFails, Hid!At
    <3> QED
      BY <1>6, <3>1, <3>2, <3>3 DEF Hid!TaskStep
  <2>3. hid' \in Hid!Hids
    <3> USE DEF Hid!HidTypeOK, Hid!Hids, Hid!Tasks
    <3>1. CASE Hid!TaskWakes \/ Hid!TaskTries
      BY <3>1 DEF Hid!TaskWakes, Hid!TaskTries
    <3>2. CASE Hid!TaskMarks
      BY <3>2 DEF Hid!TaskMarks
    <3>3. CASE Hid!TaskChooses
      BY <3>3 DEF Hid!TaskChooses, Hid!Choose
    <3>4. CASE Hid!TaskFills
      <4>1. hid' = Hid!Fill(task.generic, hid)
        BY <3>4 DEF Hid!TaskFills
      <4>2. hid \in Hid!Hids /\ task.generic \in BOOLEAN
        BY <1>6
      <4> HIDE DEF Hid!Hids
      <4> QED
        BY <4>1, <4>2, FillFields
    <3>5. CASE Hid!TaskStarts
      BY <3>5 DEF Hid!TaskStarts
    <3>6. CASE Hid!TaskWrites
      BY <3>6 DEF Hid!TaskWrites, Hid!Open
    <3>7. CASE Hid!TaskFails
      BY <3>7 DEF Hid!TaskFails, Hid!Failed
    <3> QED
      BY <1>6, <3>1, <3>2, <3>3, <3>4, <3>5, <3>6, <3>7 DEF Hid!TaskStep
  <2> QED BY <2>1, <2>2, <2>3 DEF Hid!HidTypeOK
<1> QED
  BY <1>2, <1>3, <1>4, <1>5, <1>6
     DEF DeviceNext, Command, HidStep, deviceVars

(* The flags, buffers and positions of both interfaces keep their types,    *)
(* for any commands and wherever the mode is switched.                      *)
THEOREM DeviceTypeCorrect == DeviceSpec => []DeviceTypeOK
<1>1. DeviceInit => Hid!HidTypeOK
  BY DEF DeviceInit, Hid!HidInit, Hid!HidTypeOK, Hid!Hids, Hid!Tasks, Hid!Submits
<1>2. IInv /\ Hid!HidTypeOK => DeviceTypeOK
  BY DEF IInv, DeviceTypeOK
<1> QED BY <1>1, <1>2, HidTypeNext, DeviceIInv, PTL DEF DeviceSpec

-----------------------------------------------------------------------------
(* hid_in has one writer at a time (try_send_input): when usb_input_task is *)
(* between its test of hid_busy and the end of the function, the endpoint   *)
(* is not sending the buffer, wherever commands and bus events come; only a *)
(* suspend that hits a transfer and a switch of the mode in that stretch    *)
(* take it away, and the switch only until a transfer has ended.            *)
THEOREM BufferSafe == DeviceSpec => []BufferIsFree
<1>1. DInv => BufferIsFree
  BY DEF DInv, OneWriter, BufferIsFree, Hid!InWindow
<1> QED BY <1>1, DeviceDInv, PTL

-----------------------------------------------------------------------------
(* The action property of the native mode, step by step.                    *)

Stops09 == hid.native /\ hid'.native /\ hid'.inFlight /\ hid'.buffer = 9
             => hid.late \/ (hid.inFlight /\ hid.buffer = 9)

LEMMA TaskStops09 ==
  ASSUME DInv, Hid!TaskStep
  PROVE  Stops09
<1> USE DEF DInv, Hid!HidTypeOK, Hid!Hids, Hid!Tasks, NativeChoice, Stops09
<1>1. CASE Hid!TaskWakes
  BY <1>1 DEF Hid!TaskWakes
<1>2. CASE Hid!TaskMarks
  BY <1>2 DEF Hid!TaskMarks
<1>3. CASE Hid!TaskTries
  BY <1>3 DEF Hid!TaskTries
<1>4. CASE Hid!TaskChooses
  BY <1>4 DEF Hid!TaskChooses, Hid!Choose
<1>5. CASE Hid!TaskFills
  BY <1>5 DEF Hid!TaskFills, Hid!At, Hid!Fill, Hid!Id
<1>6. CASE Hid!TaskStarts
  BY <1>6 DEF Hid!TaskStarts
<1>7. CASE Hid!TaskWrites
  BY <1>7 DEF Hid!TaskWrites, Hid!At
<1>8. CASE Hid!TaskFails
  BY <1>8 DEF Hid!TaskFails, Hid!Failed
<1> QED BY <1>1, <1>2, <1>3, <1>4, <1>5, <1>6, <1>7, <1>8 DEF Hid!TaskStep

LEMMA HidInCbStops09 ==
  ASSUME DInv, Hid!HidInCb
  PROVE  Stops09
<1> DEFINE h == [hid EXCEPT !.inFlight = FALSE, !.busy = FALSE,
                            !.late = @ /\ Hid!InWindow]
<1>0. Hid!InWindow \in BOOLEAN
  BY DEF Hid!InWindow
<1>1. h \in Hid!Hids /\ h.native = hid.native /\ ~h.inFlight
  BY <1>0 DEF DInv, Hid!HidTypeOK, Hid!Hids
<1>2. hid' = Hid!TrySendInput(h)
  BY DEF Hid!HidInCb
<1> HIDE DEF h
<1>3. ~hid'.inFlight \/ hid'.buffer = IF h.native THEN 5 ELSE 9
  BY <1>1, <1>2, TrySendInputEffect
<1> QED BY <1>1, <1>3 DEF Stops09

LEMMA NextStops09 == DInv /\ [DeviceNext]_deviceVars => Stops09
<1> SUFFICES ASSUME DInv, [DeviceNext]_deviceVars PROVE Stops09
  OBVIOUS
<1> USE DEF Stops09
<1>1. UNCHANGED hid => Stops09
  OBVIOUS
<1>2. ASSUME NEW c \in Commands, Command(c)
      PROVE  Stops09
  BY <1>2 DEF Command, hidVars
<1>3. CASE (InCb \/ HostOpensOrCloses) /\ UNCHANGED hidVars
  BY <1>3 DEF hidVars
<1>4. CASE BusEvent
  BY <1>4 DEF BusEvent, hidVars, Hid!HidConfigured, Hid!HidReset, Hid!HidSuspend,
              DInv, Hid!HidTypeOK, Hid!Hids
<1>5. CASE HidStep
  <2>1. CASE Hid!Submit \/ Hid!Submitted
    BY <2>1 DEF Hid!Submit, Hid!Submitted, DInv, Hid!HidTypeOK, Hid!Hids
  <2> QED BY <1>5, <2>1, TaskStops09, HidInCbStops09 DEF HidStep
<1>6. CASE UNCHANGED deviceVars
  BY <1>6 DEF deviceVars, hidVars
<1> QED BY <1>2, <1>3, <1>4, <1>5, <1>6 DEF DeviceNext

(* The first real vendor command stops report 0x09 (process_vendor_command): *)
(* in the native mode none is put in flight, but for one that the command   *)
(* found inside try_send_input, until the transfer it disturbed has ended.  *)
THEOREM NativeKeeps05 == DeviceSpec => NativeSettles
<1>1. DInv /\ [DeviceNext]_deviceVars =>
        [hid.native /\ hid'.native /\ hid'.inFlight /\ hid'.buffer = 9
           => hid.late \/ (hid.inFlight /\ hid.buffer = 9)]_deviceVars
  BY NextStops09 DEF Stops09
<1> QED BY <1>1, DeviceDInv, PTL DEF DeviceSpec, NativeSettles
=============================================================================
