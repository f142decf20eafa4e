---------------------------- MODULE RumbleStream ----------------------------
(***************************************************************************)
(* The rumble bridge, pro2_rumble.c.  The host sends an effect once; the   *)
(* controller must be told it every 20 ms.  pro2_rumble_submit_usb, in the *)
(* interrupt handler of the USB controller, notes the effect and how long  *)
(* it may be repeated, or that the motors are to stop; rumble_task wakes   *)
(* every 20 ms and writes one packet for what was noted.  A packet that    *)
(* cannot be written is lost.  The task reads the time, takes what was     *)
(* noted and writes in three steps, between which reports arrive and time  *)
(* passes: it is among the less urgent tasks.                              *)
(*                                                                         *)
(* Time is counted in ticks of the task's period.                          *)
(***************************************************************************)
EXTENDS Integers

CONSTANTS
    Frames,     \* the effects
    Zero,       \* the neutral effect: motors off
    Hold,       \* for how many ticks an effect is repeated (180 ms: 9)
    Stops,      \* how many packets stop the motors (3)
    MaxLate     \* bound on the ticks from the task's waking to its packet

ASSUME RumbleAssumption ==
    /\ Zero \notin Frames
    /\ Hold \in Nat /\ Stops \in Nat \ {0} /\ MaxLate \in Nat

VARIABLES
    active,     \* active_left and active_right
    held,       \* active_until is not 0
    left,       \* ticks to active_until; not counted on once it is long past
    stops,      \* stop_packets
    task,       \* rumble_task: its position and its locals
    motors,     \* the effect the controller plays
    offered,    \* a packet was built from the active effect
    missed      \* stop packets since the last stop began that were not written

noted == <<active, held, left, stops>>
vars == <<noted, task, motors, offered, missed>>

Effects == Frames \cup {Zero}

TypeOK ==
    /\ active \in Effects
    /\ held \in BOOLEAN
    /\ left \in -(MaxLate + 1)..Hold
    /\ stops \in 0..Stops
    /\ task \in [pc : {"sleep", "due", "decide", "write"},
                 late : 0..MaxLate,             \* ticks since it woke
                 lag : 0..MaxLate,              \* ticks since it read the time
                 packet : Effects,
                 age : Nat]                     \* ticks since it was accepted
    /\ motors \in Effects
    /\ offered \in BOOLEAN
    /\ missed \in 0..Stops + 1

Asleep == [pc |-> "sleep", late |-> 0, lag |-> 0, packet |-> Zero, age |-> 0]

(* pro2_rumble_init.                                                        *)
Init ==
    /\ active = Zero /\ held = FALSE /\ left = -(MaxLate + 1) /\ stops = 0
    /\ task = Asleep
    /\ motors = Zero /\ offered = FALSE /\ missed = 0

-----------------------------------------------------------------------------
(* pro2_rumble_submit_usb; a report that does not decode changes nothing.   *)

(* Mutant of SubmitFrame: milliseconds added to a time in microseconds.     *)
SubmitFrameForMoment(f) ==
    /\ active' = f /\ offered' = FALSE
    /\ held' = TRUE /\ left' = 0
    /\ stops' = 0 /\ missed' = 0
    /\ UNCHANGED <<task, motors>>

SubmitFrame(f) ==
    /\ active' = f /\ offered' = FALSE
    /\ held' = TRUE /\ left' = Hold
    /\ stops' = 0 /\ missed' = 0
    /\ UNCHANGED <<task, motors>>

(* Mutant of SubmitZero: a neutral report only ends the repetition.         *)
SubmitZeroNoStop ==
    /\ active' = Zero /\ offered' = FALSE
    /\ held' = FALSE /\ left' = -(MaxLate + 1)
    /\ stops' = 0 /\ missed' = 0
    /\ UNCHANGED <<task, motors>>

SubmitZero ==
    /\ active' = Zero /\ offered' = FALSE
    /\ held' = FALSE /\ left' = -(MaxLate + 1)
    /\ stops' = Stops /\ missed' = 0
    /\ UNCHANGED <<task, motors>>

-----------------------------------------------------------------------------
(* rumble_task.                                                             *)

ReadTime ==
    /\ task.pc = "due"
    /\ task' = [task EXCEPT !.pc = "decide"]
    /\ UNCHANGED <<noted, motors, offered, missed>>

(* now <= active_until, where now is task.lag ticks old.                    *)
StillHeld == held /\ left + task.lag >= 0

(* Mutant of Repeat: the time is not looked at.                             *)
RepeatForever ==
    /\ task.pc = "decide" /\ held
    /\ task' = [task EXCEPT !.pc = "write", !.packet = active,
                            !.age = Hold - left]
    /\ offered' = TRUE
    /\ UNCHANGED <<noted, motors, missed>>

(* The critical section: the effect is repeated ...                         *)
Repeat ==
    /\ task.pc = "decide" /\ StillHeld
    /\ task' = [task EXCEPT !.pc = "write", !.packet = active,
                            !.age = Hold - left]
    /\ offered' = TRUE
    /\ UNCHANGED <<noted, motors, missed>>

(* Mutant of Owed: the end of the hold time begins no stop.                 *)
OwedAlready == stops

(* ... or its time is over and a stop begins ...                            *)
Owed == IF held THEN Stops ELSE stops

(* ... or a stop packet is owed ...                                         *)
Stop ==
    /\ task.pc = "decide" /\ ~StillHeld /\ Owed > 0
    /\ held' = FALSE
    /\ stops' = Owed - 1
    /\ missed' = IF held THEN 0 ELSE missed
    /\ task' = [task EXCEPT !.pc = "write", !.packet = Zero, !.age = 0]
    /\ UNCHANGED <<active, left, motors, offered>>

(* ... or there is nothing to say.                                          *)
Quiet ==
    /\ task.pc = "decide" /\ ~StillHeld /\ Owed = 0
    /\ held' = FALSE
    /\ task' = Asleep
    /\ UNCHANGED <<active, left, stops, motors, offered, missed>>

(* pro2_ble_write_rumble reaches the controller or fails: no link, or the   *)
(* stack has no buffer.                                                     *)
Write ==
    /\ task.pc = "write"
    /\ \/ motors' = task.packet /\ UNCHANGED missed
       \/ /\ missed' = IF task.packet = Zero /\ missed <= Stops
                         THEN missed + 1 ELSE missed
          /\ UNCHANGED motors
    /\ task' = Asleep
    /\ UNCHANGED <<noted, offered>>

TaskStep == ReadTime \/ Repeat \/ Stop \/ Quiet \/ Write

(* A tick: vTaskDelay ends, or the task is kept from running.               *)
Tick ==
    /\ IF task.pc = "sleep"
         THEN task' = [task EXCEPT !.pc = "due"]
         ELSE /\ task.late < MaxLate
              /\ task' = [task EXCEPT
                   !.late = @ + 1,
                   !.lag  = IF task.pc = "decide" THEN @ + 1 ELSE @,
                   !.age  = IF task.pc = "write" /\ task.packet # Zero
                              THEN @ + 1 ELSE @]
    /\ left' = IF left > -(MaxLate + 1) THEN left - 1 ELSE left
    /\ UNCHANGED <<active, held, stops, motors, offered, missed>>

Next ==
    \/ \E f \in Frames : SubmitFrame(f)
    \/ SubmitZero
    \/ TaskStep
    \/ Tick

(* Time passes and the task runs; the host may fall silent.                 *)
Spec == Init /\ [][Next]_vars /\ WF_vars(TaskStep) /\ WF_vars(Tick)

-----------------------------------------------------------------------------
(* Properties.                                                              *)

(* An effect that is not replaced is offered to the controller before its   *)
(* time is over, although the task looks only every period, sometimes late  *)
(* and with an old time (active_until, rumble_task).                        *)
EffectIsPlayed ==
    [][held /\ ~held' /\ active' = active => offered]_vars

(* No effect is written later than its hold time after it was accepted,     *)
(* plus what the task itself is late, although the packet is built from an  *)
(* old time and written later still.                                        *)
NoLateEffect ==
    task.pc = "write" /\ task.packet # Zero => task.age <= Hold + MaxLate

(* Motors that run are about to be dealt with: the effect is held, a stop   *)
(* is owed, a packet is on its way, or no stop packet could be written.     *)
RunningIsWatched ==
    motors # Zero
        => held \/ stops > 0 \/ task.pc = "write" \/ missed >= Stops

(* Unless reports keep coming, the motors stop in the end, or every packet  *)
(* of the stop was lost.                                                    *)
MotorsStop ==
    []<>(motors = Zero \/ left = Hold \/ stops = Stops \/ missed >= Stops)
=============================================================================
