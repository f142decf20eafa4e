----------------------------- MODULE BootButton -----------------------------
(***************************************************************************)
(* The BOOT button, board_status.c.  board_status_task, the least urgent   *)
(* task, looks at the button about every 100 ms and counts how often it    *)
(* has seen it down.  At 30 (three seconds) it has the controller          *)
(* forgotten, once; a button released before shows the error code on the   *)
(* LED, which takes seconds in which the button is not looked at.          *)
(*                                                                         *)
(* Time is counted in ticks of 100 ms.  Between two ticks the task is late *)
(* as long as it likes; the user does anything that lasts long enough to   *)
(* be seen.                                                                *)
(***************************************************************************)
EXTENDS Naturals

CONSTANTS
    Hold,       \* samples that make a hold (30)
    Cap         \* where the count stops (1000)

ASSUME ButtonAssumption ==
    /\ Hold \in Nat \ {0} /\ Cap \in Nat
    /\ Hold <= Cap

VARIABLES
    button,     \* the button: is it down, was that seen, and what came of it
    status      \* board_status_task: its position, held and handled

buttonVars == <<button, status>>

ButtonTypeOK ==
    /\ button \in [down : BOOLEAN,
                   seen : BOOLEAN,      \* sampled since it went up or down
                   ticks : 0..Hold,     \* for which it was down, at least
                   forgets : 0..2]      \* in the last time it went down
    /\ status \in [pc : {"due", "delay", "blink"},
                   held : 0..Cap, handled : BOOLEAN]

ButtonInit ==
    /\ button = [down |-> FALSE, seen |-> FALSE, ticks |-> 0, forgets |-> 0]
    /\ status = [pc |-> "due", held |-> 0, handled |-> FALSE]

-----------------------------------------------------------------------------
(* The user.  A release is at least as long as the time to the next sample; *)
(* while the LED blinks nothing is sampled at all.                          *)
PressButton ==
    /\ ~button.down
    /\ button.seen \/ status.pc = "blink"
    /\ button' = [down |-> TRUE, seen |-> FALSE, ticks |-> 0, forgets |-> 0]
    /\ UNCHANGED status

ReleaseButton ==
    /\ button.down
    /\ button' = [button EXCEPT !.down = FALSE, !.seen = FALSE]
    /\ UNCHANGED status

(* 100 ms pass.                                                             *)
ButtonTick ==
    /\ button' = [button EXCEPT !.ticks =
                    IF button.down /\ @ < Hold THEN @ + 1 ELSE @]
    /\ status' = [status EXCEPT !.pc = IF @ = "delay" THEN "due" ELSE @]

-----------------------------------------------------------------------------
(* One iteration of the loop.                                               *)

Count == IF status.held < Cap THEN status.held + 1 ELSE status.held

(* Mutant of HeldLongEnough: one sample too few is asked for.               *)
HeldAlmost == Count + 1 >= Hold /\ ~status.handled

HeldLongEnough == Count >= Hold /\ ~status.handled

SampleDown ==
    /\ status.pc = "due" /\ button.down
    /\ status' = [pc |-> "delay", held |-> Count,
                  handled |-> status.handled \/ HeldLongEnough]
    /\ button' = [button EXCEPT !.seen = TRUE,
                    !.forgets = IF HeldLongEnough /\ @ < 2 THEN @ + 1 ELSE @]

(* A short press: the error code blinks.                                    *)
SampleShort ==
    /\ status.pc = "due" /\ ~button.down
    /\ 0 < status.held /\ status.held < Hold /\ ~status.handled
    /\ status' = [status EXCEPT !.pc = "blink"]
    /\ button' = [button EXCEPT !.seen = TRUE]

(* Mutant of SampleUp: a hold that was handled is never forgotten.          *)
SampleUpStaysHandled ==
    /\ status.pc = "due" /\ ~button.down
    /\ status.held = 0 \/ status.held >= Hold \/ status.handled
    /\ status' = [status EXCEPT !.pc = "delay", !.held = 0]
    /\ button' = [button EXCEPT !.seen = TRUE]

SampleUp ==
    /\ status.pc = "due" /\ ~button.down
    /\ status.held = 0 \/ status.held >= Hold \/ status.handled
    /\ status' = [pc |-> "delay", held |-> 0, handled |-> FALSE]
    /\ button' = [button EXCEPT !.seen = TRUE]

(* show_ble_error_code returns.                                             *)
BlinkEnds ==
    /\ status.pc = "blink"
    /\ status' = [pc |-> "delay", held |-> 0, handled |-> FALSE]
    /\ UNCHANGED button

ButtonTask == SampleDown \/ SampleShort \/ SampleUp \/ BlinkEnds

ButtonNext == PressButton \/ ReleaseButton \/ ButtonTick \/ ButtonTask

ButtonSpec ==
    /\ ButtonInit /\ [][ButtonNext]_buttonVars
    /\ WF_buttonVars(ButtonTask) /\ WF_buttonVars(ButtonTick)

-----------------------------------------------------------------------------
(* Properties.                                                              *)

(* A press forgets the controller at most once, and only if it lasted: a    *)
(* short press, or several with blinking between them, never does (the      *)
(* README on the BOOT button, board_status_task).                           *)
OneForgetPerHold ==
    button.forgets > 0 => button.forgets = 1 /\ button.ticks >= Hold - 1

(* A button that is held down is heard in the end, also when the press      *)
(* began while an error code blinked.                                       *)
HoldIsHeard == []<>(~button.down \/ button.forgets > 0)
=============================================================================
