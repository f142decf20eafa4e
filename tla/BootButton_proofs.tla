------------------------- MODULE BootButton_proofs --------------------------
(***************************************************************************)
(* Proofs about BootButton for any length of a hold.                       *)
(***************************************************************************)
EXTENDS BootButton, TLAPS

(* While the button is down it was counted no more often than it was seen   *)
(* at different times; the count saturates later than the hold.             *)
CountIsTime ==
    button.down =>
        /\ status.pc = "due" => status.held <= button.ticks \/ button.ticks = Hold
        /\ status.pc = "delay" =>
             status.held <= button.ticks + 1 \/ button.ticks = Hold

(* A button seen up leaves no count behind, except for the blinking.        *)
UpIsClear ==
    ~button.down /\ button.seen /\ status.pc # "blink"
        => status.held = 0 /\ ~status.handled

(* What a press brought about is remembered for as long as it lasts.        *)
HandledOnce ==
    button.down /\ button.forgets > 0 => status.handled /\ status.pc # "blink"

ButtonInv ==
    ButtonTypeOK /\ CountIsTime /\ UpIsClear /\ HandledOnce /\ OneForgetPerHold

-----------------------------------------------------------------------------
LEMMA ButtonInitInv == ButtonInit => ButtonInv
  BY ButtonAssumption
     DEF ButtonInit, ButtonInv, ButtonTypeOK, CountIsTime, UpIsClear,
         HandledOnce, OneForgetPerHold

LEMMA ButtonUpdate ==
  ASSUME NEW b \in [down : BOOLEAN, seen : BOOLEAN, ticks : 0..Hold, forgets : 0..2],
         NEW s \in BOOLEAN, NEW f \in 0..2
  PROVE  [b EXCEPT !.seen = s, !.forgets = f]
            \in [down : BOOLEAN, seen : BOOLEAN, ticks : 0..Hold, forgets : 0..2]
  BY ButtonAssumption

LEMMA ButtonNextInv == ButtonInv /\ [ButtonNext]_buttonVars => ButtonInv'
  <1> SUFFICES ASSUME ButtonInv, [ButtonNext]_buttonVars PROVE ButtonInv'
    OBVIOUS
  <1> USE ButtonAssumption
      DEF ButtonInv, ButtonTypeOK, CountIsTime, UpIsClear, HandledOnce,
          OneForgetPerHold
  <1>1. CASE PressButton
    BY <1>1 DEF PressButton
  <1>2. CASE ReleaseButton
    BY <1>2 DEF ReleaseButton
  <1>3. CASE ButtonTick
    BY <1>3 DEF ButtonTick
  <1>4. CASE SampleDown
    <2>1. /\ Count \in 0..Cap
          /\ Count <= status.held + 1
          /\ Count >= Hold => status.held + 1 >= Hold
      BY DEF Count
    <2>2. /\ status.pc = "due" /\ button.down
          /\ status.held <= button.ticks \/ button.ticks = Hold
      BY <1>4 DEF SampleDown
    <2>3. /\ status' \in [pc : {"due", "delay", "blink"},
                          held : 0..Cap, handled : BOOLEAN]
          /\ status'.pc = "delay" /\ status'.held = Count
          /\ status'.handled <=> status.handled \/ HeldLongEnough
      BY <1>4, <2>1 DEF SampleDown, HeldLongEnough
    <2>4. HeldLongEnough => button.ticks >= Hold - 1 /\ button.forgets = 0
      BY <2>1, <2>2 DEF HeldLongEnough
    <2>5. /\ button'.down = button.down /\ button'.ticks = button.ticks
          /\ button'.forgets = IF HeldLongEnough THEN 1 ELSE button.forgets
          /\ button' \in [down : BOOLEAN, seen : BOOLEAN, ticks : 0..Hold,
                          forgets : 0..2]
      <3>1. CASE HeldLongEnough
        <4>1. (IF HeldLongEnough /\ button.forgets < 2
                 THEN button.forgets + 1 ELSE button.forgets) = 1
          BY <2>4, <3>1
        <4>2. PICK seen \in BOOLEAN :
                button' = [button EXCEPT !.seen = seen, !.forgets = 1]
          BY <1>4, <4>1, Zenon DEF SampleDown
        <4>3. /\ button' \in [down : BOOLEAN, seen : BOOLEAN, ticks : 0..Hold,
                             forgets : 0..2]
          <5>1. 1 \in 0..2
            OBVIOUS
          <5> QED
            BY <4>2, <5>1, ButtonUpdate DEF ButtonTypeOK
        <4>4. button'.forgets = 1
          BY <4>2
        <4>5. button'.down = button.down /\ button'.ticks = button.ticks
          BY <4>2
        <4> QED
          BY <3>1, <4>3, <4>4, <4>5, Zenon
      <3>2. CASE ~HeldLongEnough
        <4>1. PICK seen \in BOOLEAN : button' =
                [button EXCEPT !.seen = seen, !.forgets = button.forgets]
          BY <1>4, <3>2, Zenon DEF SampleDown
        <4>2. button' \in [down : BOOLEAN, seen : BOOLEAN, ticks : 0..Hold,
                           forgets : 0..2]
          BY <4>1, ButtonUpdate DEF ButtonTypeOK
        <4>3. /\ button'.down = button.down /\ button'.ticks = button.ticks
              /\ button'.forgets = button.forgets
          BY <4>1
        <4> QED
          BY <3>2, <4>2, <4>3, Zenon
      <3> QED
        BY <3>1, <3>2
    <2>6. ButtonTypeOK'
      BY <2>3, <2>5
    <2>7. CountIsTime' /\ UpIsClear'
      BY <2>1, <2>2, <2>3, <2>5
    <2>8. HandledOnce' /\ OneForgetPerHold'
      BY <2>2, <2>3, <2>4, <2>5
    <2> QED
      BY <2>6, <2>7, <2>8
  <1>5. CASE SampleShort
    BY <1>5 DEF SampleShort
  <1>6. CASE SampleUp
    <2>1. /\ ~button.down
          /\ status' = [pc |-> "delay", held |-> 0, handled |-> FALSE]
          /\ button' = [button EXCEPT !.seen = TRUE]
      BY <1>6, Zenon DEF SampleUp
    <2>2. ButtonTypeOK'
      <3>1. \E seen \in BOOLEAN : button' = [button EXCEPT !.seen = seen]
        BY <2>1, Zenon
      <3>2. \E handled \in BOOLEAN :
              status' = [pc |-> "delay", held |-> 0, handled |-> handled]
        BY <2>1, Zenon
      <3> QED
        BY <3>1, <3>2
    <2>3. /\ button'.down = button.down /\ button'.ticks = button.ticks
          /\ button'.forgets = button.forgets
      BY <2>1
    <2>4. status'.pc = "delay" /\ status'.held = 0 /\ ~status'.handled
      BY <2>1
    <2> QED
      BY <2>1, <2>2, <2>3, <2>4
  <1>7. CASE BlinkEnds
    BY <1>7 DEF BlinkEnds
  <1>8. CASE UNCHANGED buttonVars
    BY <1>8 DEF buttonVars
  <1> QED
    BY <1>1, <1>2, <1>3, <1>4, <1>5, <1>6, <1>7, <1>8
       DEF ButtonNext, ButtonTask

LEMMA ButtonAlways == ButtonSpec => []ButtonInv
  BY ButtonInitInv, ButtonNextInv, PTL DEF ButtonSpec

-----------------------------------------------------------------------------
(* The task's counters stay in their ranges (board_status_task).            *)
THEOREM ButtonTypeCorrect == ButtonSpec => []ButtonTypeOK
  <1>1. ButtonInv => ButtonTypeOK
    BY DEF ButtonInv
  <1> QED
    BY ButtonAlways, <1>1, PTL

(* However long a hold is to be, wherever the count saturates and however   *)
(* late the task runs, a press forgets at most once and only if it lasted.  *)
THEOREM ForgetsOnce == ButtonSpec => []OneForgetPerHold
  <1>1. ButtonInv => OneForgetPerHold
    BY DEF ButtonInv
  <1> QED
    BY ButtonAlways, <1>1, PTL
=============================================================================
