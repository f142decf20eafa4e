------------------------ MODULE RumbleStream_proofs -------------------------
(***************************************************************************)
(* Proofs about RumbleStream for any effects, any hold time, any number of *)
(* stop packets and any lateness of the task.                              *)
(***************************************************************************)
EXTENDS RumbleStream, TLAPS

(* The type invariant in two parts, flags and values.                       *)
Flags == held \in BOOLEAN /\ offered \in BOOLEAN

Values ==
    /\ active \in Effects /\ motors \in Effects
    /\ left \in -(MaxLate + 1)..Hold
    /\ stops \in 0..Stops /\ missed \in 0..Stops + 1
    /\ task \in [pc : {"sleep", "due", "decide", "write"},
                 late : 0..MaxLate, lag : 0..MaxLate,
                 packet : Effects, age : Nat]

(* The packet in the making is no older than its time plus what the task is *)
(* late, and its copy of the time is no older than the task's waking.       *)
PacketAge ==
    /\ task.lag <= task.late
    /\ task.pc \in {"sleep", "due"} => task.lag = 0
    /\ task.pc = "sleep" => task.late = 0
    /\ task.pc = "write" /\ task.packet # Zero
         => task.age <= Hold + task.late

(* Running motors, no effect held and none on its way: every packet of the  *)
(* stop is still owed, being written, or was lost.                          *)
StopAccount ==
    /\ task.pc = "write" /\ task.packet # Zero => held \/ stops = Stops
    /\ motors # Zero /\ ~held /\ (task.pc = "write" => task.packet = Zero)
         => stops + missed + (IF task.pc = "write" THEN 1 ELSE 0) >= Stops

(* An effect that was not offered yet is no older than the one iteration it *)
(* may have come too late for and the next, as far as that has gone.        *)
OfferAge ==
    held /\ ~offered
        => /\ task.pc = "sleep" => Hold - left <= MaxLate
           /\ task.pc = "write" => Hold - left <= task.late
           /\ task.pc \in {"due", "decide"}
                => Hold - left <= MaxLate + 1 + task.late

(* What is held is an effect.                                               *)
HeldIsEffect == held => active # Zero

RumbleInv == TypeOK /\ HeldIsEffect /\ PacketAge /\ StopAccount /\ OfferAge

-----------------------------------------------------------------------------
LEMMA TypeParts == TypeOK <=> Flags /\ Values
  BY DEF TypeOK, Flags, Values

LEMMA RumbleInitInv == Init => RumbleInv
  <1> USE RumbleAssumption
  <1>1. Init => Flags
    BY Zenon DEF Init, Flags
  <1>2. Init => Values
    BY DEF Init, Values, Asleep, Effects
  <1>3. Init => HeldIsEffect /\ PacketAge /\ StopAccount /\ OfferAge
    BY DEF Init, Asleep, HeldIsEffect, PacketAge, StopAccount, OfferAge
  <1> QED
    BY <1>1, <1>2, <1>3, TypeParts DEF RumbleInv

LEMMA FlagsNext == Flags /\ [Next]_vars => Flags'
  BY Zenon DEF Flags, Next, vars, noted, SubmitFrame, SubmitZero, TaskStep,
     ReadTime, Repeat, Stop, Quiet, Write, Tick

LEMMA ValuesNext == Values /\ PacketAge /\ [Next]_vars => Values'
  <1> SUFFICES ASSUME Values, PacketAge, [Next]_vars PROVE Values'
    OBVIOUS
  <1> USE RumbleAssumption DEF Values, Effects, noted
  <1>1. ASSUME NEW f \in Frames, SubmitFrame(f) PROVE Values'
    BY <1>1 DEF SubmitFrame
  <1>2. CASE SubmitZero
    BY <1>2 DEF SubmitZero
  <1>3. CASE ReadTime
    BY <1>3 DEF ReadTime
  <1>4. CASE Repeat
    <2>1. Hold - left \in Nat
      OBVIOUS
    <2> QED
      BY <1>4, <2>1 DEF Repeat
  <1>5. CASE Stop
    <2>1. Owed \in 0..Stops
      BY DEF Owed
    <2>2. stops' = Owed - 1 /\ Owed > 0 /\ missed' \in {0, missed}
      BY <1>5, Zenon DEF Stop
    <2>3. stops' \in 0..Stops /\ missed' \in 0..Stops + 1
      BY <2>1, <2>2
    <2> QED
      BY <1>5, <2>3 DEF Stop
  <1>6. CASE Quiet
    BY <1>6 DEF Quiet, Asleep
  <1>7. CASE Write
    BY <1>7 DEF Write, Asleep
  <1>8. CASE Tick
    <2>1. left' \in -(MaxLate + 1)..Hold
      BY <1>8 DEF Tick
    <2>2. CASE task.pc = "sleep"
      BY <1>8, <2>1, <2>2 DEF Tick
    <2>3. CASE task.pc # "sleep"
      <3>1. task.late < MaxLate /\ task.lag + 1 \in 0..MaxLate
        BY <1>8, <2>3 DEF Tick, PacketAge
      <3>2. task.late + 1 \in 0..MaxLate /\ task.age + 1 \in Nat
        BY <3>1
      <3>3. \E lag \in 0..MaxLate, age \in Nat :
              task' = [task EXCEPT !.late = task.late + 1, !.lag = lag, !.age = age]
        BY <1>8, <2>3, <3>1, <3>2, Zenon DEF Tick
      <3>4. task' \in [pc : {"sleep", "due", "decide", "write"},
                       late : 0..MaxLate, lag : 0..MaxLate,
                       packet : Effects, age : Nat]
        BY <3>2, <3>3
      <3> QED
        BY <1>8, <2>1, <3>4 DEF Tick
    <2> QED
      BY <2>2, <2>3
  <1>9. CASE UNCHANGED vars
    BY <1>9 DEF vars
  <1> QED
    BY <1>1, <1>2, <1>3, <1>4, <1>5, <1>6, <1>7, <1>8, <1>9 DEF Next, TaskStep

(* In a tick an effect becomes one tick older at most.                      *)
LEMMA OneTickOlder ==
  ASSUME NEW h \in Int, NEW l \in Int, NEW m \in Int, NEW b \in Int,
         m >= l - 1, h - l <= b
  PROVE  h - m <= b + 1
  OBVIOUS

LEMMA RumbleNext == RumbleInv /\ [Next]_vars => RumbleInv'
  <1> SUFFICES ASSUME RumbleInv, [Next]_vars
               PROVE  HeldIsEffect' /\ PacketAge' /\ StopAccount' /\ OfferAge'
    BY FlagsNext, ValuesNext DEF RumbleInv, TypeOK, Flags, Values
  <1> USE RumbleAssumption DEF RumbleInv, TypeOK, Effects, noted
  <1>1. ASSUME NEW f \in Frames, SubmitFrame(f)
        PROVE  HeldIsEffect' /\ PacketAge' /\ StopAccount' /\ OfferAge'
    BY <1>1 DEF SubmitFrame, HeldIsEffect, PacketAge,
         StopAccount, OfferAge
  <1>2. CASE SubmitZero
    BY <1>2 DEF SubmitZero, HeldIsEffect, PacketAge,
         StopAccount, OfferAge
  <1>3. CASE ReadTime
    BY <1>3 DEF ReadTime, HeldIsEffect, PacketAge,
         StopAccount, OfferAge
  <1>4. CASE Repeat
    BY <1>4 DEF Repeat, StillHeld, HeldIsEffect, PacketAge,
         StopAccount, OfferAge
  <1>5. CASE Stop
    BY <1>5 DEF Stop, Owed, HeldIsEffect, PacketAge,
         StopAccount, OfferAge
  <1>6. CASE Quiet
    BY <1>6 DEF Quiet, Owed, Asleep, HeldIsEffect, PacketAge,
         StopAccount, OfferAge
  <1>7. CASE Write
    BY <1>7 DEF Write, Asleep, HeldIsEffect, PacketAge,
         StopAccount, OfferAge
  <1>8. CASE Tick
    <2>1. CASE task.pc = "sleep"
      <3>1. task' = [task EXCEPT !.pc = "due"]
        BY <1>8, <2>1 DEF Tick
      <3> QED
        BY <1>8, <2>1, <3>1 DEF Tick, HeldIsEffect, PacketAge, StopAccount, OfferAge
    <2>2. CASE task.pc # "sleep"
      <3>1. /\ task'.pc = task.pc /\ task'.late = task.late + 1
            /\ task'.lag = IF task.pc = "decide" THEN task.lag + 1 ELSE task.lag
            /\ task'.packet = task.packet
            /\ task'.age = IF task.pc = "write" /\ task.packet # Zero
                              THEN task.age + 1 ELSE task.age
        BY <1>8, <2>2 DEF Tick
      <3>2. UNCHANGED <<active, held, stops, motors, offered, missed>>
            /\ left' \in Int /\ left' >= left - 1
        BY <1>8 DEF Tick
      <3>3. HeldIsEffect' /\ PacketAge'
        BY <2>2, <3>1, <3>2 DEF HeldIsEffect, PacketAge
      <3>4. StopAccount'
        BY <2>2, <3>1, <3>2 DEF StopAccount
      <3>5. OfferAge'
        <4>1. SUFFICES ASSUME held, ~offered PROVE OfferAge'
          BY <3>2 DEF OfferAge
        <4>2. left \in Int /\ Hold \in Int /\ task.late \in Int /\ MaxLate \in Int
          OBVIOUS
        <4>3. CASE task.pc = "write"
          <5>1. Hold - left <= task.late
            BY <4>1, <4>3 DEF OfferAge
          <5>2. Hold - left' <= task.late + 1
            BY <3>2, <4>2, <5>1, OneTickOlder
          <5> QED
            BY <3>1, <4>3, <5>2 DEF OfferAge
        <4>4. CASE task.pc \in {"due", "decide"}
          <5>1. Hold - left <= MaxLate + 1 + task.late
            BY <4>1, <4>4 DEF OfferAge
          <5>2. Hold - left' <= (MaxLate + 1 + task.late) + 1
            BY <3>2, <4>2, <5>1, OneTickOlder
          <5>3. Hold - left' <= MaxLate + 1 + (task.late + 1)
            BY <5>2
          <5> QED
            BY <3>1, <4>4, <5>3 DEF OfferAge
        <4> QED
          BY <2>2, <4>3, <4>4
      <3> QED
        BY <3>3, <3>4, <3>5
    <2> QED
      BY <2>1, <2>2
  <1>9. CASE UNCHANGED vars
    BY <1>9 DEF vars, HeldIsEffect, PacketAge,
         StopAccount, OfferAge
  <1> QED
    BY <1>1, <1>2, <1>3, <1>4, <1>5, <1>6, <1>7, <1>8, <1>9 DEF Next, TaskStep

LEMMA RumbleAlways == Spec => []RumbleInv
  BY RumbleInitInv, RumbleNext, PTL DEF Spec

-----------------------------------------------------------------------------
(* The bridge's variables stay in their ranges (pro2_rumble.c), whatever    *)
(* the constants.                                                           *)
THEOREM RumbleTypeCorrect == Spec => []TypeOK
  <1>1. RumbleInv => TypeOK
    BY DEF RumbleInv
  <1> QED
    BY RumbleAlways, <1>1, PTL

(* No effect is written later than its hold time plus what the task is late *)
(* (rumble_task, its time read before the critical section).                *)
THEOREM NeverLate == Spec => []NoLateEffect
  <1>1. RumbleInv => NoLateEffect
    BY RumbleAssumption DEF RumbleInv, TypeOK, PacketAge, NoLateEffect
  <1> QED
    BY RumbleAlways, <1>1, PTL

(* Running motors are always about to be dealt with, or the whole stop was  *)
(* lost (stop_packets in rumble_task).                                      *)
THEOREM AlwaysWatched == Spec => []RunningIsWatched
  <1>1. RumbleInv => RunningIsWatched
    BY RumbleAssumption DEF RumbleInv, TypeOK, StopAccount, RunningIsWatched
  <1> QED
    BY RumbleAlways, <1>1, PTL

(* How late rumble_task may be: with a hold time longer than twice that,    *)
(* every effect that is not replaced is offered to the controller.  The     *)
(* code's 180 ms allow for 80 ms.                                           *)
THEOREM EffectOffered ==
    ASSUME 2 * MaxLate < Hold
    PROVE  Spec => EffectIsPlayed
  <1>1. ASSUME RumbleInv, [Next]_vars
        PROVE  [held /\ ~held' /\ active' = active => offered]_vars
    <2> SUFFICES ASSUME Next, held, ~held', active' = active, ~offered
                 PROVE  FALSE
      BY <1>1
    <2> USE RumbleAssumption, <1>1 DEF RumbleInv, TypeOK, noted
    <2>1. ASSUME NEW f \in Frames, SubmitFrame(f) PROVE FALSE
      BY <2>1 DEF SubmitFrame
    <2>2. CASE SubmitZero
      <3>1. active = Zero
        BY <2>2 DEF SubmitZero
      <3> QED
        BY <3>1 DEF HeldIsEffect
    <2>3. CASE ReadTime \/ Repeat \/ Write \/ Tick
      BY <2>3 DEF ReadTime, Repeat, Write, Tick
    <2>4. CASE Stop \/ Quiet
      <3>1. task.pc = "decide" /\ left + task.lag < 0
        BY <2>4 DEF Stop, Quiet, StillHeld
      <3>2. Hold - left <= MaxLate + 1 + task.late
        BY <3>1 DEF OfferAge
      <3> QED
        BY <3>1, <3>2
    <2> QED
      BY <2>1, <2>2, <2>3, <2>4 DEF Next, TaskStep
  <1> QED
    BY RumbleAlways, <1>1, PTL DEF Spec, EffectIsPlayed
=============================================================================
