--------------------------- MODULE BleLink_proofs ---------------------------
(***************************************************************************)
(* Proofs about BleLink for any controllers, any number of tasks that      *)
(* forget, any number of forgets, tasks that cannot be created and a host  *)
(* that delivers its events at any point.  First that two links are never  *)
(* in the making, which rests on connecting: it is set as long as the      *)
(* stack or connect_selected_task makes an attempt, until one is let       *)
(* loose.  Then that the search goes on, which rests on what each of the   *)
(* other flags says of the stack as long as there was no slip.             *)
(***************************************************************************)
EXTENDS BleLink, TLAPS

-----------------------------------------------------------------------------
(* The type invariant in two parts, flags and values.                       *)
LinkFlags ==
    /\ connecting \in BOOLEAN /\ scanning \in BOOLEAN /\ autoConnect \in BOOLEAN
    /\ savedValid \in BOOLEAN /\ connectHandle \in BOOLEAN
    /\ scanFailed \in BOOLEAN /\ dropping \in BOOLEAN
    /\ stackScan \in BOOLEAN /\ armed \in BOOLEAN

LinkValues ==
    /\ connection \in Peers \cup {NoPeer}
    /\ savedAddress \in Peers \cup {NoPeer}
    /\ pendingPeer \in Peers \cup {NoPeer}
    /\ retryTask \in {"none", "waiting", "refused"}
    /\ connectTask \in {"no", "settle", "create", "list", "arm", "store", "exit"}
    /\ scanCall \in [Callers -> {"no", "start", "started", "refused"}]
    /\ disable \in [Disablers -> {"no", "stop", "store", "clear", "drop"}]
    /\ forgetPc \in [Forgetters -> {"no", "disable", "drop", "rescan"}]
    /\ whitelist \in Peers \cup {NoPeer} /\ direct \in Peers \cup {NoPeer}
    /\ slips \subseteq {"early", "loose"}

LEMMA LinkTypeInit == Init => TypeOK
  <1> SUFFICES ASSUME Init PROVE TypeOK
    OBVIOUS
  <1>1. savedValid \in BOOLEAN
    BY DEF Init
  <1>2. LinkFlags
    BY <1>1, Zenon DEF Init, LinkFlags
  <1>3. LinkValues
    BY BleLinkAssumption DEF Init, LinkValues, Callers, Disablers
  <1> QED
    BY <1>2, <1>3 DEF TypeOK, LinkFlags, LinkValues

LEMMA LinkFlagsNext == LinkFlags /\ [Next]_vars => LinkFlags'
  <1> SUFFICES ASSUME LinkFlags, [Next]_vars PROVE LinkFlags'
    OBVIOUS
  <1>s. ASSUME NEW f \in Forgetters, ForgetDrop(f) PROVE stackScan' \in BOOLEAN
    <2>1. CASE UNCHANGED stackScan
      BY <2>1, Zenon DEF LinkFlags
    <2>2. CASE ~UNCHANGED stackScan
      <3>1. stackScan' \in {stackScan, FALSE}
        <4>1. CASE Connected
          BY <1>s, <4>1, <2>2, Zenon DEF ForgetDrop
        <4>2. CASE ~Connected /\ scanning
          BY <1>s, <4>2, Zenon DEF ForgetDrop
        <4>3. CASE ~Connected /\ ~scanning
          BY <1>s, <4>3, Zenon DEF ForgetDrop
        <4> QED
          BY <4>1, <4>2, <4>3
      <3> QED
        BY <2>2, <3>1, Zenon
    <2> QED
      BY <2>1, <2>2
  <1>a. ASSUME NEW c \in Disablers, DisableStop(c) PROVE armed' \in BOOLEAN
    <2>1. armed' = armed \/ armed' = FALSE
      BY <1>a, Zenon DEF DisableStop
    <2> QED
      BY <2>1, Zenon DEF LinkFlags
  <1> USE Zenon DEF LinkFlags, linkVars, savedVars, forgetVars, taskVars, stackVars
  <1>1. ASSUME NEW c \in Callers, ScanStart(c) \/ ScanStored(c)
        PROVE  LinkFlags'
    <2>1. (scanCall[c] = "started") \in BOOLEAN
          /\ (scanFailed \/ scanCall[c] = "refused") \in BOOLEAN
      BY SMT
    <2> QED
      BY <1>1, <2>1 DEF ScanStart, ScanStored
  <1>2. CASE RetryExpires \/ ConnectStep
    <2>1. CASE RetryExpires
      BY <2>1 DEF RetryExpires
    <2>2. CASE Settled
      BY <2>2 DEF Settled
    <2>3. CASE Create
      BY <2>3 DEF Create, AttemptFails
    <2>4. CASE List
      BY <2>4 DEF List, AttemptFails
    <2>5. CASE Arm
      BY <2>5 DEF Arm, AttemptFails
    <2>6. CASE ArmStored
      BY <2>6 DEF ArmStored
    <2>7. CASE ConnectExit
      BY <2>7 DEF ConnectExit
    <2> QED
      BY <1>2, <2>1, <2>2, <2>3, <2>4, <2>5, <2>6, <2>7 DEF ConnectStep
  <1>3. ASSUME NEW p \in Peers, DeviceFound(p) PROVE LinkFlags'
    BY <1>3 DEF DeviceFound
  <1>4. ASSUME NEW p \in Peers, NEW ok \in BOOLEAN, ConnectedCb(p, ok)
        PROVE  LinkFlags'
    BY <1>4 DEF ConnectedCb, AttemptEnds
  <1>5. CASE DisconnectedCb \/ SetUpSaves \/ SetUpFails \/ SetUpDrops
    <2>1. (scanFailed /\ dropping) \in BOOLEAN /\ Connected \in BOOLEAN
      BY SMT DEF Connected
    <2>2. CASE DisconnectedCb
      BY <2>1, <2>2 DEF DisconnectedCb
    <2>3. CASE SetUpSaves
      BY <2>3 DEF SetUpSaves
    <2>4. CASE SetUpFails
      BY <2>4 DEF SetUpFails
    <2>5. CASE SetUpDrops
      BY <2>1, <2>5 DEF SetUpDrops
    <2> QED
      BY <1>5, <2>2, <2>3, <2>4, <2>5
  <1>6. ASSUME NEW f \in Forgetters,
               Forget(f) \/ ForgetErase(f) \/ ForgetDrop(f) \/ ForgetRescan(f)
        PROVE  LinkFlags'
    <2>1. CASE ForgetDrop(f)
      BY <1>s, <2>1 DEF ForgetDrop
    <2> QED
      BY <1>6, <2>1 DEF Forget, ForgetErase, ForgetRescan
  <1>7. ASSUME NEW c \in Disablers,
               DisableStop(c) \/ DisableStored(c) \/ DisableClear(c)
        PROVE  LinkFlags'
    <2>1. CASE DisableStop(c)
      BY <1>a, <2>1 DEF DisableStop
    <2> QED
      BY <1>7, <2>1 DEF DisableStored, DisableClear
  <1>8. CASE UNCHANGED vars
    BY <1>8 DEF vars
  <1> QED
    BY <1>1, <1>2, <1>3, <1>4, <1>5, <1>6, <1>7, <1>8
       DEF Next, ScanStep, ForgetStep, DisableStep

LEMMA ScheduleType ==
  ASSUME LinkValues, ScheduleScanRetry
  PROVE  /\ retryTask' \in {"none", "waiting", "refused"}
         /\ scanCall' \in [Callers -> {"no", "start", "started", "refused"}]
  BY DEF LinkValues, ScheduleScanRetry, Callers

LEMMA SlipType ==
  ASSUME LinkValues, NEW k \in {"early", "loose"}, NEW h, Slip(k, h)
  PROVE  slips' \subseteq {"early", "loose"}
  BY DEF LinkValues, Slip

LEMMA LinkValuesNext == LinkValues /\ [Next]_vars => LinkValues'
  <1> SUFFICES ASSUME LinkValues, [Next]_vars PROVE LinkValues'
    OBVIOUS
  <1> USE BleLinkAssumption
      DEF linkVars, savedVars, forgetVars, taskVars, stackVars
  <1>1. ASSUME NEW c \in Callers, ScanStart(c) PROVE LinkValues'
    BY <1>1 DEF LinkValues, ScanStart
  <1>2. ASSUME NEW c \in Callers, ScanStored(c) PROVE LinkValues'
    BY <1>2 DEF LinkValues, ScanStored
  <1>3. CASE RetryExpires
    BY <1>3 DEF LinkValues, RetryExpires, Callers
  <1>4. CASE Settled
    BY <1>4 DEF LinkValues, Settled
  <1>5. CASE Create
    BY <1>5 DEF LinkValues, Create, AttemptFails
  <1>6. CASE List
    BY <1>6 DEF LinkValues, List, AttemptFails
  <1>7. CASE Arm
    BY <1>7 DEF LinkValues, Arm, AttemptFails
  <1>8. CASE ArmStored
    BY <1>8 DEF LinkValues, ArmStored
  <1>9. CASE ConnectExit
    <2>1. /\ retryTask' \in {"none", "waiting", "refused"}
          /\ scanCall' \in [Callers -> {"no", "start", "started", "refused"}]
      BY <1>9, ScheduleType DEF LinkValues, ConnectExit
    <2> QED
      BY <1>9, <2>1 DEF LinkValues, ConnectExit
  <1>10. ASSUME NEW p \in Peers, DeviceFound(p) PROVE LinkValues'
    <2>1. /\ retryTask' \in {"none", "waiting", "refused"}
          /\ scanCall' \in [Callers -> {"no", "start", "started", "refused"}]
      BY <1>10, ScheduleType DEF LinkValues, DeviceFound
    <2>2. slips' \subseteq {"early", "loose"}
      BY <1>10, SlipType DEF DeviceFound
    <2> QED
      BY <1>10, <2>1, <2>2 DEF LinkValues, DeviceFound
  <1>11. ASSUME NEW p \in Peers, NEW ok \in BOOLEAN, ConnectedCb(p, ok)
         PROVE  LinkValues'
    <2>1. /\ retryTask' \in {"none", "waiting", "refused"}
          /\ scanCall' \in [Callers -> {"no", "start", "started", "refused"}]
      BY <1>11, ScheduleType DEF LinkValues, ConnectedCb
    <2>2. slips' \subseteq {"early", "loose"}
      BY <1>11, SlipType DEF ConnectedCb
    <2> QED
      BY <1>11, <2>1, <2>2 DEF LinkValues, ConnectedCb, AttemptEnds
  <1>12. CASE DisconnectedCb
    <2>1. /\ retryTask' \in {"none", "waiting", "refused"}
          /\ scanCall' \in [Callers -> {"no", "start", "started", "refused"}]
      BY <1>12, ScheduleType DEF LinkValues, DisconnectedCb
    <2> QED
      BY <1>12, <2>1 DEF LinkValues, DisconnectedCb
  <1>13. CASE SetUpSaves \/ SetUpFails \/ SetUpDrops
    BY <1>13 DEF LinkValues, SetUpSaves, SetUpFails, SetUpDrops, DisableCalled,
                 Disablers
  <1>14. ASSUME NEW f \in Forgetters, Forget(f) PROVE LinkValues'
    BY <1>14 DEF LinkValues, Forget, DisableCalled, Disablers
  <1>15. ASSUME NEW f \in Forgetters, ForgetErase(f) PROVE LinkValues'
    BY <1>15 DEF LinkValues, ForgetErase
  <1>16. ASSUME NEW f \in Forgetters, ForgetDrop(f) PROVE LinkValues'
    <2>1. slips' \subseteq {"early", "loose"}
      BY <1>16, SlipType DEF ForgetDrop
    <2> QED
      BY <1>16, <2>1 DEF LinkValues, ForgetDrop
  <1>17. ASSUME NEW f \in Forgetters, ForgetRescan(f) PROVE LinkValues'
    <2>1. slips' \subseteq {"early", "loose"}
      BY <1>17, SlipType DEF ForgetRescan
    <2> QED
      BY <1>17, <2>1 DEF LinkValues, ForgetRescan, Callers
  <1>18. ASSUME NEW c \in Disablers,
                DisableStop(c) \/ DisableStored(c) \/ DisableClear(c)
         PROVE  LinkValues'
    <2>1. slips' \subseteq {"early", "loose"}
      BY <1>18, SlipType DEF LinkValues, DisableStop, DisableStored, DisableClear
    <2> QED
      BY <1>18, <2>1 DEF LinkValues, DisableStop, DisableStored, DisableClear
  <1>19. CASE UNCHANGED vars
    BY <1>19 DEF LinkValues, vars
  <1> QED
    BY <1>1, <1>2, <1>3, <1>4, <1>5, <1>6, <1>7, <1>8, <1>9, <1>10, <1>11, <1>12,
       <1>13, <1>14, <1>15, <1>16, <1>17, <1>18, <1>19
       DEF Next, ScanStep, ConnectStep, ForgetStep, DisableStep

LEMMA LinkTypeNext == TypeOK /\ [Next]_vars => TypeOK'
  BY LinkFlagsNext, LinkValuesNext DEF TypeOK, LinkFlags, LinkValues

-----------------------------------------------------------------------------
(* One attempt at a time.                                                   *)

(* The stack does one thing at a time, and connecting stands for it.        *)
OneAttempt ==
    /\ ~(armed /\ direct # NoPeer)
    /\ armed \/ direct # NoPeer => connecting

(* A task that is to make an attempt is the only one that makes a link, and *)
(* past its tests connecting stands for it too.                             *)
ConnectsAlone ==
    /\ connectTask \in {"settle", "create", "list", "arm"} =>
         ~armed /\ direct = NoPeer /\ ~Connected
    /\ connectTask \in {"create", "list", "arm"} => connecting
    /\ connectTask = "store" => direct = NoPeer

(* An auto-connect is for the controller that is still saved, or none is;   *)
(* a connection to one that was found is made only when none is saved.      *)
AttemptForSaved ==
    /\ armed \/ connectTask = "arm" =>
         SavedPeer \in {NoPeer, whitelist} \/ whitelist = NoPeer
    /\ direct # NoPeer \/ connectTask = "create" => ~savedValid

LinkInv ==
    \/ "loose" \in slips
    \/ OneLink /\ OneAttempt /\ ConnectsAlone /\ AttemptForSaved

DropsALink == dropping => Connected

LEMMA LinkInitInv == Init => LinkInv /\ DropsALink
  BY DEF Init, LinkInv, OneLink, OneAttempt, ConnectsAlone, AttemptForSaved,
         Connected, DropsALink

LEMMA LooseStays ==
  ASSUME TypeOK, [Next]_vars, "loose" \in slips
  PROVE  "loose" \in slips'
  BY DEF Next, vars, ScanStep, ConnectStep, ForgetStep, DisableStep, ScanStart,
         ScanStored, RetryExpires, DeviceFound, Settled, Create, List, Arm,
         ArmStored, ConnectExit, ConnectedCb, DisconnectedCb, SetUpSaves,
         SetUpFails, SetUpDrops, DisableStop, DisableStored, DisableClear,
         Forget, ForgetErase, ForgetDrop, ForgetRescan, Slip

LEMMA LinkNextInv ==
  ASSUME TypeOK, LinkInv, [Next]_vars
  PROVE  LinkInv'
  <1>1. CASE "loose" \in slips
    BY <1>1, LooseStays DEF LinkInv
  <1> SUFFICES ASSUME "loose" \notin slips PROVE LinkInv'
    BY <1>1
  <1> USE BleLinkAssumption
      DEF LinkInv, OneLink, OneAttempt, ConnectsAlone, AttemptForSaved, SavedPeer,
          Connected, linkVars, savedVars, forgetVars, taskVars, stackVars
  <1>2. ASSUME NEW c \in Callers, ScanStart(c) \/ ScanStored(c) PROVE LinkInv'
    BY <1>2 DEF ScanStart, ScanStored
  <1>3. CASE RetryExpires
    BY <1>3 DEF RetryExpires
  <1>4. CASE Settled
    BY <1>4 DEF Settled, TypeOK
  <1>5. CASE Create
    BY <1>5 DEF Create, AttemptFails, TypeOK
  <1>6. CASE List
    BY <1>6 DEF List, AttemptFails, TypeOK
  <1>7. CASE Arm
    BY <1>7 DEF Arm, AttemptFails, TypeOK
  <1>8. CASE ArmStored
    BY <1>8 DEF ArmStored, TypeOK
  <1>9. CASE ConnectExit
    BY <1>9 DEF ConnectExit
  <1>10. ASSUME NEW p \in Peers, DeviceFound(p) PROVE LinkInv'
    BY <1>10 DEF DeviceFound, TypeOK
  <1>11. ASSUME NEW p \in Peers, NEW ok \in BOOLEAN, ConnectedCb(p, ok)
         PROVE  LinkInv'
    BY <1>11 DEF ConnectedCb, AttemptEnds, TypeOK
  <1>12. CASE DisconnectedCb
    BY <1>12 DEF DisconnectedCb
  <1>13. CASE SetUpSaves
    BY <1>13 DEF SetUpSaves
  <1>14. CASE SetUpFails \/ SetUpDrops
    BY <1>14 DEF SetUpFails, SetUpDrops
  <1>15. ASSUME NEW f \in Forgetters,
                Forget(f) \/ ForgetErase(f) \/ ForgetDrop(f)
         PROVE  LinkInv'
    BY <1>15 DEF Forget, ForgetErase, ForgetDrop
  <1>16. ASSUME NEW f \in Forgetters, ForgetRescan(f) PROVE LinkInv'
    BY <1>16 DEF ForgetRescan, Slip, Attempting
  <1>17. ASSUME NEW c \in Disablers, DisableStop(c) \/ DisableStored(c)
         PROVE  LinkInv'
    BY <1>17 DEF DisableStop, DisableStored
  <1>18. ASSUME NEW c \in Disablers, DisableClear(c) PROVE LinkInv'
    BY <1>18 DEF DisableClear
  <1>19. CASE UNCHANGED vars
    BY <1>19 DEF vars
  <1> QED
    BY <1>2, <1>3, <1>4, <1>5, <1>6, <1>7, <1>8, <1>9, <1>10, <1>11, <1>12,
       <1>13, <1>14, <1>15, <1>16, <1>17, <1>18, <1>19
       DEF Next, ScanStep, ConnectStep, ForgetStep, DisableStep

LEMMA DropsALinkNext == DropsALink /\ [Next]_vars => DropsALink'
  <1> SUFFICES ASSUME DropsALink, [Next]_vars PROVE DropsALink'
    OBVIOUS
  <1> USE DEF DropsALink, Connected, linkVars
  <1>1. CASE ScanStep \/ RetryExpires \/ ConnectStep \/ DisableStep
    BY <1>1 DEF ScanStep, ConnectStep, DisableStep, ScanStart, ScanStored,
                RetryExpires, Settled, Create, List, Arm, ArmStored, ConnectExit,
                DisableStop, DisableStored, DisableClear
  <1>2. CASE \/ \E p \in Peers : DeviceFound(p)
             \/ \E p \in Peers, ok \in BOOLEAN : ConnectedCb(p, ok)
             \/ DisconnectedCb
    BY <1>2, BleLinkAssumption DEF DeviceFound, ConnectedCb, DisconnectedCb
  <1>3. CASE SetUpSaves \/ SetUpFails \/ SetUpDrops
    BY <1>3 DEF SetUpSaves, SetUpFails, SetUpDrops
  <1>4. CASE (\E f \in Forgetters : Forget(f)) \/ ForgetStep
    BY <1>4 DEF Forget, ForgetStep, ForgetErase, ForgetDrop, ForgetRescan
  <1>5. CASE UNCHANGED vars
    BY <1>5 DEF vars
  <1> QED
    BY <1>1, <1>2, <1>3, <1>4, <1>5 DEF Next

LEMMA LinkAlways == Spec => [](TypeOK /\ LinkInv /\ DropsALink)
  BY LinkTypeInit, LinkTypeNext, LinkInitInv, LinkNextInv, DropsALinkNext, PTL
     DEF Spec

(* The flags, the tasks' positions and the stack's state stay in their      *)
(* ranges (pro2_ble.c), for any controllers and any forgetting tasks.       *)
THEOREM LinkTypeCorrect == Spec => []TypeOK
  BY LinkAlways, PTL

(* However the callbacks, the tasks and any number of forgets interleave, a *)
(* second link is not in the making while one is up, until an attempt was   *)
(* let loose (connected_cb, connect_selected_task, disable_auto_connect).   *)
THEOREM NeverTwoLinks == Spec => []OneLink
  <1>1. LinkInv => OneLink
    BY DEF LinkInv, OneLink
  <1> QED
    BY LinkAlways, <1>1, PTL

(* What the set-up takes for granted of the search: with a saved controller *)
(* no other one is connected, although the controller can be forgotten, and *)
(* another one saved, at any point of an attempt; and a second link does    *)
(* not come up while one is there, until an attempt was let loose           *)
(* (pro2_ble_forget_peer, device_found, connected_cb).                      *)
THEOREM SearchKeepsLife == Spec => KeepsLife
  <1> DEFINE Step == Life!LifeNext \/ "loose" \in slips
  <1>1. Init => Life!LifeInit
    BY DEF Init, Life!LifeInit, SavedPeer
  <1>2. ASSUME TypeOK, LinkInv, DropsALink, [Next]_vars
        PROVE  [Step]_(Life!lifeVars)
    <2> SUFFICES ASSUME "loose" \notin slips
                 PROVE  [Life!LifeNext]_(Life!lifeVars)
      OBVIOUS
    <2> USE BleLinkAssumption
        DEF Life!LifeNext, Life!lifeVars, linkVars, savedVars, SavedPeer
    <2>1. ASSUME NEW p \in Peers, NEW ok \in BOOLEAN, ConnectedCb(p, ok)
          PROVE  [Life!LifeNext]_(Life!lifeVars)
      <3>1. connection = NoPeer /\ SavedPeer \in {NoPeer, p}
        BY <1>2, <2>1 DEF ConnectedCb, AttemptEnds, LinkInv, OneLink, Connected,
                          AttemptForSaved
      <3>2. CASE ok
        <4>1. Life!Connect(p)
          BY <2>1, <3>1, <3>2 DEF ConnectedCb, Life!Connect
        <4> QED
          BY <4>1
      <3>3. CASE ~ok
        BY <2>1, <3>3 DEF ConnectedCb
      <3> QED
        BY <3>2, <3>3
    <2>2. CASE DisconnectedCb
      BY <2>2 DEF DisconnectedCb, Connected, Life!Lose
    <2>3. CASE SetUpSaves
      BY <2>3 DEF SetUpSaves, Connected, Life!Save
    <2>4. CASE SetUpFails
      BY <2>4 DEF SetUpFails
    <2>5. CASE SetUpDrops
      BY <1>2, <2>5 DEF SetUpDrops, Connected, DropsALink, Life!Tell, TypeOK
    <2>6. ASSUME NEW f \in Forgetters, Forget(f) \/ ForgetErase(f) \/ ForgetRescan(f)
          PROVE  [Life!LifeNext]_(Life!lifeVars)
      BY <2>6 DEF Forget, ForgetErase, ForgetRescan, Life!Forget
    <2>7. ASSUME NEW f \in Forgetters, ForgetDrop(f)
          PROVE  [Life!LifeNext]_(Life!lifeVars)
      BY <2>7 DEF ForgetDrop, Connected, Life!Tell
    <2>8. CASE \/ ScanStep \/ RetryExpires \/ ConnectStep \/ DisableStep
               \/ (\E p \in Peers : DeviceFound(p)) \/ UNCHANGED vars
      <3>1. UNCHANGED <<linkVars, savedVars>>
        BY <2>8 DEF ScanStep, ConnectStep, DisableStep, ScanStart, ScanStored,
                    RetryExpires, Settled, Create, List, Arm, ArmStored,
                    ConnectExit, DisableStop, DisableStored, DisableClear,
                    DeviceFound, vars
      <3> QED
        BY <3>1
    <2> QED
      BY <1>2, <2>1, <2>2, <2>3, <2>4, <2>5, <2>6, <2>7, <2>8 DEF Next, ForgetStep
  <1> QED
    BY LinkAlways, <1>1, <1>2, PTL DEF Spec, KeepsLife

-----------------------------------------------------------------------------
(* The search goes on: what the flags say, as long as there was no slip.    *)

Forgetting == \E f \in Forgetters : forgetPc[f] # "no"

(* The mirror and the task that sets it are right about the auto-connect,   *)
(* but for a task that is to clear the mirror next.                         *)
Storing == \E f \in Forgetters : disable[f] = "store"

MirrorSays ==
    /\ autoConnect \/ connectTask = "store" => armed \/ Storing
    /\ Connected => ~autoConnect /\ connectTask # "store"
    /\ disable["setup"] # "stop"
    /\ \A f \in Forgetters : disable[f] # "no" => forgetPc[f] = "disable"

(* scanning is right, but for a forget that is to clear it next.            *)
ScanningSays ==
    /\ scanning => stackScan \/ \E f \in Forgetters : forgetPc[f] = "rescan"
    /\ ScanUnstored => stackScan

(* connecting stands for an attempt, a link, or a forget that clears it.    *)
ConnectingSays ==
    connecting =>
        \/ armed \/ direct # NoPeer \/ Connected \/ Forgetting
        \/ connectTask \in {"settle", "create", "list", "arm", "store"}

(* The whitelist of an auto-connect is not empty.                           *)
ListFilled ==
    /\ savedValid \/ connectTask = "list" => savedAddress # NoPeer
    /\ connectTask \in {"settle", "create"} => pendingPeer # NoPeer
    /\ connectTask = "arm" \/ armed => whitelist # NoPeer

FlagsSay == MirrorSays /\ ScanningSays /\ ConnectingSays /\ ListFilled

(* Someone is searching, or about to go on with it.                         *)
Alive ==
    \/ GivenUp \/ Connected \/ stackScan \/ retryTask = "waiting"
    \/ armed \/ direct # NoPeer \/ connectTask # "no"
    \/ (\E c \in Callers : scanCall[c] # "no") \/ Forgetting

SearchInv == slips # {} \/ (FlagsSay /\ Alive)

LEMMA SearchInitInv == Init => SearchInv
  BY BleLinkAssumption
     DEF Init, SearchInv, FlagsSay, MirrorSays, ScanningSays, ConnectingSays,
         ListFilled, Alive, Connected, Disablers, Callers, Storing, Forgetting,
         ScanUnstored

LEMMA SlipsStay ==
  ASSUME TypeOK, [Next]_vars, slips # {}
  PROVE  slips' # {}
  BY DEF Next, vars, ScanStep, ConnectStep, ForgetStep, DisableStep, ScanStart,
         ScanStored, RetryExpires, DeviceFound, Settled, Create, List, Arm,
         ArmStored, ConnectExit, ConnectedCb, DisconnectedCb, SetUpSaves,
         SetUpFails, SetUpDrops, DisableStop, DisableStored, DisableClear,
         Forget, ForgetErase, ForgetDrop, ForgetRescan, Slip

LEMMA FlagsSayNext ==
  ASSUME TypeOK, LinkInv, slips = {}, FlagsSay, [Next]_vars, slips' = {}
  PROVE  FlagsSay'
  <1> USE BleLinkAssumption
      DEF FlagsSay, MirrorSays, ScanningSays, ConnectingSays, ListFilled,
          Storing, Forgetting, ScanUnstored,
          Connected, linkVars, savedVars, forgetVars, taskVars, stackVars
  <1>0. OneLink /\ OneAttempt /\ ConnectsAlone
    BY DEF LinkInv
  <1>s. "setup" \notin Forgetters /\ "setup" \in Disablers
    BY DEF Disablers
  <1>1. ASSUME NEW c \in Callers, ScanStart(c) \/ ScanStored(c) PROVE FlagsSay'
    BY <1>1 DEF ScanStart, ScanStored, TypeOK
  <1>3. CASE RetryExpires
    BY <1>3 DEF RetryExpires, TypeOK
  <1>4. CASE Settled
    BY <1>4 DEF Settled, TypeOK
  <1>5. CASE Create
    BY <1>5 DEF Create, AttemptFails, TypeOK
  <1>6. CASE List
    BY <1>6 DEF List, AttemptFails, TypeOK
  <1>7. CASE Arm
    BY <1>7, <1>0 DEF Arm, AttemptFails, TypeOK, ConnectsAlone
  <1>8. CASE ArmStored
    BY <1>8 DEF ArmStored, TypeOK
  <1>9. CASE ConnectExit
    BY <1>9 DEF ConnectExit, ScheduleScanRetry, TypeOK
  <1>10. ASSUME NEW p \in Peers, DeviceFound(p) PROVE FlagsSay'
    BY <1>10 DEF DeviceFound, ScheduleScanRetry, TypeOK, Slip
  <1>11. ASSUME NEW p \in Peers, NEW ok \in BOOLEAN, ConnectedCb(p, ok)
         PROVE  FlagsSay'
    BY <1>11, <1>0 DEF ConnectedCb, AttemptEnds, ScheduleScanRetry, TypeOK, Slip,
                       OneLink, OneAttempt
  <1>12. CASE DisconnectedCb
    BY <1>12, <1>0 DEF DisconnectedCb, ScheduleScanRetry, TypeOK
  <1>13. CASE SetUpSaves \/ SetUpFails \/ SetUpDrops
    <2>1. CASE SetUpSaves
      BY <2>1 DEF SetUpSaves, TypeOK
    <2>2. CASE SetUpFails \/ SetUpDrops
      <3>1. /\ disable'["setup"] # "stop"
            /\ \A f \in Forgetters : disable'[f] = disable[f]
        <4>1. CASE SetUpFails
          <5>1. disable' = [disable EXCEPT !["setup"] = "store"]
            BY <4>1 DEF SetUpFails, DisableCalled
          <5> QED
            BY <1>s, <5>1 DEF TypeOK
        <4>2. CASE SetUpDrops
          BY <1>s, <4>2 DEF SetUpDrops, TypeOK
        <4> QED
          BY <2>2, <4>1, <4>2
      <3> QED
        BY <2>2, <3>1 DEF SetUpFails, SetUpDrops
    <2> QED
      BY <1>13, <2>1, <2>2
  <1>14. ASSUME NEW f \in Forgetters, Forget(f) \/ ForgetErase(f) PROVE FlagsSay'
    <2>1. CASE Forget(f)
      <3>1. disable[f] = "no"
        BY <2>1 DEF Forget, Disablers, TypeOK
      <3>2. /\ disable'["setup"] = disable["setup"]
            /\ forgetPc'[f] = "disable"
            /\ \A g \in Forgetters \ {f} : /\ disable'[g] = disable[g]
                                          /\ forgetPc'[g] = forgetPc[g]
        BY <1>s, <2>1 DEF Forget, DisableCalled, Disablers, TypeOK
      <3>3. /\ Storing => Storing'
            /\ forgetPc[f] = "no"
        BY <2>1, <3>1, <3>2 DEF Forget
      <3> QED
        BY <2>1, <3>1, <3>2, <3>3 DEF Forget
    <2>2. CASE ForgetErase(f)
      <3>1. \A g \in Forgetters \ {f} : forgetPc'[g] = forgetPc[g]
        BY <2>2 DEF ForgetErase, TypeOK
      <3>2. forgetPc'[f] = "drop" /\ disable[f] = "no"
        BY <2>2 DEF ForgetErase, TypeOK
      <3> QED
        BY <2>2, <3>1, <3>2 DEF ForgetErase
    <2> QED
      BY <1>14, <2>1, <2>2
  <1>15. ASSUME NEW f \in Forgetters, ForgetDrop(f) PROVE FlagsSay'
    <2>1. /\ forgetPc[f] = "drop"
          /\ UNCHANGED <<connection, connecting, scanning, autoConnect, savedVars,
                         taskVars, retryTask, scanCall, scanFailed, disable,
                         whitelist, armed, direct>>
      BY <1>15 DEF ForgetDrop
    <2>2. CASE Connected
      BY <1>15, <2>1, <2>2 DEF ForgetDrop, TypeOK
    <2>3. CASE ~Connected
      <3>1. /\ forgetPc'[f] = "rescan"
            /\ \A g \in Forgetters \ {f} : forgetPc'[g] = forgetPc[g]
        BY <1>15, <2>3 DEF ForgetDrop, TypeOK
      <3>2. ~(scanning /\ ScanUnstored)
        BY <1>15, <3>1 DEF ForgetDrop, Slip
      <3>3. stackScan' = stackScan \/ scanning
        BY <1>15, <2>3 DEF ForgetDrop
      <3>4. MirrorSays'
        BY <2>1, <3>1
      <3>5. ScanningSays'
        BY <2>1, <3>1, <3>2, <3>3
      <3>6. ConnectingSays' /\ ListFilled'
        BY <2>1, <2>3, <3>1
      <3> QED
        BY <3>4, <3>5, <3>6
    <2> QED
      BY <2>2, <2>3
  <1>16. ASSUME NEW f \in Forgetters, ForgetRescan(f) PROVE FlagsSay'
    BY <1>16 DEF ForgetRescan, Slip, Attempting, TypeOK
  <1>17. ASSUME NEW c \in Disablers, DisableStop(c) PROVE FlagsSay'
    <2>1. c \in Forgetters
      BY <1>17 DEF DisableStop, Disablers
    <2>2. /\ disable' = [disable EXCEPT ![c] = "store"] /\ disable[c] = "stop"
          /\ disable'[c] = "store" /\ forgetPc[c] = "disable"
      BY <1>17, <2>1 DEF DisableStop, Disablers, TypeOK
    <2>3. Storing' /\ disable'["setup"] # "stop"
      BY <1>s, <2>1, <2>2 DEF TypeOK
    <2>4. \A g \in Forgetters : disable'[g] # "no" => forgetPc[g] = "disable"
      BY <2>2 DEF TypeOK
    <2>5. armed' => armed
      BY <1>17 DEF DisableStop, TypeOK
    <2>6. Forgetting'
      BY <1>17, <2>1, <2>2 DEF DisableStop
    <2>7. MirrorSays' /\ ConnectingSays'
      BY <1>17, <2>3, <2>4, <2>6 DEF DisableStop
    <2>8. ScanningSays' /\ ListFilled'
      BY <1>17, <2>5 DEF DisableStop
    <2> QED
      BY <2>7, <2>8
  <1>18. ASSUME NEW c \in Disablers, DisableStored(c) PROVE FlagsSay'
    BY <1>18 DEF DisableStored, Disablers, TypeOK, Slip
  <1>19. ASSUME NEW c \in Disablers, DisableClear(c) PROVE FlagsSay'
    BY <1>19 DEF DisableClear, Disablers, TypeOK, Slip
  <1>20. CASE UNCHANGED vars
    BY <1>20 DEF vars
  <1> QED
    BY <1>1, <1>3, <1>4, <1>5, <1>6, <1>7, <1>8, <1>9, <1>10, <1>11, <1>12,
       <1>13, <1>14, <1>15, <1>16, <1>17, <1>18, <1>19, <1>20
       DEF Next, ScanStep, ConnectStep, ForgetStep, DisableStep

(* A flag that turns schedule_scan_retry away stands for something.         *)
LEMMA ScheduledLives ==
  ASSUME TypeOK, FlagsSay', ScheduleScanRetry, ~connecting'
  PROVE  Alive'
  BY DEF ScheduleScanRetry, FlagsSay, MirrorSays, ScanningSays, BusyNext, Alive,
         GivenUp, Connected, Storing, Forgetting, Callers, TypeOK

LEMMA AliveNext ==
  ASSUME TypeOK, LinkInv, slips = {}, FlagsSay, Alive, FlagsSay', [Next]_vars,
         slips' = {}
  PROVE  Alive'
  <1> USE BleLinkAssumption
      DEF Alive, GivenUp, Forgetting,
          Connected, linkVars, savedVars, forgetVars, taskVars, stackVars
  <1>1. ASSUME NEW c \in Callers, ScanStart(c) \/ ScanStored(c) PROVE Alive'
    BY <1>1 DEF ScanStart, ScanStored, TypeOK, FlagsSay, ScanningSays, ScanUnstored
  <1>3. CASE RetryExpires
    BY <1>3 DEF RetryExpires, TypeOK, FlagsSay, MirrorSays, ScanningSays,
                ConnectingSays, Storing, Callers
  <1>4. CASE Settled \/ Create \/ List \/ Arm \/ ArmStored
    BY <1>4 DEF Settled, Create, List, Arm, ArmStored, AttemptFails, TypeOK
  <1>9. CASE ConnectExit
    BY <1>9, ScheduledLives DEF ConnectExit, TypeOK, FlagsSay, ConnectingSays
  <1>10. ASSUME NEW p \in Peers, DeviceFound(p) PROVE Alive'
    BY <1>10, ScheduledLives DEF DeviceFound
  <1>11. ASSUME NEW p \in Peers, NEW ok \in BOOLEAN, ConnectedCb(p, ok)
         PROVE  Alive'
    BY <1>11, ScheduledLives DEF ConnectedCb
  <1>12. CASE DisconnectedCb
    BY <1>12, ScheduledLives DEF DisconnectedCb
  <1>13. CASE SetUpSaves \/ SetUpFails \/ SetUpDrops
    BY <1>13 DEF SetUpSaves, SetUpFails, SetUpDrops
  <1>14. ASSUME NEW f \in Forgetters, Forget(f) \/ ForgetErase(f) PROVE Alive'
    BY <1>14 DEF Forget, ForgetErase, TypeOK
  <1>15. ASSUME NEW f \in Forgetters, ForgetDrop(f) PROVE Alive'
    BY <1>15 DEF ForgetDrop, TypeOK
  <1>16. ASSUME NEW f \in Forgetters, ForgetRescan(f) PROVE Alive'
    <2>1. CASE BusyNext
      BY <1>16, <2>1 DEF ForgetRescan, BusyNext, FlagsSay, MirrorSays, Storing
    <2>2. CASE ~BusyNext
      <3>1. f \in Callers /\ scanCall'[f] = "start"
        BY <1>16, <2>2 DEF ForgetRescan, TypeOK, Callers
      <3> QED
        BY <3>1
    <2> QED
      BY <2>1, <2>2
  <1>17. ASSUME NEW c \in Disablers,
                DisableStop(c) \/ DisableStored(c) \/ DisableClear(c)
         PROVE  Alive'
    BY <1>17 DEF DisableStop, DisableStored, DisableClear, Disablers, TypeOK,
                 FlagsSay, MirrorSays
  <1>20. CASE UNCHANGED vars
    BY <1>20 DEF vars
  <1> QED
    BY <1>1, <1>3, <1>4, <1>9, <1>10, <1>11, <1>12, <1>13, <1>14, <1>15, <1>16,
       <1>17, <1>20
       DEF Next, ScanStep, ConnectStep, ForgetStep, DisableStep

(* Whatever the callbacks, the tasks and any number of forgets do, and in   *)
(* whatever order, a controller that is not connected is looked for, until  *)
(* the search was given up or there was a slip (schedule_scan_retry,        *)
(* start_reconnect, start_scan, connect_selected_task, connected_cb).       *)
THEOREM SearchGoesOn == Spec => []SearchesUnlessSlip
  <1>1. TypeOK /\ LinkInv /\ SearchInv /\ [Next]_vars => SearchInv'
    BY SlipsStay, FlagsSayNext, AliveNext DEF SearchInv
  <1>2. SearchInv => SearchesUnlessSlip
    BY DEF SearchInv, SearchesUnlessSlip, FlagsSay, ListFilled, Alive, Searching,
           Quiet, Forgetting
  <1> QED
    BY LinkAlways, SearchInitInv, <1>1, <1>2, PTL DEF Spec
=============================================================================
