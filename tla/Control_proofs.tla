--------------------------- MODULE Control_proofs ---------------------------
(***************************************************************************)
(* Proofs about Control for any settings and addresses, however the page's *)
(* commands overlap: the dongle keeps the address its controllers know, the *)
(* settings implement SettingsStore, and only an answer that another       *)
(* command has crossed can be a lie.                                       *)
(***************************************************************************)
EXTENDS Control, TLAPS

-----------------------------------------------------------------------------
(* Start-up.                                                                *)

(* The address used last is the one in the flash; one that is about to be   *)
(* used is in the flash, unless there is none there.                        *)
AddressInv ==
    /\ known # NoAddress => stored = known
    /\ bt = "set" => address = stored
    /\ bt \in {"store", "vain"} => stored = NoAddress

LEMMA AddressInit == StartupInit => AddressInv
  BY DEF StartupInit, AddressInv

LEMMA AddressNext ==
  ASSUME AddressInv, StartupStep \/ PowerCut \/ UNCHANGED startupVars
  PROVE  AddressInv'
  <1> USE DEF AddressInv
  <1>1. CASE BleStart \/ BtEnable \/ StartUsb
    BY <1>1 DEF BleStart, BtEnable, StartUsb
  <1>2. CASE LoadAddress
    BY <1>2 DEF LoadAddress
  <1>3. CASE MakeAddress
    BY <1>3 DEF MakeAddress
  <1>4. CASE StoreAddress
    BY <1>4 DEF StoreAddress
  <1>5. CASE SetAddress
    BY <1>5 DEF SetAddress
  <1>6. CASE PowerCut
    BY <1>6 DEF PowerCut
  <1>7. CASE UNCHANGED startupVars
    BY <1>7 DEF startupVars
  <1> QED
    BY <1>1, <1>2, <1>3, <1>4, <1>5, <1>6, <1>7 DEF StartupStep

LEMMA StartupTypeNext ==
  ASSUME StartupTypeOK, StartupStep \/ PowerCut \/ UNCHANGED startupVars
  PROVE  StartupTypeOK'
  BY DEF StartupTypeOK, StartupStep, BleStart, BtEnable, LoadAddress, MakeAddress,
         StoreAddress, SetAddress, StartUsb, PowerCut, startupVars, Addresses

(* Every step of the whole is one of the start-up, a power cut or leaves    *)
(* the start-up alone.                                                      *)
LEMMA ControlStepsStartup ==
  [ControlNext]_controlVars => StartupStep \/ PowerCut \/ UNCHANGED startupVars
  BY DEF ControlNext, Served, Starts, Cut, controlVars

(* Whatever the chip reports after each restart, whichever store fails and  *)
(* wherever the power is cut, the address the controllers know is the one   *)
(* used next (ensure_stable_local_address).                                 *)
THEOREM AddressIsKept == ControlSpec => KnownAddress
  <1>1. ControlInit => AddressInv
    BY AddressInit DEF ControlInit
  <1>2. AddressInv /\ [ControlNext]_controlVars => AddressInv'
    BY AddressNext, ControlStepsStartup
  <1>3. ASSUME AddressInv, [ControlNext]_controlVars
        PROVE  [bt # "ready" /\ bt' = "ready" /\ known # NoAddress
                  => address = known]_startupVars
    <2> SUFFICES ASSUME bt # "ready", bt' = "ready", known # NoAddress
                 PROVE  address = known
      OBVIOUS
    <2>1. CASE SetAddress
      BY <1>3, <2>1 DEF AddressInv, SetAddress
    <2>2. CASE ~SetAddress
      BY <1>3, <2>2, ControlStepsStartup
         DEF StartupStep, BleStart, BtEnable, LoadAddress, MakeAddress,
             StoreAddress, StartUsb, PowerCut, startupVars
    <2> QED
      BY <2>1, <2>2
  <1> QED
    BY <1>1, <1>2, <1>3, PTL DEF ControlSpec, KnownAddress

-----------------------------------------------------------------------------
(* The settings.                                                            *)

USE FeatureAssumption, RecordAssumption

LEMMA ConfigFacts ==
  /\ Default \in Configs /\ Zeroes \in Configs
  /\ \A r \in Configs \cup {NoRecord} : Loaded(r) \in Configs
  /\ \A r \in Configs : Loaded(r) = r
  /\ \A r, q \in Configs :
       r.rumble = q.rumble /\ r.deadzone = q.deadzone => r = q
  BY DEF Configs, Default, Zeroes, Loaded

Tasks == [pc : {"idle", "clear", "rumble", "deadzone", "mark", "read", "read2",
                "write", "clean", "command", "status", "forget", "release"},
          action : Actions \cup {"none"}, copy : Configs, ok : BOOLEAN]

Pages == [wait : [Buttons -> {"no", "answer", "poll"}],
          draft : Configs \cup {Invalid}]

Crossings == [now : BOOLEAN, lost : BOOLEAN]

LEMMA IdleTypes ==
  /\ Idle \in Tasks
  /\ NoWait \in Pages
  BY ConfigFacts DEF Idle, NoWait, Tasks, Pages, Buttons, Actions

LEMMA FeatureTypeInit == FeatureInit => FeatureTypeOK
  <1> SUFFICES ASSUME FeatureInit PROVE FeatureTypeOK
    OBVIOUS
  <1>1. settings \in Configs /\ flash \in Configs \cup {NoRecord}
    BY ConfigFacts DEF FeatureInit
  <1>2. task \in Tasks /\ page \in Pages
    BY IdleTypes DEF FeatureInit
  <1>3. /\ dirty = FALSE /\ pending = "none"
        /\ reply = [command |-> "none", status |-> "idle"]
        /\ crossing \in Crossings
    BY DEF FeatureInit, NotCrossed, Crossings
  <1> QED
    BY <1>1, <1>2, <1>3 DEF FeatureTypeOK, Tasks, Pages, Crossings

LEMMA PageType ==
  ASSUME FeatureTypeOK, NEW b \in Buttons, NEW w \in {"no", "answer", "poll"},
         NEW d \in Configs \cup {Invalid}
  PROVE  [wait |-> [page.wait EXCEPT ![b] = w], draft |-> d] \in Pages
  BY DEF FeatureTypeOK, Pages

(* What a command answered in the interrupt records of itself.              *)
LEMMA CrossFacts ==
  ASSUME FeatureTypeOK, NEW changed \in BOOLEAN, Cross(changed)
  PROVE  /\ crossing' \in Crossings
         /\ crossing'.now = Unanswered
         /\ changed => crossing'.lost = FALSE
         /\ ~changed => crossing'.lost = crossing.lost
  <1>1. Unanswered \in BOOLEAN
    BY Zenon DEF Unanswered
  <1>2. crossing.lost \in BOOLEAN
    BY DEF FeatureTypeOK
  <1>3. PICK u \in BOOLEAN : u = Unanswered
    BY <1>1
  <1>4. crossing' = [now |-> u, lost |-> IF changed THEN FALSE ELSE crossing.lost]
    BY <1>3, Zenon DEF Cross
  <1> QED
    BY <1>2, <1>3, <1>4 DEF Crossings

LEMMA ActionCrossing ==
  ASSUME FeatureTypeOK, NEW b \in Actions, PressAction(b)
  PROVE  /\ crossing' \in Crossings
         /\ crossing'.lost = crossing.lost
  <1>1. CASE Queue(b)
    BY <1>1 DEF Queue, FeatureTypeOK, Crossings
  <1>2. CASE SetBadForget
    BY <1>2, CrossFacts DEF SetBadForget
  <1> QED
    BY <1>1, <1>2 DEF PressAction

LEMMA ApplyCrossing ==
  ASSUME FeatureTypeOK, NEW c, SetApply(c)
  PROVE  /\ crossing' \in Crossings
         /\ crossing'.now = Unanswered
         /\ c \in {Invalid, settings} => crossing'.lost = crossing.lost
         /\ c \notin {Invalid, settings} => crossing'.lost = FALSE
  <1>1. PICK changed \in BOOLEAN : changed = (c \notin {Invalid, settings})
    OBVIOUS
  <1>2. Cross(changed)
    BY <1>1, Zenon DEF SetApply
  <1> QED
    BY <1>1, <1>2, CrossFacts

LEMMA TaskType ==
  ASSUME FeatureTypeOK, FeatureTask
  PROVE  task' \in Tasks
  <1> USE DEF FeatureTypeOK, Tasks, At
  <1>1. CASE Take
    BY <1>1, ConfigFacts DEF Take, Idle, Actions
  <1>2. CASE Clear \/ FillRumble \/ FillDeadzone \/ Mark
    BY <1>2 DEF Clear, FillRumble, FillDeadzone, Mark
  <1>3. CASE ReadRumble \/ ReadDeadzone
    <2>1. \A c \in Configs, r \in Rumbles, d \in Deadzones :
             [c EXCEPT !.rumble = r] \in Configs /\ [c EXCEPT !.deadzone = d] \in Configs
      BY DEF Configs
    <2>2. /\ [task.copy EXCEPT !.rumble = settings.rumble] \in Configs
          /\ [task.copy EXCEPT !.deadzone = settings.deadzone] \in Configs
      BY <2>1 DEF Configs
    <2>3. \E c \in Configs, pc \in {"read2", "write"} :
             task' = [task EXCEPT !.pc = pc, !.copy = c]
      BY <1>3, <2>2 DEF ReadRumble, ReadDeadzone
    <2> QED
      BY <2>3
  <1>4. CASE Write
    BY <1>4, ConfigFacts DEF Write
  <1>5. CASE Clean
    BY <1>5 DEF Clean
  <1>6. CASE ForgetPeer
    BY <1>6 DEF ForgetPeer
  <1>7. CASE SayCommand
    BY <1>7 DEF SayCommand
  <1>8. CASE SayStatus
    BY <1>8 DEF SayStatus
  <1>9. CASE Release
    BY <1>9, IdleTypes DEF Release
  <1> QED
    BY <1>1, <1>2, <1>3, <1>4, <1>5, <1>6, <1>7, <1>8, <1>9 DEF FeatureTask

LEMMA TaskKeepsTypes ==
  ASSUME FeatureTypeOK, FeatureTask
  PROVE  /\ settings' \in Configs /\ dirty' \in BOOLEAN
         /\ flash' \in Configs \cup {NoRecord}
         /\ reply'.command \in Buttons \cup {"none"}
         /\ reply' = [command |-> reply'.command, status |-> reply'.status]
         /\ reply'.status \in {"idle", "pending", "ok", "invalid", "flash_error"}
         /\ pending' \in Actions \cup {"none"}
         /\ page' = page
         /\ crossing' \in Crossings /\ crossing'.now = crossing.now
  <1> USE DEF FeatureTypeOK, Crossings, At
  <1>1. CASE Take \/ ReadRumble \/ ReadDeadzone \/ ForgetPeer
    BY <1>1 DEF Take, ReadRumble, ReadDeadzone, ForgetPeer
  <1>2. CASE Clear
    BY <1>2, ConfigFacts DEF Clear
  <1>3. CASE FillRumble \/ FillDeadzone
    BY <1>3 DEF FillRumble, FillDeadzone, Configs
  <1>4. CASE Mark \/ Clean
    BY <1>4 DEF Mark, Clean
  <1>5. CASE Write
    BY <1>5 DEF Write
  <1>6. CASE SayCommand
    BY <1>6 DEF SayCommand, Buttons
  <1>7. CASE SayStatus
    BY <1>7 DEF SayStatus
  <1>8. CASE Release
    BY <1>8 DEF Release
  <1> QED
    BY <1>1, <1>2, <1>3, <1>4, <1>5, <1>6, <1>7, <1>8 DEF FeatureTask

LEMMA FeatureTypeNext ==
  ASSUME FeatureTypeOK, FeatureNext \/ Boot \/ UNCHANGED featureVars
  PROVE  FeatureTypeOK'
  <1> USE ConfigFacts
  <1>1. ASSUME NEW c \in Configs \cup {Invalid}, PressApply(c)
        PROVE  FeatureTypeOK'
    <2>1. settings' \in Configs /\ dirty' \in BOOLEAN /\ page' \in Pages
      BY <1>1, PageType DEF PressApply, SetApply, Ask, FeatureTypeOK, Buttons
    <2>2. crossing' \in Crossings
      BY <1>1, ApplyCrossing DEF PressApply
    <2> QED
      BY <1>1, <2>1, <2>2 DEF PressApply, SetApply, Complete, FeatureTypeOK, Pages,
                              Buttons, Crossings
  <1>2. ASSUME NEW b \in Actions, PressAction(b) PROVE FeatureTypeOK'
    <2>1. page' \in Pages
      BY <1>2, PageType DEF PressAction, Ask, FeatureTypeOK, Buttons
    <2>2. crossing' \in Crossings
      BY <1>2, ActionCrossing
    <2>3. UNCHANGED <<settings, dirty, flash, task>>
      BY <1>2 DEF PressAction, Queue, SetBadForget
    <2>4. pending' \in Actions \cup {"none"}
      BY <1>2 DEF PressAction, Queue, SetBadForget, FeatureTypeOK
    <2>5. reply' \in [command : Buttons \cup {"none"},
                      status : {"idle", "pending", "ok", "invalid", "flash_error"}]
      <3>1. \/ reply' = reply
            \/ \E r \in Buttons, st \in {"pending", "invalid"} :
                 reply' = [command |-> r, status |-> st]
        BY <1>2 DEF PressAction, Queue, SetBadForget, Complete, Buttons, Actions
      <3> QED
        BY <3>1 DEF FeatureTypeOK
    <2> QED
      BY <2>1, <2>2, <2>3, <2>4, <2>5 DEF FeatureTypeOK, Pages, Crossings
  <1>3. ASSUME NEW b \in Buttons, Get(b) \/ GiveUp(b) PROVE FeatureTypeOK'
    <2>1. page' \in Pages
      <3>1. CASE Settle(b)
        BY <3>1, PageType, ConfigFacts DEF Settle, FeatureTypeOK
      <3>2. CASE page' = [page EXCEPT !.wait[b] = "poll"]
        BY <3>2 DEF FeatureTypeOK, Pages
      <3> QED
        BY <1>3, <3>1, <3>2 DEF Get, GiveUp
    <2> QED
      BY <1>3, <2>1 DEF Get, GiveUp, FeatureTypeOK, Pages
  <1>4. CASE FeatureTask
    BY <1>4, TaskKeepsTypes, TaskType DEF FeatureTypeOK, Tasks, Crossings
  <1>5. CASE Boot
    BY <1>5, IdleTypes DEF Boot, NotCrossed, FeatureTypeOK, Tasks, Pages
  <1>6. CASE UNCHANGED featureVars
    BY <1>6 DEF featureVars, FeatureTypeOK
  <1> QED
    BY <1>1, <1>2, <1>3, <1>4, <1>5, <1>6 DEF FeatureNext, Press, Poll

-----------------------------------------------------------------------------
(* The invariant.  Commands overlap, so the answer on record, and what the  *)
(* task has done so far, are what they should be only while no command      *)
(* answered in the interrupt has crossed the task's.                        *)

TaskIsPending ==
    /\ task.pc # "idle" => pending # "none" /\ task.action = pending
    /\ ~crossing.now =>
         /\ reply.status = "pending" <=> Unanswered
         /\ reply.status = "pending" => reply.command = pending

(* Which action brings the task where.                                      *)
TaskAction ==
    /\ task.pc \in {"clear", "rumble", "deadzone", "mark"} => task.action = "reset"
    /\ task.pc \in {"read", "read2", "write", "clean"} => task.action # "forget"
    /\ task.pc = "forget" => task.action = "forget"

(* What a reset has set so far, and what a save has stored so far.          *)
WorkDone ==
    ~crossing.now =>
      /\ task.pc = "deadzone" => settings.rumble = DefaultRumble
      /\ task.action = "reset"
           /\ task.pc \in {"mark", "read", "read2", "write", "clean", "command", "status"}
             => settings = Default
      /\ task.pc \in {"clean", "command", "status"}
           /\ task.ok /\ task.action # "forget" => flash = settings
      /\ task.pc \in {"command", "status"}
           /\ task.ok /\ task.action # "forget" => ~dirty

(* What a save has read so far: an apply that changes it marks it dirty.    *)
CopyIsFresh ==
    ~crossing.now \/ ~dirty =>
      /\ task.pc = "read2" => task.copy.rumble = settings.rumble
      /\ task.pc = "write" => task.copy = settings

(* Settings that are not dirty are those in the flash, but for a reset on   *)
(* its way and a save that was crossed.                                     *)
CleanIsStored == ~dirty /\ ~Resetting /\ ~crossing.lost => settings = Loaded(flash)

(* The answer on record is still true: of an apply as long as the button    *)
(* waits for it.                                                            *)
OldAnswer ==
    reply.status = "ok" /\ ~crossing.now =>
        /\ reply.command \in {"save", "reset", "forget"} => Truth(reply.command)
        /\ reply.command = "apply" /\ page.wait["apply"] # "no" => Truth("apply")

FeatureInv ==
    TaskIsPending /\ TaskAction /\ WorkDone /\ CopyIsFresh /\ CleanIsStored /\ OldAnswer

LEMMA FeatureInvInit == FeatureInit => FeatureInv
  BY DEF FeatureInit, FeatureInv, TaskIsPending, TaskAction, WorkDone, CopyIsFresh,
         CleanIsStored, OldAnswer, Idle, Unanswered

LEMMA FeatureInvBoot == FeatureTypeOK /\ Boot => FeatureInv'
  <1>1. FeatureTypeOK => Loaded(flash) \in Configs
    BY ConfigFacts DEF FeatureTypeOK
  <1> QED
    BY <1>1 DEF Boot, FeatureInv, TaskIsPending, TaskAction, WorkDone, CopyIsFresh,
                CleanIsStored, OldAnswer, Idle, Loaded, Unanswered

(* A command answered in the interrupt that crosses nothing finds the task  *)
(* with its work done.                                                      *)
LEMMA ApplyKeepsInv ==
  ASSUME FeatureTypeOK, FeatureInv, NEW c \in Configs \cup {Invalid}, PressApply(c)
  PROVE  FeatureInv'
  <1>1. /\ reply' = [command |-> "apply",
                     status |-> IF c = Invalid THEN "invalid" ELSE "ok"]
        /\ UNCHANGED <<pending, flash, task>>
        /\ page' = [wait |-> [page.wait EXCEPT !["apply"] = "answer"], draft |-> c]
        /\ crossing'.now = Unanswered
        /\ c \in {Invalid, settings} => crossing'.lost = crossing.lost
    BY ApplyCrossing DEF PressApply, SetApply, Complete, Ask
  <1>2. /\ c \in {Invalid, settings} => settings' = settings /\ dirty' = dirty
        /\ c \notin {Invalid, settings} => settings' = c /\ dirty' = TRUE
    BY DEF PressApply, SetApply
  <1>3. /\ ~crossing'.now => task.pc \in {"idle", "release"}
        /\ Unanswered' = Unanswered
    BY <1>1 DEF FeatureInv, TaskIsPending, Unanswered
  <1>4. TaskIsPending' /\ TaskAction' /\ WorkDone'
    BY <1>1, <1>3 DEF FeatureInv, TaskIsPending, TaskAction, WorkDone
  <1>5. CopyIsFresh'
    BY <1>1, <1>2, <1>3 DEF FeatureInv, CopyIsFresh
  <1>6. CleanIsStored'
    <2>1. CASE c \in {Invalid, settings}
      BY <1>1, <1>2, <2>1 DEF FeatureInv, CleanIsStored, Resetting
    <2>2. CASE c \notin {Invalid, settings}
      BY <1>2, <2>2 DEF CleanIsStored
    <2> QED
      BY <2>1, <2>2
  <1>7. OldAnswer'
    BY <1>1, <1>2 DEF OldAnswer, Truth
  <1> QED
    BY <1>4, <1>5, <1>6, <1>7 DEF FeatureInv

LEMMA ActionKeepsInv ==
  ASSUME FeatureTypeOK, FeatureInv, NEW b \in Actions, PressAction(b)
  PROVE  FeatureInv'
  <1> USE DEF FeatureInv
  <1>1. UNCHANGED <<settings, dirty, flash, task>> /\ crossing'.lost = crossing.lost
    BY ActionCrossing DEF PressAction, Queue, SetBadForget
  <1>2. TaskAction' /\ CleanIsStored'
    BY <1>1 DEF TaskAction, CleanIsStored, Resetting
  <1>3. page'.draft = page.draft /\ page'.wait["apply"] = page.wait["apply"]
    BY DEF PressAction, Ask, Actions, FeatureTypeOK, Buttons
  <1>4. CASE UNCHANGED <<pending, reply, crossing>>
    <2>1. TaskIsPending' /\ WorkDone' /\ CopyIsFresh'
      BY <1>1, <1>4 DEF TaskIsPending, Unanswered, WorkDone, CopyIsFresh
    <2>2. OldAnswer'
      BY <1>1, <1>3, <1>4 DEF OldAnswer, Truth
    <2> QED
      BY <1>2, <2>1, <2>2
  <1>5. CASE /\ pending = "none" /\ pending' = b
             /\ reply' = [command |-> b, status |-> "pending"]
    <2>1. task.pc = "idle"
      BY <1>5 DEF TaskIsPending
    <2>2. TaskIsPending' /\ WorkDone' /\ CopyIsFresh' /\ OldAnswer'
      BY <1>1, <1>5, <2>1
         DEF TaskIsPending, Unanswered, WorkDone, CopyIsFresh, OldAnswer, Actions
    <2> QED
      BY <1>2, <2>2
  <1>6. CASE /\ UNCHANGED pending /\ crossing'.now = Unanswered
             /\ reply' = [command |-> "forget", status |-> "invalid"]
    <2>1. ~crossing'.now => task.pc \in {"idle", "release"}
      BY <1>6 DEF TaskIsPending, Unanswered
    <2>2. TaskIsPending' /\ OldAnswer'
      BY <1>1, <1>6, <2>1 DEF TaskIsPending, Unanswered, OldAnswer
    <2>3. WorkDone' /\ CopyIsFresh'
      BY <1>1, <2>1 DEF WorkDone, CopyIsFresh
    <2> QED
      BY <1>2, <2>2, <2>3
  <1> QED
    <2>1. CASE Queue(b)
      BY <1>4, <1>5, <2>1 DEF Queue, Complete
    <2>2. CASE SetBadForget
      BY <1>6, <2>2, CrossFacts DEF SetBadForget, Complete
    <2> QED
      BY <2>1, <2>2 DEF PressAction

LEMMA PollKeepsInv ==
  ASSUME FeatureTypeOK, FeatureInv, NEW b \in Buttons, Get(b) \/ GiveUp(b)
  PROVE  FeatureInv'
  <1>1. UNCHANGED <<settings, dirty, flash, reply, pending, task, crossing>>
    BY DEF Get, GiveUp
  <1>2. \/ page'.wait["apply"] = "no"
        \/ page.wait["apply"] # "no" /\ page'.draft = page.draft
    <2>1. CASE Settle(b)
      BY <2>1 DEF Settle, FeatureTypeOK, Buttons
    <2>2. CASE page' = [page EXCEPT !.wait[b] = "poll"] /\ page.wait[b] # "no"
      BY <2>2 DEF FeatureTypeOK, Buttons
    <2> QED
      BY <2>1, <2>2 DEF Get, GiveUp
  <1>3. TaskIsPending' /\ TaskAction' /\ WorkDone' /\ CopyIsFresh'
    BY <1>1 DEF FeatureInv, TaskIsPending, TaskAction, WorkDone, CopyIsFresh, Unanswered
  <1>4. CleanIsStored'
    BY <1>1 DEF FeatureInv, CleanIsStored, Resetting
  <1>5. OldAnswer'
    BY <1>1, <1>2 DEF FeatureInv, OldAnswer, Truth, Default
  <1> QED
    BY <1>3, <1>4, <1>5 DEF FeatureInv

LEMMA TaskKeepsInv ==
  ASSUME FeatureTypeOK, FeatureInv, FeatureTask
  PROVE  FeatureInv'
  <1> USE DEF FeatureInv, TaskIsPending, TaskAction, WorkDone, CopyIsFresh,
              CleanIsStored, Resetting, OldAnswer, Unanswered
  <1>1. /\ task \in Tasks /\ pending \in Actions \cup {"none"}
        /\ settings \in Configs /\ crossing \in Crossings
    BY DEF FeatureTypeOK, Tasks, Crossings
  <1>2. CASE Take
    BY <1>1, <1>2 DEF Take, Idle, Tasks, Actions
  <1>3. CASE Clear
    BY <1>1, <1>3 DEF Clear, At, Tasks
  <1>4. CASE FillRumble
    BY <1>1, <1>4 DEF FillRumble, At, Tasks, Configs
  <1>5. CASE FillDeadzone
    BY <1>1, <1>5 DEF FillDeadzone, At, Tasks, Configs, Default
  <1>6. CASE Mark
    BY <1>1, <1>6 DEF Mark, At, Tasks, Crossings
  <1>7. CASE ReadRumble
    BY <1>1, <1>7 DEF ReadRumble, Tasks, Configs
  <1>8. CASE ReadDeadzone
    BY <1>1, <1>8, ConfigFacts DEF ReadDeadzone, Tasks, Configs
  <1>9. CASE Write
    BY <1>1, <1>9, ConfigFacts DEF Write, Tasks
  <1>10. CASE Clean
    BY <1>1, <1>10, ConfigFacts DEF Clean, At, Tasks, Crossings
  <1>11. CASE ForgetPeer
    BY <1>1, <1>11 DEF ForgetPeer, Tasks
  <1>12. CASE SayCommand
    BY <1>1, <1>12 DEF SayCommand, At, Tasks, FeatureTypeOK
  <1>13. CASE SayStatus
    <2>1. /\ task.pc = "status" /\ task' = [task EXCEPT !.pc = "release"]
          /\ UNCHANGED <<settings, dirty, flash, pending, page, crossing>>
          /\ reply'.status = IF task.ok THEN "ok" ELSE "flash_error"
          /\ ~crossing.now => reply'.command = task.action
          /\ task.action \in Actions
      <3>1. /\ task.pc = "status" /\ task' = [task EXCEPT !.pc = "release"]
            /\ UNCHANGED <<settings, dirty, flash, pending, page, crossing>>
            /\ reply'.status = IF task.ok THEN "ok" ELSE "flash_error"
            /\ reply'.command = reply.command
        BY <1>13 DEF SayStatus, At, FeatureTypeOK
      <3> QED
        BY <1>1, <3>1 DEF Actions
    <2>2. task'.pc = "release" /\ task'.action = task.action
      BY <1>1, <2>1 DEF Tasks
    <2>3. OldAnswer'
      BY <2>1 DEF Truth, Actions
    <2>4. TaskIsPending' /\ TaskAction' /\ WorkDone' /\ CopyIsFresh' /\ CleanIsStored'
      BY <2>1, <2>2
    <2> QED
      BY <2>3, <2>4
  <1>14. CASE Release
    BY <1>1, <1>14 DEF Release, Idle, Truth
  <1> QED
    BY <1>2, <1>3, <1>4, <1>5, <1>6, <1>7, <1>8, <1>9, <1>10, <1>11, <1>12,
       <1>13, <1>14 DEF FeatureTask

-----------------------------------------------------------------------------
LEMMA ControlStepsFeature ==
  [ControlNext]_controlVars => FeatureNext \/ Boot \/ UNCHANGED featureVars
  BY DEF ControlNext, Served, Starts, Cut, controlVars

LEMMA FeatureTypeAlways == ControlSpec => []FeatureTypeOK
  <1>1. ControlInit => FeatureTypeOK
    BY FeatureTypeInit DEF ControlInit
  <1>2. FeatureTypeOK /\ [ControlNext]_controlVars => FeatureTypeOK'
    BY ControlStepsFeature, FeatureTypeNext
  <1> QED
    BY <1>1, <1>2, PTL DEF ControlSpec

LEMMA FeatureInvNext ==
  ASSUME FeatureTypeOK, FeatureInv, [ControlNext]_controlVars
  PROVE  FeatureInv'
  <1>1. CASE Boot
    BY <1>1, FeatureInvBoot
  <1>2. CASE FeatureNext
    BY <1>2, ApplyKeepsInv, ActionKeepsInv, PollKeepsInv, TaskKeepsInv
       DEF FeatureNext, Press, Poll
  <1>3. CASE UNCHANGED featureVars
    <2>1. TaskIsPending' /\ TaskAction'
      BY <1>3 DEF featureVars, FeatureInv, TaskIsPending, Unanswered, TaskAction
    <2>2. WorkDone' /\ CopyIsFresh'
      BY <1>3 DEF featureVars, FeatureInv, WorkDone, CopyIsFresh
    <2>3. CleanIsStored'
      BY <1>3 DEF featureVars, FeatureInv, CleanIsStored, Resetting
    <2>4. OldAnswer'
      BY <1>3 DEF featureVars, FeatureInv, OldAnswer, Truth
    <2> QED
      BY <2>1, <2>2, <2>3, <2>4 DEF FeatureInv
  <1> QED
    BY <1>1, <1>2, <1>3, ControlStepsFeature

LEMMA FeatureAlways == ControlSpec => [](FeatureTypeOK /\ FeatureInv)
  <1>1. ControlInit => FeatureInv
    BY FeatureInvInit DEF ControlInit
  <1>2. FeatureTypeOK /\ FeatureInv /\ [ControlNext]_controlVars => FeatureInv'
    BY FeatureInvNext
  <1> QED
    BY <1>1, <1>2, FeatureTypeAlways, PTL DEF ControlSpec

(* The settings in memory and in the flash, the queue, the task and the     *)
(* page keep to their types: a record from the flash is one the firmware    *)
(* accepts (record_valid, feature_queue).                                   *)
THEOREM ControlTypeCorrect == ControlSpec => []ControlTypeOK
  <1>1. ControlInit => StartupTypeOK
    BY DEF ControlInit, StartupInit, StartupTypeOK
  <1>2. StartupTypeOK /\ [ControlNext]_controlVars => StartupTypeOK'
    BY StartupTypeNext, ControlStepsStartup
  <1>3. FeatureTypeOK /\ StartupTypeOK => ControlTypeOK
    BY DEF ControlTypeOK
  <1> QED
    BY <1>1, <1>2, <1>3, FeatureTypeAlways, PTL DEF ControlSpec

(* However commands overlap, a button that ends in success tells the truth  *)
(* unless a command answered in the interrupt has crossed its own, although *)
(* the answer is written by two contexts in two stores (feature_complete,   *)
(* feature_queue, pro2_settings_save).                                      *)
THEOREM AnswersAreTrue == ControlSpec => AnswerIsTrue
  <1>1. ASSUME FeatureTypeOK, FeatureInv
        PROVE  \A b \in Buttons :
                 Get(b) /\ reply = [command |-> b, status |-> "ok"] /\ ~crossing.now
                   => Truth(b)
    <2> SUFFICES ASSUME NEW b \in Buttons, Get(b), ~crossing.now,
                        reply.command = b, reply.status = "ok"
                 PROVE  Truth(b)
      OBVIOUS
    <2>1. page.wait[b] # "no"
      BY DEF Get
    <2> QED
      BY <1>1, <2>1 DEF FeatureInv, OldAnswer, Buttons, Actions
  <1> QED
    BY <1>1, FeatureAlways, PTL DEF AnswerIsTrue

(* However commands overlap and writes fail, settings that are not dirty    *)
(* are those a restart will load, unless the save that cleared the flag was *)
(* itself crossed (settings_dirty, pro2_settings_save).                     *)
THEOREM SavedHonestly == ControlSpec => []SavedUnlessCrossed
  <1>1. FeatureInv => SavedUnlessCrossed
    BY DEF FeatureInv, CleanIsStored, Resetting, SavedUnlessCrossed
  <1> QED
    BY <1>1, FeatureAlways, PTL

-----------------------------------------------------------------------------
(* The refinement of SettingsStore.                                         *)

Current == IF Resetting THEN Default ELSE settings
Saved   == Loaded(flash)
IsClean == ~dirty /\ ~Resetting /\ ~crossing.lost
Crossed == crossing.now

(* A step of the store, in the words of the mapping.                        *)
LEMMA StoreSteps ==
  ASSUME Crossed' \in BOOLEAN
  PROVE
  /\ \A c \in Configs :
       Current' = c /\ IsClean' = FALSE /\ Saved' = Saved => Store!StoreNext
  /\ Saved' = Current /\ Current' = Current /\ IsClean' = IsClean /\ Crossed' = Crossed
       => Store!StoreNext
  /\ Crossed /\ ~IsClean /\ Saved' \in Configs /\ Current' = Current
       /\ IsClean' = IsClean /\ Crossed' = Crossed => Store!StoreNext
  /\ Saved = Current /\ Saved' = Saved /\ Current' = Current /\ IsClean' = TRUE
       /\ Crossed' = Crossed => Store!StoreNext
  /\ Current' = Saved /\ IsClean' = TRUE /\ Saved' = Saved /\ Crossed' = FALSE
       => Store!StoreNext
  /\ Saved' = Saved /\ Current' = Current /\ IsClean' = IsClean
       => Store!StoreNext
  /\ Saved' = Saved /\ Current' = Current /\ IsClean' = IsClean /\ Crossed' = Crossed
       => UNCHANGED Store!storeVars
  BY DEF Store!StoreNext, Store!Apply, Store!Reset, Store!Store, Store!StoreCrossed,
         Store!Acknowledge, Store!Command, Store!Restart, Store!storeVars,
         Current, Saved, IsClean, Crossed

LEMMA InitRefinesStore == FeatureInit => Store!StoreInit
  BY ConfigFacts DEF FeatureInit, Store!StoreInit, Resetting, Idle, NotCrossed

LEMMA TaskRefinesStore ==
  ASSUME FeatureTypeOK, FeatureInv, FeatureTask
  PROVE  [Store!StoreNext]_(Store!storeVars)
  <1> USE DEF FeatureInv, TaskIsPending, TaskAction, WorkDone, CopyIsFresh, Current,
              Saved, IsClean, Crossed, Resetting, At
  <1>1. /\ task \in Tasks /\ settings \in Configs /\ dirty \in BOOLEAN
        /\ crossing \in Crossings /\ Default \in Configs
    BY ConfigFacts DEF FeatureTypeOK, Tasks, Crossings
  <1>a. Crossed' \in BOOLEAN /\ Crossed' = Crossed
    BY <1>1, TaskKeepsTypes DEF Crossings
  <1>2. CASE Take
    <2>1. task.pc = "idle" /\ ~Resetting' /\ UNCHANGED <<settings, dirty, flash, crossing>>
      BY <1>2 DEF Take, Idle, Actions, FeatureTypeOK
    <2> QED
      BY <2>1, <1>a, StoreSteps
  <1>3. CASE Clear
    <2>1. task.pc = "clear" /\ task'.pc = "rumble" /\ UNCHANGED <<flash, crossing>>
      BY <1>1, <1>3 DEF Clear, Tasks
    <2> QED
      BY <1>1, <2>1, <1>a, StoreSteps
  <1>4. CASE FillRumble \/ FillDeadzone
    <2>1. /\ task.pc \in {"rumble", "deadzone"} /\ task'.pc \in {"deadzone", "mark"}
          /\ UNCHANGED <<flash, crossing>>
      BY <1>1, <1>4 DEF FillRumble, FillDeadzone, Tasks
    <2> QED
      BY <2>1, <1>a, StoreSteps
  <1>5. CASE Mark
    <2>1. /\ task.pc = "mark" /\ task'.pc = "read" /\ dirty'
          /\ UNCHANGED <<settings, flash>>
      BY <1>1, <1>5 DEF Mark, Tasks
    <2> QED
      BY <1>1, <2>1, <1>a, StoreSteps
  <1>6. CASE ReadRumble \/ ReadDeadzone \/ ForgetPeer \/ SayCommand \/ SayStatus
             \/ Release
    <2>1. ~Resetting /\ ~Resetting' /\ UNCHANGED <<settings, dirty, flash, crossing>>
      <3>1. CASE ReadRumble \/ ReadDeadzone
        BY <1>1, <3>1 DEF ReadRumble, ReadDeadzone, Tasks
      <3>2. CASE ForgetPeer
        BY <1>1, <3>2 DEF ForgetPeer, Tasks
      <3>3. CASE SayCommand \/ SayStatus
        BY <1>1, <3>3 DEF SayCommand, SayStatus, Tasks
      <3>4. CASE Release
        BY <3>4 DEF Release, Idle
      <3> QED
        BY <1>6, <3>1, <3>2, <3>3, <3>4
    <2> QED
      BY <2>1, <1>a, StoreSteps
  <1>7. CASE Write
    <2>1. /\ ~Resetting /\ ~Resetting' /\ UNCHANGED <<settings, dirty, crossing>>
          /\ flash' \in {flash, task.copy} /\ task.copy \in Configs
          /\ task.copy = settings \/ (crossing.now /\ dirty)
      BY <1>1, <1>7 DEF Write, Tasks
    <2>2. CASE flash' = flash
      BY <2>1, <2>2, <1>a, StoreSteps
    <2>3. CASE flash' = task.copy /\ task.copy = settings
      BY <1>1, <2>1, <2>3, ConfigFacts, <1>a, StoreSteps
    <2>4. CASE flash' = task.copy /\ crossing.now /\ dirty
      BY <1>1, <2>1, <2>4, ConfigFacts, <1>a, StoreSteps
    <2> QED
      BY <2>1, <2>2, <2>3, <2>4
  <1>8. CASE Clean
    <2>1. /\ ~Resetting /\ ~Resetting' /\ UNCHANGED <<settings, flash>>
          /\ task.ok /\ ~crossing.now => flash = settings
          /\ task.ok => ~dirty' /\ crossing'.lost = crossing.now
          /\ ~task.ok => dirty' = dirty /\ crossing'.lost = crossing.lost
      BY <1>1, <1>8 DEF Clean, Tasks, Crossings
    <2>2. CASE ~task.ok
      BY <2>1, <2>2, <1>a, StoreSteps
    <2>3. CASE task.ok /\ ~crossing.now
      BY <1>1, <2>1, <2>3, ConfigFacts, <1>a, StoreSteps
    <2>4. CASE task.ok /\ crossing.now
      <3>1. Current' = Current /\ Saved' = Saved /\ IsClean' = FALSE
        BY <2>1, <2>4
      <3> QED
        BY <1>1, <2>1, <3>1, <1>a, StoreSteps
    <2> QED
      BY <1>1, <2>2, <2>3, <2>4 DEF Tasks
  <1> QED
    BY <1>2, <1>3, <1>4, <1>5, <1>6, <1>7, <1>8 DEF FeatureTask

LEMMA FeatureRefinesStore ==
  ASSUME FeatureTypeOK, FeatureInv, [ControlNext]_controlVars
  PROVE  [Store!StoreNext]_(Store!storeVars)
  <1> USE DEF Current, Saved, IsClean, Crossed, Resetting
  <1>1. ASSUME NEW c \in Configs \cup {Invalid}, PressApply(c)
        PROVE  [Store!StoreNext]_(Store!storeVars)
    <2>1. /\ UNCHANGED <<task, flash>> /\ crossing'.now \in BOOLEAN
          /\ \/ UNCHANGED <<settings, dirty>> /\ crossing'.lost = crossing.lost
             \/ c \in Configs /\ settings' = c /\ dirty' = TRUE
      BY <1>1, ApplyCrossing DEF PressApply, SetApply, Crossings
    <2>2. CASE UNCHANGED <<settings, dirty>> /\ crossing'.lost = crossing.lost
      BY <2>1, <2>2, StoreSteps
    <2>3. CASE c \in Configs /\ settings' = c /\ dirty' = TRUE
      BY <2>1, <2>3, ConfigFacts, StoreSteps
    <2> QED
      BY <2>1, <2>2, <2>3
  <1>2. ASSUME NEW b \in Buttons, Get(b) \/ GiveUp(b)
        PROVE  [Store!StoreNext]_(Store!storeVars)
    <2>1. UNCHANGED <<settings, dirty, flash, task, crossing>>
      BY <1>2 DEF Get, GiveUp
    <2> QED
      BY <2>1 DEF Store!storeVars
  <1>3. ASSUME NEW b \in Actions, PressAction(b)
        PROVE  [Store!StoreNext]_(Store!storeVars)
    <2>1. /\ UNCHANGED <<settings, dirty, flash, task>> /\ crossing'.lost = crossing.lost
          /\ crossing'.now \in BOOLEAN
      BY <1>3, ActionCrossing DEF PressAction, Queue, SetBadForget, Crossings
    <2> QED
      BY <2>1, StoreSteps
  <1>4. CASE Boot
    <2>1. /\ settings' = Saved /\ Saved' = Saved /\ ~dirty' /\ ~Resetting'
          /\ crossing' = NotCrossed
      BY <1>4 DEF Boot, Idle
    <2> QED
      BY <2>1, StoreSteps DEF NotCrossed
  <1>5. CASE UNCHANGED featureVars
    BY <1>5 DEF featureVars, Store!storeVars
  <1> QED
    BY <1>1, <1>2, <1>3, <1>4, <1>5, ControlStepsFeature, TaskRefinesStore
       DEF FeatureNext, Press, Poll

(* However commands overlap, the settings keep the promise of SettingsStore *)
(* through every save, reset and apply, failing writes and power cuts at    *)
(* any store (pro2_settings.c).                                             *)
THEOREM SettingsImplement == ControlSpec => KeepsStore
  <1>1. ControlInit => Store!StoreInit
    BY InitRefinesStore DEF ControlInit
  <1>2. FeatureTypeOK /\ FeatureInv /\ [ControlNext]_controlVars
          => [Store!StoreNext]_(Store!storeVars)
    BY FeatureRefinesStore
  <1> QED
    BY <1>1, <1>2, FeatureAlways, PTL DEF ControlSpec, KeepsStore, Store!StoreSpec
=============================================================================
