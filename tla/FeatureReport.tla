---------------------------- MODULE FeatureReport ---------------------------
(***************************************************************************)
(* The settings (pro2_settings.c) and the commands of feature report 0x7f  *)
(* (usb_nintendo.c) that change them, with the web page (web/app.js) as    *)
(* their client.                                                           *)
(*                                                                         *)
(* A SET_REPORT is handled in the interrupt of the USB controller.  It     *)
(* applies a configuration on the spot, but a save, a reset to defaults    *)
(* and a forget are queued, one at a time, for process_feature_action in   *)
(* usb_input_task: they write to the flash.  The answer, the last command  *)
(* and its status, is polled with GET_REPORT.  The task is a step for each *)
(* store an interrupt can come between; an interrupt is one step.          *)
(*                                                                         *)
(* Each of the page's buttons runs by itself.  An exchange, a SET_REPORT   *)
(* and its GET_REPORT, is not interrupted by another of the page, but the  *)
(* exchanges of two buttons mix, for a button disables only itself.        *)
(***************************************************************************)
EXTENDS Naturals

CONSTANTS
    Rumbles, Deadzones,             \* values the firmware accepts
    DefaultRumble, DefaultDeadzone,
    NoRecord,   \* the flash holds no valid record
    Invalid     \* an apply with a value the firmware refuses

ASSUME FeatureAssumption ==
    /\ DefaultRumble \in Rumbles /\ DefaultDeadzone \in Deadzones
    /\ 0 \in Rumbles /\ 0 \in Deadzones

Configs == [rumble : Rumbles, deadzone : Deadzones]
Default == [rumble |-> DefaultRumble, deadzone |-> DefaultDeadzone]
Zeroes  == [rumble |-> 0, deadzone |-> 0]

ASSUME RecordAssumption == NoRecord \notin Configs /\ Invalid \notin Configs

VARIABLES
    settings,   \* the record in memory
    dirty,      \* settings_dirty
    flash,      \* the record in the flash, or NoRecord
    reply,      \* feature_last_command and feature_last_status
    pending,    \* feature_pending_action
    task,       \* process_feature_action: its position and locals
    page,       \* what each button of the page waits for, and the draft
    crossing    \* no variable of the program: a record of the commands that
                \* were answered in the interrupt while another was pending

featureVars == <<settings, dirty, flash, reply, pending, task, page, crossing>>

Actions == {"save", "reset", "forget"}
Buttons == Actions \cup {"apply"}

FeatureTypeOK ==
    /\ settings \in Configs /\ dirty \in BOOLEAN
    /\ flash \in Configs \cup {NoRecord}
    /\ reply \in [command : Buttons \cup {"none"},
                  status : {"idle", "pending", "ok", "invalid", "flash_error"}]
    /\ pending \in Actions \cup {"none"}
    /\ task \in [pc : {"idle", "clear", "rumble", "deadzone", "mark", "read",
                       "read2", "write", "clean", "command", "status",
                       "forget", "release"},
                 action : Actions \cup {"none"},
                 copy : Configs,        \* what ef_set_env_blob has read
                 ok : BOOLEAN]
    /\ page \in [wait : [Buttons -> {"no", "answer", "poll"}],
                 draft : Configs \cup {Invalid}]
    /\ crossing \in [now : BOOLEAN, lost : BOOLEAN]

(* Mutant of Loaded: what is in the flash is taken for a record.            *)
LoadedUnchecked(r) == r

(* pro2_settings_init, when the record in the flash is r.                   *)
Loaded(r) == IF r = NoRecord THEN Default ELSE r

Idle == [pc |-> "idle", action |-> "none", copy |-> Zeroes, ok |-> FALSE]
NoWait == [wait |-> [b \in Buttons |-> "no"], draft |-> Zeroes]

(* crossing.now: since the action on record was queued, a command that is   *)
(* not queued was answered before the task had answered.  crossing.lost:    *)
(* settings_dirty was cleared by a save crossed in this way, and the        *)
(* settings were not marked as changed again.                               *)
NotCrossed == [now |-> FALSE, lost |-> FALSE]

(* main loads the settings; usb_nintendo_init clears the rest.              *)
Boot ==
    /\ settings' = Loaded(flash) /\ dirty' = FALSE
    /\ reply' = [command |-> "none", status |-> "idle"]
    /\ pending' = "none" /\ task' = Idle /\ page' = NoWait
    /\ crossing' = NotCrossed
    /\ UNCHANGED flash

FeatureInit ==
    /\ flash \in Configs \cup {NoRecord}
    /\ settings = Loaded(flash) /\ dirty = FALSE
    /\ reply = [command |-> "none", status |-> "idle"]
    /\ pending = "none" /\ task = Idle /\ page = NoWait
    /\ crossing = NotCrossed

-----------------------------------------------------------------------------
(* usbd_hid_set_report: the page sends the command of button b.             *)

(* feature_complete, called in the interrupt.                               *)
Complete(b, status) == reply' = [command |-> b, status |-> status]

Unanswered == pending # "none" /\ task.pc # "release"

Cross(changed) == crossing' = [now  |-> Unanswered,
                               lost |-> IF changed THEN FALSE ELSE crossing.lost]

(* pro2_settings_apply_wire.                                                *)
SetApply(c) ==
    /\ Complete("apply", IF c = Invalid THEN "invalid" ELSE "ok")
    /\ IF c \in {Invalid, settings}
         THEN UNCHANGED <<settings, dirty>>
         ELSE settings' = c /\ dirty' = TRUE
    /\ Cross(c \notin {Invalid, settings})
    /\ UNCHANGED pending

(* Mutant of Queue: the answer is set to pending before the queue is looked *)
(* at.                                                                      *)
QueueUntested(b) ==
    /\ pending' = IF pending = "none" THEN b ELSE pending
    /\ Complete(b, "pending")
    /\ UNCHANGED <<settings, dirty, crossing>>

(* feature_queue: one action at a time, another is dropped.                 *)
Queue(b) ==
    /\ IF pending # "none"
         THEN UNCHANGED <<pending, reply, crossing>>
         ELSE /\ pending' = b /\ Complete(b, "pending")
              /\ crossing' = [crossing EXCEPT !.now = FALSE]
    /\ UNCHANGED <<settings, dirty>>

(* A forget without the word CLEAR.                                         *)
SetBadForget ==
    /\ Complete("forget", "invalid") /\ Cross(FALSE)
    /\ UNCHANGED <<settings, dirty, pending>>

InExchange == \E b \in Buttons : page.wait[b] = "answer"

(* A button that waits is disabled (withBusy in web/app.js), no other is.   *)
MayPress(b) == page.wait[b] = "no" /\ ~InExchange

Ask(b, c) == page' = [wait |-> [page.wait EXCEPT ![b] = "answer"],
                      draft |-> IF b = "apply" THEN c ELSE page.draft]

PressApply(c) ==
    /\ MayPress("apply") /\ SetApply(c) /\ Ask("apply", c)
    /\ UNCHANGED <<flash, task>>

PressAction(b) ==
    /\ MayPress(b) /\ Ask(b, page.draft)
    /\ Queue(b) \/ (b = "forget" /\ SetBadForget)
    /\ UNCHANGED <<flash, task>>

(* usbd_hid_get_report: the answer to button b, the first or a later one.   *)
Settle(b) == page' = [wait |-> [page.wait EXCEPT ![b] = "no"],
                      draft |-> IF b = "apply" THEN Zeroes ELSE page.draft]

Get(b) ==
    /\ \/ page.wait[b] = "answer"
       \/ page.wait[b] = "poll" /\ ~InExchange
    /\ IF reply.status = "pending"
         THEN page' = [page EXCEPT !.wait[b] = "poll"]
         ELSE Settle(b)
    /\ UNCHANGED <<settings, dirty, flash, reply, pending, task, crossing>>

(* After thirty polls the page gives up.                                    *)
GiveUp(b) ==
    /\ page.wait[b] = "poll"
    /\ Settle(b)
    /\ UNCHANGED <<settings, dirty, flash, reply, pending, task, crossing>>

-----------------------------------------------------------------------------
(* process_feature_action.                                                  *)

At(from, next) == task.pc = from /\ task' = [task EXCEPT !.pc = next]

Take ==
    /\ task.pc = "idle" /\ pending # "none"
    /\ task' = [Idle EXCEPT !.action = pending,
                  !.pc = CASE pending = "save"   -> "read"
                           [] pending = "reset"  -> "clear"
                           [] pending = "forget" -> "forget"]
    /\ UNCHANGED <<settings, dirty, flash, reply, pending, page, crossing>>

(* pro2_settings_reset_defaults: memset, then one field after the other.    *)
Clear ==
    /\ At("clear", "rumble")
    /\ settings' = Zeroes
    /\ UNCHANGED <<dirty, flash, reply, pending, page, crossing>>

FillRumble ==
    /\ At("rumble", "deadzone")
    /\ settings' = [settings EXCEPT !.rumble = DefaultRumble]
    /\ UNCHANGED <<dirty, flash, reply, pending, page, crossing>>

FillDeadzone ==
    /\ At("deadzone", "mark")
    /\ settings' = [settings EXCEPT !.deadzone = DefaultDeadzone]
    /\ UNCHANGED <<dirty, flash, reply, pending, page, crossing>>

(* Mutant of Mark: defaults count as stored.                                *)
MarkNothing ==
    /\ At("mark", "read")
    /\ UNCHANGED <<settings, dirty, flash, reply, pending, page, crossing>>

Mark ==
    /\ At("mark", "read")
    /\ dirty' = TRUE
    /\ crossing' = [crossing EXCEPT !.lost = FALSE]
    /\ UNCHANGED <<settings, flash, reply, pending, page>>

(* pro2_settings_save.  ef_set_env_blob reads the record in place, field by *)
(* field, and stores it as a whole or not at all, also when power is cut.   *)
ReadRumble ==
    /\ task.pc = "read"
    /\ task' = [task EXCEPT !.pc = "read2", !.copy.rumble = settings.rumble]
    /\ UNCHANGED <<settings, dirty, flash, reply, pending, page, crossing>>

ReadDeadzone ==
    /\ task.pc = "read2"
    /\ task' = [task EXCEPT !.pc = "write", !.copy.deadzone = settings.deadzone]
    /\ UNCHANGED <<settings, dirty, flash, reply, pending, page, crossing>>

(* Mutant of Write: the result of ef_set_env_blob is not looked at.         *)
WriteUnchecked ==
    /\ task.pc = "write"
    /\ task' = [task EXCEPT !.pc = "clean", !.ok = TRUE, !.copy = Zeroes]
    /\ flash' \in {flash, task.copy}
    /\ UNCHANGED <<settings, dirty, reply, pending, page, crossing>>

Write ==
    /\ task.pc = "write"
    /\ \E ok \in BOOLEAN :
         /\ task' = [task EXCEPT !.pc = "clean", !.ok = ok, !.copy = Zeroes]
         /\ flash' = IF ok THEN task.copy ELSE flash
    /\ UNCHANGED <<settings, dirty, reply, pending, page, crossing>>

Clean ==
    /\ At("clean", "command")
    /\ dirty' = (dirty /\ ~task.ok)
    /\ crossing' = [crossing EXCEPT !.lost = IF task.ok THEN crossing.now ELSE @]
    /\ UNCHANGED <<settings, flash, reply, pending, page>>

(* pro2_ble_forget_peer: see BleLink and BleSetup.                          *)
ForgetPeer ==
    /\ task.pc = "forget"
    /\ task' = [task EXCEPT !.pc = "command", !.ok = TRUE]
    /\ UNCHANGED <<settings, dirty, flash, reply, pending, page, crossing>>

(* feature_complete, called in the task: two stores.                        *)
SayCommand ==
    /\ At("command", "status")
    /\ reply' = [reply EXCEPT !.command = task.action]
    /\ UNCHANGED <<settings, dirty, flash, pending, page, crossing>>

SayStatus ==
    /\ At("status", "release")
    /\ reply' = [reply EXCEPT !.status = IF task.ok THEN "ok" ELSE "flash_error"]
    /\ UNCHANGED <<settings, dirty, flash, pending, page, crossing>>

Release ==
    /\ task.pc = "release"
    /\ pending' = "none" /\ task' = Idle
    /\ UNCHANGED <<settings, dirty, flash, reply, page, crossing>>

FeatureTask ==
    \/ Take \/ Clear \/ FillRumble \/ FillDeadzone \/ Mark
    \/ ReadRumble \/ ReadDeadzone \/ Write \/ Clean
    \/ ForgetPeer \/ SayCommand \/ SayStatus \/ Release

Press ==
    \/ \E c \in Configs \cup {Invalid} : PressApply(c)
    \/ \E b \in Actions : PressAction(b)

Poll == \E b \in Buttons : Get(b)

FeatureNext == Press \/ Poll \/ (\E b \in Buttons : GiveUp(b)) \/ FeatureTask

-----------------------------------------------------------------------------
(* Properties.                                                              *)

(* When nothing is under way any more, settings that the page calls         *)
(* "permanently saved" (dirty is 0, updateConfigUi in web/app.js) are those *)
(* a restart will load.                                                     *)
SavedIsHonest ==
    task.pc = "idle" /\ pending = "none" /\ ~dirty => settings = Loaded(flash)

(* The same, unless the save that cleared dirty was crossed by an apply: so *)
(* an apply that comes while settings are written is the only way to a      *)
(* wrong "permanently saved", and only until the settings are next changed, *)
(* saved or loaded, whatever writes fail (pro2_settings_save).              *)
SavedUnlessCrossed ==
    task.pc = "idle" /\ pending = "none" /\ ~dirty /\ ~crossing.lost
        => settings = Loaded(flash)

(* A save that failed is not reported as a success: the page that reads its *)
(* answer says "permanently saved" ("saveButton" in web/app.js).            *)
FailureIsTold ==
    [][Get("save") /\ reply = [command |-> "save", status |-> "ok"]
         /\ task.pc = "status" => task.ok]_featureVars

(* A button that ends in success tells the truth: what was to be applied is *)
(* in effect, what was to be saved is in the flash, a reset has done both   *)
(* for the defaults.  It holds although commands overlap, the answer is two *)
(* variables written by two contexts, and a command can come between the    *)
(* task's answer and the moment it takes the next; only the answer to an    *)
(* action that a command answered in the interrupt has crossed may be wrong *)
(* (feature_complete, feature_queue).                                       *)
Truth(b) ==
    CASE b = "apply"  -> settings = page.draft
      [] b = "save"   -> flash = settings /\ ~dirty
      [] b = "reset"  -> flash = Default /\ settings = Default /\ ~dirty
      [] b = "forget" -> TRUE

AnswerIsTrue ==
    [][\A b \in Buttons :
         Get(b) /\ reply = [command |-> b, status |-> "ok"] /\ ~crossing.now
           => Truth(b)]_featureVars

(* No command stays PENDING for ever and none blocks the queue for ever,    *)
(* however the page's buttons are pressed: a page that polls gives up after *)
(* thirty answers, the firmware must not (feature_queue,                    *)
(* process_feature_action).                                                 *)
Answers ==
    /\ reply.status = "pending" ~> reply.status # "pending"
    /\ pending # "none" ~> pending = "none"

(* The settings keep the promise of SettingsStore: in memory and in the     *)
(* flash, through overlapping commands, failing writes and power cuts at    *)
(* any point.  The defaults count as the current configuration from the     *)
(* moment they are being set.                                               *)
Resetting == task.pc \in {"rumble", "deadzone", "mark"}

Store == INSTANCE SettingsStore WITH
    current <- IF Resetting THEN Default ELSE settings,
    stored  <- Loaded(flash),
    clean   <- ~dirty /\ ~Resetting /\ ~crossing.lost,
    crossed <- crossing.now

KeepsStore == Store!StoreSpec
=============================================================================
