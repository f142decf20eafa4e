# Verification of the Pro2 BL616 dongle firmware

TLA+ modules, TLC configurations and TLAPS proofs for the firmware in `src/src`.
The firmware connects a Nintendo Pro2 controller over BLE to a host computer over
USB: it finds and pairs the controller, forwards its input reports, answers the
host's vendor commands and passes rumble back.

The program is small (some 4100 lines of C), but almost everything in it happens
in several contexts at once that share flags without locks:

| context | priority | runs |
|---|---|---|
| USB interrupt | interrupt | endpoint callbacks, `usb_event`, set/get report, `process_vendor_command` |
| `startup_task`, `bluetooth_task` | 7 | start of Bluetooth and USB, then gone |
| Bluetooth host | 6 | scan, connection, GATT and security callbacks |
| `setup_task`, `connect_selected_task` | 5 | link set-up and pairing; the connection attempt |
| `rumble_task`, `usb_input_task`, `scan_retry_task` | 4 | periodic output and input, the delayed retry |
| `board_status_task` | 3 | LED and BOOT button |

The processor has one core; a context is preempted only by one above it. Every
wake-up of `setup_task` goes through one FreeRTOS notification value, whatever the
event was.

## Inventory

| component | state | operations | interacts with | what is hard | what makes it correct |
|---|---|---|---|---|---|
| Link set-up and pairing (`pro2_ble.c`) | `connection`, `ready`, `saved_peer`, `saved_ltk`, completion flags, ACK counter, two flash records | the stages of `setup_task`, the four pairing steps, the callbacks that end each wait, `pro2_ble_forget_peer`, start-up | connection management, USB input (`usb_nintendo_submit_state`), button, feature report | one notification for all events; late and repeated answers; loss at any point; power cut between records | a key is stored only after the whole exchange and never used for another controller; a link in use is encrypted and saved; no link is left half set up |
| Connection management (`pro2_ble.c`) | `connecting`, `scanning`, `auto_connect_enabled`, `saved_peer`, `pending_peer`, two task handles | `start_scan`, `device_found`, `connect_selected_task`, `schedule_scan_retry`, `connected_cb`, `disconnected_cb`, forget | the Bluetooth stack, whose state the flags mirror; set-up | flags stored after the call they describe; forget at any point; tasks that cannot be created | one link, to the saved controller; the search never stops |
| Vendor interface MI_01 (`usb_nintendo.c`) | `vendor_busy`, `vendor_out_armed`, reply and offset, one pending command | `vendor_out_cb`, `vendor_in_cb`, `process_vendor_command`, bus events | input reports (mode switch), diagnostics | endpoints 0x02 and 0x82 share one VDMA; hosts that stop reading; suspend | one direction at a time; every reply whole, in order, to its command |
| HID input (`usb_nintendo.c`) | `hid_in`, `hid_busy`, `input_pending`, `generic_pending`, `steam_native_mode` | `try_send_input`, `hid_in_cb`, `usb_input_task`, `usb_nintendo_submit_state` | vendor interface, Bluetooth host | check-then-act on `hid_busy` against the interrupt | one writer of `hid_in`; the selected report; input never dries up |
| Rumble bridge (`pro2_rumble.c`) | `active_*`, `active_until`, `stop_packets` | `pro2_rumble_submit_usb`, `rumble_task` | USB interrupt, BLE write | an old time, a late task, lost packets | effects play in time and motors stop |
| Feature report 0x7f and settings (`usb_nintendo.c`, `pro2_settings.c`) | pending action, last command, status and sequence; the settings record and its dirty flag; the record in flash | apply in the interrupt; save, reset and forget queued for `usb_input_task`; read | web page, flash, rumble, input | the interrupt changes what the task is saving; two contexts write the answer; actions dropped silently | a reported success is true; "saved" means in the flash; every command is answered |
| Report conversion and calibration (`pro2_protocol.c`) | `controller_state`, the calibration of each axis, the two reports, rebuilt in place | `pro2_parse_fd2`, `pro2_make_usb_report_05/09` | Bluetooth host, input, settings (dead zone) | a broken calibration series, range ends; readers of a report in the making | sane sticks, no button made up or lost in a table, neutral without a link |
| Vendor replies (`vendor_protocol.c`) | none | `vendor_protocol_build_reply` | vendor interface | the longest reply fills the buffer to its last byte | replies fit the buffer and two packets |
| Status LED and BOOT button (`board_status.c`) | `held`, `handled` | the 100 ms loop, the blinking of an error code | forget | the button is not read while a code blinks | one forget per hold, and every hold is heard |
| Start-up (`main.c`, `pro2_ble.c`) | `stack_ready`, the local address and its record in flash | `startup_task`, `bluetooth_task`, `bt_ready`, `ensure_stable_local_address` | all | USB waits for Bluetooth; the flash or the stack may fail; power cuts | USB comes up; the dongle keeps the address its controllers know |
| Diagnostics, USB descriptors | counters, tables | build reports | all | formatting only | - |
| Web page (`web/app.js`) | what each button waits for | commands, polling | feature report | two buttons at a time | - |
| Tools, build files | outside the firmware | - | - | - | - |

`PROJECT.json` lists the same components with their status, and the hazards at
their lines.

## Modules

| module | models | extends / instance of | proofs |
|---|---|---|---|
| `LinkLife` | what search and set-up take for granted of each other | | |
| `BleSetup` | set-up and pairing of one link, forget, power cut | `LinkLife` through a refinement mapping | `BleSetup_proofs` |
| `BleLink` | search, connection, forget | `LinkLife` through a refinement mapping | `BleLink_proofs` |
| `VendorPort` | the promise of MI_01 to its host | | |
| `VendorProtocol` | which packets there are and how long their replies | | `UsbVendor_proofs` |
| `UsbVendor` | endpoint 2 | `VendorPort` through a refinement mapping | `UsbVendor_proofs` |
| `UsbInput` | endpoint 1 | | |
| `UsbDevice` | the USB side | `UsbVendor`, `UsbInput` | `UsbDevice_proofs` |
| `RumbleStream` | rumble in time | | `RumbleStream_proofs` |
| `ReportCodec` | 12-bit packing, buttons, axes | | |
| `InputPath` | from FD2 reports to both USB reports and their readers | `ReportCodec` | `InputPath_proofs` |
| `SettingsStore` | what the settings promise the user | | |
| `FeatureReport` | report 0x7f, settings, the page | `SettingsStore` through a refinement mapping | `Control_proofs` |
| `Startup` | start of Bluetooth and USB, the local address | | `Control_proofs` |
| `Control` | start, page and power cuts | `FeatureReport`, `Startup` | `Control_proofs` |
| `BootButton` | the button of `board_status_task` | | `BootButton_proofs` |

A module `MC...` is the instance of one of these for TLC.

### BleSetup (`pro2_ble.c`: set-up of one link)

`setup_task` is a program counter `task.pc` with one action for each straight
stretch of code between blocking calls. A wait is one of two kinds, as in the code:
a *loop* (`while (!flag && connection) ulTaskNotifyTake(...)`), which wakes and
sleeps again until its flag is set, and a *single take*, which any notification
ends. The callbacks are actions of the Bluetooth host that set a flag or counter
and give the notification. `done` and `response` hold a completion flag and the ACK
counter only while the wait that reads them is in progress, because the code resets
each right before that wait. `link` is the other side: whether the link is
encrypted, what the controller has received and accepted, which requests are still
outstanding. A link can be lost at any step and come back, the same controller or another,
under a task that is still waiting. `flashPeer` and `flashLtk` survive `Restart`; `pro2_ble_forget_peer`
is split between the stores that a power cut can separate.

Three variables or fields are history, which no action tests: `link.begun` says that the
set-up running on a link began on it, `crossed` that the saved controller was saved by a
set-up that began on another link, and `link.heard` what the controller answered since the
last ordinary command. For the latter the last command written (0) and one before it
(`Earlier`) are told apart.

Abstractions: a key is named by the controller it was agreed with; the payload of
a response is the pairing step it answers; discovered handles are a set. Timeouts
are the possibility to leave a wait at any time.

### BleLink (`pro2_ble.c`: finding the controller)

The four flags beside the state of the stack they mirror (`stackScan`, `whitelist`,
`armed`, `direct`). Every function is split at its stack calls: a task tests its flags in
one step, calls the stack in the next and stores what came of it in a third, and callbacks
and the other tasks come anywhere in between, as the priorities and the sleeping inside
stack calls allow. `enable_auto_connect` is three steps, the whitelist (`List`), the
procedure (`Arm`) and the flag (`ArmStored`); `disable_auto_connect` likewise
(`DisableStop`, `DisableStored`, `DisableClear`), for each of its callers in `Disablers`:
setup_task's error path and the two forgets. The stack may refuse each call; a stop it
refuses leaves the procedure running while the flag is cleared. An armed procedure
connects whoever is in the whitelist, and nobody if it is empty. `TaskMayFail` is the
failure of `xTaskCreate`. `pro2_ble_forget_peer` has two callers, the button and the page
(`Forgetters`), each at its own place in it. What set-up does is reduced to its two ends,
`SetUpSaves` and `SetUpFails`/`SetUpDrops`.

`slips` is history, which no action tests. "early": what a task had just told the stack to
do was over, or its whitelist emptied, before the task stored that it runs. "loose": an
attempt to connect went on, or was about to begin, when the flag that stands for it was
cleared. The code has no answer to either; the properties say what holds until then.

### LinkLife (between the two)

BleSetup and BleLink are two views of `pro2_ble.c` that share `connection`, `saved_peer`
and the order to disconnect. Each stands for the other by a few steps: in BleSetup a link
comes up (`ConnectedCb`), to the saved controller if there is one; in BleLink the link's
controller is saved (`SetUpSaves`) or the link told to go (`SetUpFails`). `LinkLife`
is the interface with just these steps, and `KeepsLife` of either module says that it
implements it, so that neither takes more for granted than the other keeps. `stored` is
the record in flash; BleLink stores nothing and maps it to none.

### VendorPort, UsbVendor, UsbInput, UsbDevice (`usb_nintendo.c`)

`VendorPort` is the promise to the host: take a command, hand over every chunk of
its reply in order, take the next. `UsbVendor` is the code: the functions are
operators from port to port (`ArmOut`, `TrySend`, `Freed`, `Process`), composed in
the order the callbacks call them, one action per interrupt. `left`, `serving` and
`phase` of VendorPort are a refinement mapping over its state. The commands are the
packets of `VendorProtocol`, which says of each whether its reply is long, silent or
the firmware's own, for every branch of `vendor_protocol_build_reply`; a packet of
length zero is one too.

`UsbInput` models `try_send_input` twice: as one step in the interrupt, and in
`usb_input_task` as one step per access an interrupt can come between. The Bluetooth
host's `usb_nintendo_submit_state` preempts the task and is preempted by the
interrupt. `UsbDevice` composes the two: bus events change both, `configured`
guards both, and the first real vendor command selects the input report.
That command may come anywhere, also inside the task's `try_send_input`; the history
`hid.late` is set from then until a transfer has ended with the task outside, and
`hid.stray` from a suspend that hit a transfer to the next configuration.

### RumbleStream (`pro2_rumble.c`)

Time in ticks of 20 ms. `rumble_task` reads the time, decides in its critical
section and writes, in three steps; `task.lag` is how old its time is. A write may
fail. A report is an effect or the neutral one.

### ReportCodec, InputPath (`pro2_protocol.c`, `pro2_ble.c`, `usb_nintendo.c`)

`ReportCodec` holds the conversions, number for number. In `InputPath` the Bluetooth
host takes an FD2 report in one step and then builds report 0x05 and report 0x09 in
place, in four steps each, as the code does: cleared, sticks centred, buttons set,
axes. Two readers look at them: the interrupt, which copies at any moment at once
(`InterruptCopies`), and `usb_input_task`, whose copy the host may come into after any
number of bytes (`CopyBegins`, `CopyEnds`, `TaskCopies`). While a report is rebuilt the
interrupt may well copy one with fewer buttons or with the sticks at (0, 0) or at rest:
the code allows it for one report, and `NoPhantom` says only that no button is made up.

### SettingsStore, FeatureReport, Startup, Control

`FeatureReport` splits `process_feature_action` at every store an interrupt can come
between: the clearing of the record, each field, the read of each field by
`ef_set_env_blob`, the write, the dirty flag, the two halves of the answer, the release
of the queue. A SET_REPORT is one step. Each button of the page is in one of three
states (`page.wait`); an exchange is not interrupted by another one of the page, but
the exchanges of two buttons mix freely, since each button waits only for its own. The
history `crossing` says that a command answered in the interrupt came since the action on
record was queued (`now`), and that one came while the settings in memory were written
(`lost`). The refinement mapping to
`SettingsStore` counts the defaults as current from the moment they are being set.

`Startup` has `startup_task` and the Bluetooth side with their failures; the chip may
report an address, another one after each restart, or none. `Control` starts the page
once USB is up and cuts the power at any step of either, any number of times.

### BootButton (`board_status.c`)

Ticks of 100 ms, the task late as long as it likes between two of them, a user who
presses and releases at any time, an error code that blinks as long as it likes.
`button.ticks` is how long the button has really been down, which the code does not
know: it counts samples.

## Runs

| run | expects | what it asks |
|---|---|---|
| `ble_setup` | pass | two controllers, links lost and back at any step, pairing, forget, power cut anywhere: `KeyOwner`, `ReadyIsEncrypted`, `ReadyIsSaved`, `KeepsLife` |
| `ble_setup_live` | pass | a controller that goes, comes back or falls silent, answers late, repeated or unasked: `NoHalfSetUpLink`, `AckBeforeNextCommand`, `KeyWasAgreed` |
| `ble_link` | pass | all interleavings, failing scans and tasks, refused calls: `OneLink`, `SearchesUnlessSlip`, `KeepsLife`, `Reconnects` |
| `usb_device` | pass | the USB side as a whole: `EP2Serialized`, `NothingWaits`, `OnlyAChunkWaits`, `KeepsPromise`, `BufferIsFree`, `NativeSettles`, `InputFlows`, `NativeArrives` |
| `rumble` | pass | `NoLateEffect`, `RunningIsWatched`, `EffectIsPlayed`, `MotorsStop` |
| `control` | pass | start-up, the page's buttons at once, power cuts, failing flash: `AnswerIsTrue`, `Answers`, `KeepsStore`, `KnownAddress`, `UsbComesUp` |
| `button` | pass | `OneForgetPerHold`, `HoldIsHeard` |
| `input_path` | pass | reports read while they are rebuilt: `LostIsNeutral`, `SticksAreSane`, `ReportsAgree`, `NoPhantom` |
| `v_other_key` | violation | README: the saved controller's key is its own |
| `v_link_stuck` | violation | comments: the auto-connect mirror is honest and re-armed after a loss |
| `v_usb_switch` | violation | comment: the first real vendor command stops 0x09 |
| `v_settings` | violation | the page: what it calls permanently saved is in the flash |

Eight more configurations end in a counterexample each and are kept beside the runs, to show
what the exceptions below are about. Each checks one property that a text of the repository
suggests:

| configuration | module | property |
|---|---|---|
| `MCBleSetupReadyAfterFd2.cfg` | `MCBleSetup` | `ReadyAfterFd2`: the link is ready only after the first FD2 report |
| `MCBleSetupUnencrypted.cfg` | `MCBleSetup` | `ReadyEncrypted`: a controller reconnects with its encryption restored |
| `MCBleSetupForgotten.cfg` | `MCBleSetup` | `ForgetClears`: a hold of BOOT clears the saved controller |
| `MCBleSetupNotStored.cfg` | `MCBleSetup` | `ReadyIsStored`: the controller of a link in use is in the flash |
| `MCBleSetupOldAck.cfg` | `MCBleSetup` | `EachCommandAcked`: each command gets its own ACK |
| `MCBleLinkForgotten.cfg` | `MCBleLink` | `ForgetEndsAutoConnect`: a forget leaves no auto-connect armed |
| `MCUsbDeviceAbandoned.cfg` | `MCUsbDevice` | `AbandonedIsReplaced`: a command replaces a reply left unread |
| `MCControlFailure.cfg` | `MCControl` | `FailureIsTold`: a save that failed is not called a success |

Type invariants are checked in the runs of BleSetup, UsbDevice, Control and InputPath;
those of BleLink, UsbVendor, RumbleStream and BootButton are only proved.

### What the violations show

* `v_other_key`, `MCBleSetupReadyAfterFd2.cfg`, `MCBleSetupUnencrypted.cfg`: a wait of set-up
  lasts up to eight seconds, the reconnection backs off for 0.8, and `setup_task` notices
  only that `connection` is set. When the link is lost and another is up before the task
  looks, it goes on where it was. The wait for the first report (`pro2_ble.c:1274`) is even
  a single take, which the notification of the new link ends. If the other controller
  connected, it is saved while the key in memory is the first one's, and
  `establish_saved_encryption` uses that key for it ever after. If the same controller is
  back, its link is made ready without encryption. And with no loss at all a notification
  left by a late ACK ends the wait: the controller is saved and the link ready with no
  report received, although README lines 136-138 say otherwise.
* `MCBleSetupForgotten.cfg`: `setup_task` saves the controller at 1282-1284 after its last
  test of `connection`. A forget that has cleared it and not yet dropped the link is
  undone, in memory and in the flash (README lines 185-186).
* `MCBleSetupNotStored.cfg`: the result of `ef_set_env_blob` is ignored at 1284.
* `MCBleSetupOldAck.cfg`: the ACK counter (1239) does not say which command was answered. A
  second answer to one is taken for the answer to the next, although `README_CN.md`
  lines 239-242 have every command acknowledged.
* `v_link_stuck`: `connected_cb` between `bt_conn_create_auto_le` and the store of
  `auto_connect_enabled` (264) leaves the flag set for a procedure that is over;
  after that link is lost every function that would search returns at once.
* `MCBleLinkForgotten.cfg`: a forget while `connect_selected_task` is inside
  `bt_conn_create_auto_le` finds the flag not yet set (231) and stops nothing. The
  procedure stays armed for the controller that was forgotten.
* `v_usb_switch`: `usb_input_task` has chosen its report (`usb_nintendo.c:436`) when the
  command comes; a generic report goes out in the native mode. README lines 140-142 say the
  firmware never sends report 0x09; it starts with it.
* `MCUsbDeviceAbandoned.cfg`: two branches of `process_vendor_command`, with their comments
  at `usb_nintendo.c:531-533` and `537-539`, are for commands that arrive while a chunk is
  in flight. None can: `arm_vendor_out` does not arm endpoint 0x02 while `vendor_busy` is
  set (371), and only the chunk's own callback or a bus event clears it. The comments
  describe code that never does what they say, and a chunk the host leaves unread makes the
  interface deaf until it is read or the bus is reset.
* `v_settings`: a save is under way when the user applies another configuration. The
  interrupt changes the record while `ef_set_env_blob` writes it or after; then
  `pro2_settings_save` clears the dirty flag (`pro2_settings.c:115`), and the page shows
  "permanently saved" for settings that a restart will not load.
* `MCControlFailure.cfg`: the same, and the write fails. `feature_complete` stores the command
  and then the status (`usb_nintendo.c:326-327`); the page polls in between, reads the save
  with the apply's status and reports a success (`web/app.js:114, 491`).

### Exceptions in the passing properties

Some passing properties except what the violations show, so that they say what holds
besides. Each exception is a history variable of the model, and nothing is left out of the
model for it:

* `KeyOwner` excepts a controller saved by a set-up that had begun on another link
  (`crossed`), `ReadyIsEncrypted` a link on which an older set-up went on (`~link.begun`).
  `ReadyIsSaved` allows for a forget at work, and has no other exception.
* `SearchesUnlessSlip` ends at a slip of either kind, `OneLink` and `KeepsLife` of BleLink
  at one of kind "loose". TLC shows what follows one. The search can stop for good, as in
  `v_link_stuck`, also through a forget that stops a scan of another task before it stored
  `scanning` (`pro2_ble.c:532-533`), or through a whitelist cleared between
  `bt_le_whitelist_add` and `bt_conn_create_auto_le` (255-256), which arms a procedure for
  nobody. And two links can be made: a forget clears `connecting` (1597) under an attempt,
  the scan it starts finds a controller, and the first attempt succeeds after
  `connect_selected_task` tested `connection` (457) and before it starts the second.
* `SearchesUnlessSlip` and `Reconnects` also end when the code gives the search up
  (`GivenUp`): the stack refused a scan, or the retry task could not be created while a
  controller is saved.
* `EP2Serialized` and the refinement of `VendorPort` end at a suspend that hits a chunk
  in flight, until the next configuration. The suspend clears `vendor_busy`, the resume
  arms endpoint 0x02, and the chunk is still in endpoint 0x82 (`usb_nintendo.c:655-662`).
  `BufferIsFree` likewise (`hid.stray`): this one hazard no property covers.
* `NativeSettles` and `BufferIsFree` except the transfer that the command selecting the
  native mode put in the task's way (`hid.late`): the interrupt sends a 0x05 report from
  `hid_in` while the task, past its tests in `try_send_input`, goes on to copy a 0x09
  report over it (435-450).
* `AnswerIsTrue` and `SavedUnlessCrossed` except an action that an apply crossed
  (`crossing`).
* `RunningIsWatched` and `MotorsStop` except that every one of the stop packets was lost,
  which the code does not repeat.
* `NoPhantom` says that no button is made up; a report torn between two states, with fewer
  buttons than either or a stick at rest, is what the code allows for one report.

### Bounds, and why they are enough

* Two controllers: every property relates one controller to "another", and no
  action relates three. The runs with symmetry have no temporal property that
  depends on which of them it is: in `ble_link` neither `Reconnects` nor any condition of
  fairness names a controller. `ble_setup_live` has one.
* `NumInit` and `PairIndex`: the loop treats all entries alike except the pairing entry.
  `ble_setup` has that entry alone, since its properties are about the exchange and what
  follows; `ble_setup_live` has two ordinary commands after it, which covers what a late or
  repeated answer to a pairing step or to a command does to the next. The theorems hold
  for any number of commands and any place of the pairing.
* `WriteModes`: with or without response, one per run, since `ch_command` is the same
  characteristic throughout a link.
* `Forgetters`: the button alone in the runs; its forget overlaps the callbacks, the
  other tasks and set-up's own use of `disable_auto_connect`. For two forgetting tasks and
  more, `NeverTwoLinks`, `SearchGoesOn` and `SearchKeepsLife` are proved.
* The constraint `NoSlip` of `ble_link` stops TLC at the first slip, which ends
  `SearchesUnlessSlip` and `Reconnects` for good. What still holds of `OneLink` and
  `KeepsLife` after one of kind "early" is proved (`NeverTwoLinks`, `SearchKeepsLife`). The
  configurations that end in a violation have no constraint.
* Vendor commands: one packet of each kind that `VendorProtocol` tells apart; replies have
  0, 1 or 2 chunks (`PRO2_VENDOR_REPLY_MAX` is 80 bytes, a packet 64), which is proved.
* `Hold = 9`, `Stops = 3` of the rumble are the code's own numbers in periods of 20 ms.
  `MaxLate = 4` lets the task be up to 80 ms late; with 9 periods of hold that is the
  most for which `EffectIsPlayed` holds (it needs `Hold > 2 * MaxLate`).
* `Hold = 30` of the button is the code's number; the count saturates at `Cap = 40`
  instead of 1000, which only has to be above the hold.
* `Count = 3` instead of 20 resting reports for a calibration: a series can be broken at
  its start, in the middle and before its end. The reports are at rest, at the edge of
  what counts as rest, one beyond it, at the ends of the axes, with one or with all bits
  set, and too short; two dead zones, the least and the greatest. The theorem
  `SticksSane` covers every other choice.
* `control` has two values of each setting, one the default: a mixture of two records is
  then a third. Its chip reports one address, or none and a second one is derived.
* No bound on the number of power cuts, forgets, commands or lost links.

### Fairness, and why the code justifies it

* Tasks run when they are ready and delays end: FreeRTOS with one core, and no task
  of the firmware spins. In `UsbDevice` the input task gets strong fairness, since
  the Bluetooth host preempts it again and again but only for moments.
* Waits have deadlines, so `SetupStep` is weakly fair without any assumption on the
  controller, which may never answer.
* A link that was told to disconnect goes down: the stack's supervision timeout.
* `Reconnects` needs a controller that is near, and resources that come back: it is found
  and its task can be created some time, and an attempt that is repeated for ever
  succeeds (strong fairness on those steps).
* The USB host polls the input endpoint. Nothing is assumed of programs that use the vendor
  interface: they may stop reading, and stop for good (`hostReads`), and no completion of a
  chunk is fair.
* In `Control` the start-up and `usb_input_task` run. Nothing is assumed of the page: it may
  poll or not.
* `board_status_task` has the lowest priority, but nothing above it runs for ever.

Deadlock is not checked in the runs of BleSetup: a dongle without a controller in reach
really does wait for ever. Nor in the configurations of Control that look for a violation.

## Proofs

All theorems hold for every value of the constants that the named assumptions allow;
further assumptions are in the theorems themselves. No theorem depends on the bounds of
a run.

* UsbVendor: `TypeCorrect`, `Serialized`, `NeverWaits`, `Listens`, `Implements`, from `IInv`.
  `EP2Serialized` alone is not inductive, because it does not say what `vendor_busy` and
  `vendor_out_armed` stand for: after a suspend the flags and the endpoints disagree.
  `IInv` says how far: `vendor_busy` implies a chunk in flight; outside `broken` the
  converse holds and the offset is the chunk's number; `vendor_out_armed` implies an
  armed endpoint; the offset is at the end of the reply or at the second chunk of two.
  From these, `OutCb` always finds the port free or freeable, which is why nothing ever
  waits. Each function from port to port has a lemma with its effect on every field, each
  action a lemma for `IInv` and one for the step or stutter of `VendorPort` it maps to.
* UsbDevice: `DeviceSerialized`, `DeviceListens`, `DeviceImplements`: every step of the
  device is a step of the vendor interface or leaves it alone, so `IInv` and the refinement
  carry over. `DeviceTypeCorrect`, `BufferSafe` and `NativeKeeps05` (of `NativeSettles`), for
  any interleaving, from `DInv`: `OneWriter` says that a transfer is announced by
  `hid_busy` and that in the task's window there is none, except for a reset that closes
  the endpoints after `hid_busy` was set, a stray transfer, and the late switch;
  `NativeChoice` that past its choice the task has a generic report in hand only if the mode
  is not native or the switch was late.
* VendorProtocol: `AnswerFits`, `ReplyInTwoPackets`, by cases over the replies. The second
  is what `UsbVendor` takes for granted of its commands.
* RumbleStream: `RumbleTypeCorrect`, `NeverLate`, `AlwaysWatched`, and `EffectOffered` if
  `2 * MaxLate < Hold`, from `RumbleInv`: how old the packet in hand can be, that stop
  packets owed, in hand and lost always add up, and by when an effect has been offered.
  With `2 * MaxLate = Hold` TLC finds an effect that is never offered, so the assumption
  cannot be weakened.
* BootButton: `ButtonTypeCorrect`, `ForgetsOnce`, from `ButtonInv`: a count of samples is
  never more than one above the time the button was down, a button
  seen up leaves no count behind, blinking apart, and `handled` stands as long as a press
  that was handled lasts.
* BleLink: `LinkTypeCorrect`, `NeverTwoLinks` and the refinement `SearchKeepsLife`, for any
  number of controllers and forgetting tasks, with callbacks in every gap, refused calls and
  failing tasks. `LinkInv` adds to `OneLink` that until an attempt is let loose there is one
  attempt at most, that it is for the controller saved now, that an armed procedure is
  mirrored or its store is imminent, and that arming excludes the direct attempt.
  `SearchGoesOn`, of `SearchesUnlessSlip`, from `SearchInv`: until a slip `scanning`,
  `connecting` and `auto_connect_enabled` stand for what the stack does, or someone is about
  to set or clear them, and `Alive` says who will search next in every state in which
  nobody searches now.
* BleSetup: `SetupTypeCorrect`, `AckFirst`, `KeyAgreed`, from `AnswerInv`. What was counted
  as an answer while the task waited need not be one on the present link: `Acked` and
  `Agreed` say what it does show, namely that the ACK channel is subscribed on this link
  and what the link's controller has received and answered since, because a link that is
  new has neither a subscription nor a write to complete. So the next command waits until
  the controller of its own link has received one and answered after it, and a key is
  stored only after four accepted steps on it.
* BleSetup: the refinement `SetupKeepsLife`, also when links come back, from `LifeInv`: what
  is about to be stored was saved from the link that is up, and no other one has come up
  since. `SavedGivesWay` follows for `LinkLife` alone: a saved controller is replaced
  only after a forget or a power cut.
* BleSetup: `KeyIsOwned`, `InUseIsEncrypted`, `InUseIsSaved`, with links lost and back at any
  step, if the pairing entry is among the commands. `SetupInv` says at which places of
  `setup_task` which of encryption, exchange and storing are behind it, as long as its
  set-up began on the present link (`link.begun`): past the encryption the link is encrypted
  with the key that is held, or is to be paired; past the exchange the key is the connected
  controller's or none; past the store that controller is the saved one, unless a forget
  came.
* InputPath: `LostReleases`, from what each report holds at each stage of its making
  (`Building`), and `SticksSane`, from `CalibrationInv`: while a series runs, the sum is
  that many readings near the middle, so their mean is near it; the rest is arithmetic of
  `Normalize` with rounded division, for every centre and every dead zone up to 512.
  `InputTypeCorrect`, `BothReportsAgree` and `NeverPhantom`, from `ReportInv`, which adds
  that a report under way holds only buttons of the state it is made from, and that state
  and the one before are what `recent` holds. The tables of buttons enter through a few
  lemmas (`SameBit`, `GenericIsDecoded`, `SticksMade`): each button has one bit
  in each table, all bits are distinct, and packing two axes in three bytes is undone by
  unpacking them.
* Control: `ControlTypeCorrect` and `AddressIsKept` for any power cuts, failing stores and
  reported addresses; the latter from `AddressInv`, that the address the controllers know is
  the one in the flash. `AnswersAreTrue`, `SavedHonestly` (of `SavedUnlessCrossed`) and the
  refinement `SettingsImplement`, for buttons pressed in any order and at any time, from
  `FeatureInv`: at each position of `process_feature_action`, what its copy, the record and
  the flash have in common unless a command has crossed it (`WorkDone`), that settings not
  dirty are those in the flash but for a reset on its way or an apply that came while they
  were written (`CleanIsStored`), and that an answer on record stays true as long as it can
  be read (`OldAnswer`).

Only model-checked: the liveness properties (`Answers`, `UsbComesUp`, `Reconnects`,
`NoHalfSetUpLink`, `InputFlows`, `NativeArrives`, `MotorsStop`, `HoldIsHeard`), because TLAPS
does not reason about fairness. Every safety property of a passing run is a theorem.

## Not modelled

* Diagnostic reports and counters, USB descriptors, LED patterns, the display of the
  page, the tools, build files and the SDK patch: formatting and constants, they decide
  nothing.
* The amplitudes of rumble (decoding, scaling by the settings, packing) and the bytes of
  vendor replies: data that is passed on and that no decision of the firmware reads.
* The Bluetooth and USB stacks and the flash library of the SDK, which are not in the
  repository: they are the environment, modelled from how the code uses them.
* The order in which `disconnected_cb` may clear `connection` between its test and its use
  by the stack in the last steps of set-up (`pro2_ble.c:1281`): what a NULL does there is
  the stack's to define.

What would come next: the scaling of rumble amplitudes in `ReportCodec`; the display of the
page as a function of what it has read.
