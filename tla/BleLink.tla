------------------------------ MODULE BleLink -------------------------------
(***************************************************************************)
(* How pro2_ble.c finds a controller and keeps finding it: background      *)
(* scanning, the connection attempt made from connect_selected_task, the   *)
(* one-shot whitelist auto-connect to a saved controller, the retry task   *)
(* that runs RECONNECT_BACKOFF_MS after a loss, and pro2_ble_forget_peer.  *)
(*                                                                         *)
(* The firmware remembers in four flags (connection, connecting, scanning, *)
(* auto_connect_enabled) what the Bluetooth stack is doing, and every      *)
(* function starts by testing them.  The flags are written by the host's   *)
(* callbacks and by up to five tasks, without a lock; a task tests a flag  *)
(* before the stack call it decides, and stores one after the call it      *)
(* describes.  The module keeps the stack's own state beside the flags and *)
(* splits every function at its stack calls; the callbacks and the other   *)
(* tasks come at any point in between.                                     *)
(*                                                                         *)
(* What happens on a link that is up is the module BleSetup: here set-up   *)
(* saves the controller or gives the link up.                              *)
(***************************************************************************)
EXTENDS Naturals

CONSTANTS
    Peers,      \* the controllers
    NoPeer,     \* "no controller"
    TaskMayFail,    \* can xTaskCreate fail?
    Forgetters      \* who can call pro2_ble_forget_peer: the BOOT button's
                    \* task, and usb_input_task for the configuration page

ASSUME BleLinkAssumption ==
    /\ NoPeer \notin Peers
    /\ TaskMayFail \in BOOLEAN
    /\ Forgetters \cap {"host", "retry", "setup"} = {}

VARIABLES
    connection,     \* connection: the connected controller, or NoPeer
    connecting,     \* connecting
    scanning,       \* scanning
    autoConnect,    \* auto_connect_enabled
    savedValid,     \* saved_peer_valid
    savedAddress,   \* saved_peer, NoPeer until one was saved
    pendingPeer,    \* pending_peer
    retryTask,      \* scan_retry_task: "none", "waiting", or "refused" when
                    \* it could not be created and nothing was done instead
    connectHandle,  \* connect_task_handle is set
    connectTask,    \* where connect_selected_task is
    scanCall,       \* where each caller of start_scan is
    scanFailed,     \* the error on record is PRO2_BLE_ERROR_SCAN_START
    dropping,       \* bt_conn_disconnect was called on this link
    disable,        \* where each caller of disable_auto_connect is in it; with
                    \* "drop", setup_task in disconnect_after_error
    forgetPc,       \* where each caller of pro2_ble_forget_peer is
    stackScan,      \* the stack is scanning
    whitelist,      \* the controller in the stack's whitelist, or NoPeer
    armed,          \* the stack auto-connects to the one in the whitelist
    direct,         \* the controller the stack is connecting to, or NoPeer
    slips           \* which of the slips have happened, see Slip

linkVars   == <<connection, dropping>>
savedVars  == <<savedValid, savedAddress>>
forgetVars == <<forgetPc, disable>>
taskVars   == <<connectHandle, connectTask, pendingPeer>>
stackVars  == <<stackScan, whitelist, armed, direct>>
vars == <<linkVars, connecting, scanning, autoConnect, savedVars, taskVars,
          retryTask, scanCall, scanFailed, forgetVars, stackVars, slips>>

Callers   == {"host", "retry"} \cup Forgetters
Disablers == {"setup"} \cup Forgetters

TypeOK ==
    /\ connection \in Peers \cup {NoPeer}
    /\ connecting \in BOOLEAN /\ scanning \in BOOLEAN /\ autoConnect \in BOOLEAN
    /\ savedValid \in BOOLEAN /\ savedAddress \in Peers \cup {NoPeer}
    /\ pendingPeer \in Peers \cup {NoPeer}
    /\ retryTask \in {"none", "waiting", "refused"} /\ connectHandle \in BOOLEAN
    /\ connectTask \in {"no", "settle", "create", "list", "arm", "store", "exit"}
    /\ scanCall \in [Callers -> {"no", "start", "started", "refused"}]
    /\ scanFailed \in BOOLEAN /\ dropping \in BOOLEAN
    /\ disable \in [Disablers -> {"no", "stop", "store", "clear", "drop"}]
    /\ forgetPc \in [Forgetters -> {"no", "disable", "drop", "rescan"}]
    /\ stackScan \in BOOLEAN
    /\ whitelist \in Peers \cup {NoPeer}
    /\ armed \in BOOLEAN /\ direct \in Peers \cup {NoPeer}
    /\ slips \subseteq {"early", "loose"}

Connected == connection # NoPeer

(* The saved controller, or NoPeer.                                         *)
SavedPeer == IF savedValid THEN savedAddress ELSE NoPeer

(* bt_ready is about to call start_reconnect; a controller may be saved.    *)
Init ==
    /\ connection = NoPeer /\ dropping = FALSE
    /\ connecting = FALSE /\ scanning = FALSE /\ autoConnect = FALSE
    /\ savedAddress \in Peers \cup {NoPeer}
    /\ savedValid = (savedAddress # NoPeer)
    /\ pendingPeer = NoPeer
    /\ retryTask = "none" /\ connectHandle = FALSE /\ connectTask = "no"
    /\ scanCall = [c \in Callers |-> IF c = "host" THEN "start" ELSE "no"]
    /\ scanFailed = FALSE
    /\ disable = [c \in Disablers |-> "no"]
    /\ forgetPc = [f \in Forgetters |-> "no"]
    /\ stackScan = FALSE /\ whitelist = NoPeer /\ armed = FALSE /\ direct = NoPeer
    /\ slips = {}

(* The test every function that starts something begins with, in the state  *)
(* its caller has reached.                                                  *)
BusyNext == connection' # NoPeer \/ connecting' \/ scanning' \/ autoConnect'

(* The host itself calls start_scan when it is up: one callback at a time.  *)
HostMayRun == scanCall["host"] = "no"

(* The history of slips.  "early": something ended what a task has just     *)
(* told the stack to do before the task stored that it runs, or emptied the *)
(* list it had just filled.  "loose": an attempt to connect went on, or was *)
(* about to begin, when the flag that stands for it was cleared, because    *)
(* the stack refused to stop it or was not told to.                         *)
Slip(kind, happens) == slips' = IF happens THEN slips \cup {kind} ELSE slips

ScanUnstored == \E c \in Callers : scanCall[c] = "started"

Attempting ==
    armed \/ direct # NoPeer \/ connectTask \in {"create", "list", "arm", "store"}

-----------------------------------------------------------------------------
(* start_scan.  The stack refuses a second scan, and may refuse the first.  *)

ScanStart(c) ==
    /\ scanCall[c] = "start"
    /\ \/ ~stackScan /\ stackScan' = TRUE
          /\ scanCall' = [scanCall EXCEPT ![c] = "started"]
       \/ UNCHANGED stackScan
          /\ scanCall' = [scanCall EXCEPT ![c] = "refused"]
    /\ UNCHANGED <<linkVars, connecting, scanning, autoConnect, savedVars, slips,
                   taskVars, retryTask, scanFailed, forgetVars, whitelist,
                   armed, direct>>

ScanStored(c) ==
    /\ scanCall[c] \in {"started", "refused"}
    /\ scanning' = (scanCall[c] = "started")
    /\ scanFailed' = (scanFailed \/ scanCall[c] = "refused")
    /\ scanCall' = [scanCall EXCEPT ![c] = "no"]
    /\ UNCHANGED <<linkVars, connecting, autoConnect, savedVars, taskVars,
                   retryTask, forgetVars, stackVars, slips>>

(* schedule_scan_retry, last in its caller.  If the task cannot be created, *)
(* a scan is started at once, but only when no controller is saved.         *)
ScheduleScanRetry ==
    IF BusyNext \/ retryTask = "waiting"
      THEN UNCHANGED <<retryTask, scanCall>>
      ELSE \/ retryTask' = "waiting" /\ UNCHANGED scanCall
           \/ /\ TaskMayFail /\ ~savedValid
              /\ retryTask' = "none"
              /\ scanCall' = IF scanCall["host"] = "no"
                               THEN [scanCall EXCEPT !["host"] = "start"]
                               ELSE scanCall
           \/ /\ TaskMayFail /\ savedValid
              /\ retryTask' = "refused" /\ UNCHANGED scanCall

(* scan_retry_task after its delay: the tests of the task, start_reconnect  *)
(* and start_scan are the same.                                             *)
RetryExpires ==
    /\ retryTask = "waiting" /\ scanCall["retry"] = "no"
    /\ retryTask' = "none"
    /\ scanCall' = IF Connected \/ connecting \/ scanning \/ autoConnect
                     THEN scanCall
                     ELSE [scanCall EXCEPT !["retry"] = "start"]
    /\ UNCHANGED <<linkVars, connecting, scanning, autoConnect, savedVars,
                   taskVars, scanFailed, forgetVars, stackVars, slips>>

-----------------------------------------------------------------------------
(* device_found: an advertisement of a controller that passes the filter.   *)
(* The retry is 800 ms away and the settling takes 40 ms, so the handle is  *)
(* never reused while a task that lost it still runs.                       *)
DeviceFound(p) ==
    /\ stackScan /\ HostMayRun
    /\ ~Connected /\ ~connecting
    /\ SavedPeer \in {NoPeer, p}
    /\ stackScan' = FALSE                   \* else bt_le_scan_stop failed
    /\ scanning' = FALSE
    /\ pendingPeer' = p
    /\ Slip("early", ScanUnstored)
    /\ UNCHANGED <<linkVars, autoConnect, savedVars, forgetVars, whitelist,
                   armed, direct>>
    /\ \/ /\ ~connectHandle /\ connectTask = "no"
          /\ connecting' = TRUE
          /\ connectHandle' = TRUE
          /\ connectTask' = "settle"
          /\ UNCHANGED <<retryTask, scanCall, scanFailed>>
       \/ /\ connectHandle \/ TaskMayFail
          /\ connecting' = FALSE
          /\ connectHandle' = FALSE
          /\ scanFailed' = FALSE
          /\ UNCHANGED connectTask
          /\ ScheduleScanRetry

(* Mutant of Settled: what changed during the settling time is not looked   *)
(* at again.                                                                *)
SettledUnchecked ==
    /\ connectTask = "settle"
    /\ connectTask' = IF savedValid THEN "list" ELSE "create"
    /\ UNCHANGED <<linkVars, connecting, scanning, autoConnect, savedVars,
                   pendingPeer, retryTask, connectHandle, scanCall, scanFailed,
                   forgetVars, stackVars, slips>>

(* connect_selected_task after the settling time: an auto-connect to the    *)
(* saved controller, or a connection to the one found.                      *)
Settled ==
    /\ connectTask = "settle"
    /\ connectTask' = IF ~connecting \/ Connected \/ (savedValid /\ autoConnect)
                        THEN "exit"
                      ELSE IF savedValid THEN "list" ELSE "create"
    /\ UNCHANGED <<linkVars, connecting, scanning, autoConnect, savedVars,
                   pendingPeer, retryTask, connectHandle, scanCall, scanFailed,
                   forgetVars, stackVars, slips>>

(* The error branches of connect_selected_task.                             *)
AttemptFails ==
    /\ connecting' = FALSE /\ scanFailed' = FALSE
    /\ connectTask' = "exit"

(* bt_conn_create_le.  The stack makes one attempt at a time.               *)
Create ==
    /\ connectTask = "create"
    /\ \/ /\ ~armed /\ direct = NoPeer /\ connection # pendingPeer
          /\ direct' = pendingPeer
          /\ connectTask' = "exit"
          /\ UNCHANGED <<connecting, scanFailed>>
       \/ AttemptFails /\ UNCHANGED direct
    /\ UNCHANGED <<linkVars, scanning, autoConnect, savedVars, pendingPeer,
                   retryTask, connectHandle, scanCall, forgetVars, stackScan,
                   whitelist, armed, slips>>

(* enable_auto_connect: bt_le_whitelist_clear and bt_le_whitelist_add.  The *)
(* stack does not change the list while it uses it, and each call can fail. *)
List ==
    /\ connectTask = "list"
    /\ \/ /\ ~armed
          /\ whitelist' = savedAddress
          /\ connectTask' = "arm"
          /\ UNCHANGED <<connecting, scanFailed>>
       \/ /\ AttemptFails
          /\ UNCHANGED whitelist \/ (~armed /\ whitelist' = NoPeer)
    /\ UNCHANGED <<linkVars, scanning, autoConnect, savedVars, pendingPeer,
                   retryTask, connectHandle, scanCall, forgetVars, stackScan,
                   armed, direct, slips>>

(* bt_conn_create_auto_le, for whoever is in the list by now, or nobody ... *)
Arm ==
    /\ connectTask = "arm"
    /\ \/ /\ ~armed /\ direct = NoPeer
          /\ armed' = TRUE
          /\ connectTask' = "store"
          /\ UNCHANGED <<connecting, scanFailed>>
       \/ AttemptFails /\ UNCHANGED armed
    /\ UNCHANGED <<linkVars, scanning, autoConnect, savedVars, pendingPeer,
                   retryTask, connectHandle, scanCall, forgetVars, stackScan,
                   whitelist, direct, slips>>

(* ... and the store of the mirror.                                         *)
ArmStored ==
    /\ connectTask = "store"
    /\ autoConnect' = TRUE
    /\ connectTask' = "exit"
    /\ UNCHANGED <<linkVars, connecting, scanning, savedVars, pendingPeer,
                   retryTask, connectHandle, scanCall, scanFailed, forgetVars,
                   stackVars, slips>>

ConnectExit ==
    /\ connectTask = "exit"
    /\ connectHandle' = FALSE /\ connectTask' = "no"
    /\ UNCHANGED <<linkVars, connecting, scanning, autoConnect, savedVars,
                   pendingPeer, scanFailed, forgetVars, stackVars, slips>>
    /\ IF ~Connected /\ ~connecting THEN ScheduleScanRetry
                                    ELSE UNCHANGED <<retryTask, scanCall>>

-----------------------------------------------------------------------------
(* The attempt the stack was making to connect to p is over.                *)
AttemptEnds(p) ==
    \/ armed /\ whitelist = p /\ armed' = FALSE /\ UNCHANGED direct
    \/ direct = p /\ direct' = NoPeer /\ UNCHANGED armed

(* Mutants of ConnectedCb: the one-shot auto-connect is taken to stay armed; *)
(* a failed attempt is taken to be the stack's to repeat.                   *)
ConnectedCbStaysArmed(p, ok) ==
    /\ HostMayRun /\ AttemptEnds(p)
    /\ connecting' = FALSE
    /\ Slip("early", connectTask = "store")
    /\ UNCHANGED <<autoConnect, scanning, savedVars, taskVars, forgetVars,
                   stackScan, whitelist>>
    /\ IF ok
         THEN /\ connection' = p /\ dropping' = FALSE
              /\ UNCHANGED <<retryTask, scanCall, scanFailed>>
         ELSE /\ scanFailed' = FALSE
              /\ UNCHANGED linkVars
              /\ ScheduleScanRetry

ConnectedCbNoRetry(p, ok) ==
    /\ HostMayRun /\ AttemptEnds(p)
    /\ connecting' = FALSE /\ autoConnect' = FALSE
    /\ Slip("early", connectTask = "store")
    /\ connection' = IF ok THEN p ELSE connection
    /\ UNCHANGED <<scanning, savedVars, dropping, taskVars, retryTask, scanCall,
                   scanFailed, forgetVars, stackScan, whitelist>>

(* connected_cb, for an attempt that ended well or badly.                   *)
ConnectedCb(p, ok) ==
    /\ HostMayRun /\ AttemptEnds(p)
    /\ connecting' = FALSE /\ autoConnect' = FALSE
    /\ Slip("early", connectTask = "store")
    /\ UNCHANGED <<scanning, savedVars, taskVars, forgetVars, stackScan, whitelist>>
    /\ IF ok
         THEN /\ connection' = p /\ dropping' = FALSE
              /\ UNCHANGED <<retryTask, scanCall, scanFailed>>
         ELSE /\ scanFailed' = FALSE
              /\ UNCHANGED linkVars
              /\ ScheduleScanRetry

(* disconnected_cb.                                                         *)
DisconnectedCb ==
    /\ HostMayRun
    /\ Connected
    /\ connection' = NoPeer /\ dropping' = FALSE
    /\ connecting' = FALSE
    /\ scanFailed' = (scanFailed /\ dropping)
    /\ UNCHANGED <<scanning, autoConnect, savedVars, taskVars, forgetVars,
                   stackVars, slips>>
    /\ ScheduleScanRetry

-----------------------------------------------------------------------------
(* disable_auto_connect: the stack is told to stop if the mirror says it is *)
(* armed, which can fail; the mirror is cleared all the same, and then the  *)
(* list, unless the stack still uses it.                                    *)

DisableCalled(c) ==
    disable' = [disable EXCEPT ![c] = IF autoConnect THEN "stop" ELSE "store"]

DisableStop(c) ==
    /\ disable[c] = "stop"
    /\ disable' = [disable EXCEPT ![c] = "store"]
    /\ armed' \in {armed, FALSE}
    /\ UNCHANGED <<linkVars, connecting, scanning, autoConnect, savedVars,
                   taskVars, retryTask, scanCall, scanFailed, forgetPc,
                   stackScan, whitelist, direct, slips>>

DisableStored(c) ==
    /\ disable[c] = "store"
    /\ disable' = [disable EXCEPT ![c] = "clear"]
    /\ autoConnect' = FALSE
    /\ Slip("loose", armed \/ connectTask \in {"list", "arm", "store"})
    /\ UNCHANGED <<linkVars, connecting, scanning, savedVars, taskVars,
                   retryTask, scanCall, scanFailed, forgetPc, stackVars>>

DisableClear(c) ==
    /\ disable[c] = "clear"
    /\ disable' = [disable EXCEPT ![c] = IF c = "setup" THEN "drop" ELSE "no"]
    /\ UNCHANGED whitelist \/ (~armed /\ whitelist' = NoPeer)
    /\ Slip("early", connectTask = "arm" /\ whitelist' = NoPeer)
    /\ UNCHANGED <<linkVars, connecting, scanning, autoConnect, savedVars,
                   taskVars, retryTask, scanCall, scanFailed, forgetPc,
                   stackScan, armed, direct>>

(* setup_task saves the controller or drops the link (disconnect_after_error); *)
(* a notification left over can make it do so again on a link in use.       *)
SetUpSaves ==
    /\ Connected /\ disable["setup"] = "no"
    /\ savedValid' = TRUE /\ savedAddress' = connection
    /\ scanFailed' = FALSE
    /\ UNCHANGED <<linkVars, connecting, scanning, autoConnect, taskVars,
                   retryTask, scanCall, forgetVars, stackVars, slips>>

SetUpFails ==
    /\ Connected /\ disable["setup"] = "no"
    /\ DisableCalled("setup")
    /\ scanFailed' = FALSE
    /\ UNCHANGED <<linkVars, connecting, scanning, autoConnect, savedVars,
                   taskVars, retryTask, scanCall, forgetPc, stackVars, slips>>

SetUpDrops ==
    /\ disable["setup"] = "drop"
    /\ disable' = [disable EXCEPT !["setup"] = "no"]
    /\ dropping' = Connected
    /\ UNCHANGED <<connection, connecting, scanning, autoConnect, savedVars,
                   taskVars, retryTask, scanCall, scanFailed, forgetPc,
                   stackVars, slips>>

-----------------------------------------------------------------------------
(* pro2_ble_forget_peer, in the board's or the USB task.  Each is alone in  *)
(* its task; the two can overlap.                                           *)

Forget(f) ==
    /\ forgetPc[f] = "no" /\ scanCall[f] = "no"
    /\ forgetPc' = [forgetPc EXCEPT ![f] = "disable"]
    /\ DisableCalled(f)
    /\ UNCHANGED <<linkVars, connecting, scanning, autoConnect, savedVars,
                   taskVars, retryTask, scanCall, scanFailed, stackVars, slips>>

ForgetErase(f) ==
    /\ forgetPc[f] = "disable" /\ disable[f] = "no"
    /\ savedValid' = FALSE
    /\ scanFailed' = FALSE
    /\ forgetPc' = [forgetPc EXCEPT ![f] = "drop"]
    /\ UNCHANGED <<linkVars, connecting, scanning, autoConnect, savedAddress,
                   taskVars, retryTask, scanCall, disable, stackVars, slips>>

ForgetDrop(f) ==
    /\ forgetPc[f] = "drop"
    /\ IF Connected
         THEN /\ dropping' = TRUE
              /\ forgetPc' = [forgetPc EXCEPT ![f] = "no"]
              /\ UNCHANGED stackScan
         ELSE /\ stackScan' \in IF scanning THEN {stackScan, FALSE} ELSE {stackScan}
              /\ forgetPc' = [forgetPc EXCEPT ![f] = "rescan"]
              /\ UNCHANGED dropping
    /\ UNCHANGED <<connection, connecting, scanning, autoConnect, savedVars,
                   taskVars, retryTask, scanCall, scanFailed, disable,
                   whitelist, armed, direct>>
    /\ Slip("early", forgetPc'[f] = "rescan" /\ scanning /\ ScanUnstored)

ForgetRescan(f) ==
    /\ forgetPc[f] = "rescan"
    /\ scanning' = FALSE
    /\ connecting' = FALSE
    /\ forgetPc' = [forgetPc EXCEPT ![f] = "no"]
    /\ Slip("loose", Attempting)
    /\ UNCHANGED <<linkVars, autoConnect, savedVars, taskVars, scanFailed,
                   disable, stackVars>>
    /\ IF BusyNext
         THEN UNCHANGED <<scanCall, retryTask>>
         ELSE /\ scanCall' = [scanCall EXCEPT ![f] = "start"]
              /\ retryTask' = IF retryTask = "refused" THEN "none" ELSE retryTask

-----------------------------------------------------------------------------
ScanStep    == \E c \in Callers : ScanStart(c) \/ ScanStored(c)
ConnectStep == Settled \/ Create \/ List \/ Arm \/ ArmStored \/ ConnectExit
DisableStep == \E c \in Disablers :
                   DisableStop(c) \/ DisableStored(c) \/ DisableClear(c)
ForgetStep  == \E f \in Forgetters :
                   ForgetErase(f) \/ ForgetDrop(f) \/ ForgetRescan(f)

Next ==
    \/ ScanStep \/ RetryExpires \/ ConnectStep \/ DisableStep
    \/ \E p \in Peers : DeviceFound(p)
    \/ \E p \in Peers, ok \in BOOLEAN : ConnectedCb(p, ok)
    \/ DisconnectedCb \/ SetUpSaves \/ SetUpFails \/ SetUpDrops
    \/ (\E f \in Forgetters : Forget(f)) \/ ForgetStep

(* The tasks run and the delays end.  A controller is near, advertises and  *)
(* can be connected to: an attempt that is repeated succeeds in the end,    *)
(* with whichever controller, and so does the creation of the task that     *)
(* makes it.                                                                *)
Fairness ==
    /\ WF_vars(ScanStep) /\ WF_vars(RetryExpires) /\ WF_vars(ConnectStep)
    /\ WF_vars(DisableStep) /\ WF_vars(ForgetStep) /\ WF_vars(SetUpDrops)
    /\ WF_vars(dropping /\ DisconnectedCb)
    /\ SF_vars(\E p \in Peers : DeviceFound(p) /\ connecting')
    /\ SF_vars(\E p \in Peers : ConnectedCb(p, TRUE))
    /\ SF_vars(Create /\ direct' # NoPeer)
    /\ SF_vars(List /\ connectTask' = "arm")
    /\ SF_vars(Arm /\ connectTask' = "store")

Spec == Init /\ [][Next]_vars /\ Fairness

-----------------------------------------------------------------------------
(* Properties.                                                              *)

Quiet ==
    /\ \A c \in Callers : scanCall[c] = "no"
    /\ connectTask = "no"
    /\ \A f \in Forgetters : forgetPc[f] = "no"
    /\ \A c \in Disablers : disable[c] = "no"

(* Something is under way that can make a link.                             *)
Searching ==
    \/ stackScan \/ retryTask = "waiting" \/ direct # NoPeer
    \/ armed /\ whitelist # NoPeer

(* The two ways the search can stop: the stack refused a scan, and it is    *)
(* not tried again; or no retry task could be created while a controller is *)
(* saved.                                                                   *)
GivenUp == scanFailed \/ retryTask = "refused"

(* Without a link, something is under way that can make one, unless the     *)
(* search was given up: the guards on the four flags never all turn the     *)
(* tasks away (schedule_scan_retry, start_reconnect, start_scan; the        *)
(* comments in disconnect_after_error and disconnected_cb).                 *)
KeepsSearching ==
    Quiet /\ ~Connected /\ ~GivenUp => Searching

(* The same, with callbacks and tasks that come at any other point than     *)
(* those of a slip: what a lost link, a failed attempt, a forget or the     *)
(* end of set-up leave behind is always picked up by someone.               *)
SearchesUnlessSlip ==
    Quiet /\ ~Connected /\ ~GivenUp => Searching \/ slips # {}

(* A forget leaves no auto-connect behind (the README: a hold of BOOT       *)
(* clears the saved controller and scans for a new one).                    *)
ForgetEndsAutoConnect ==
    Quiet /\ ~savedValid => ~armed

(* The search keeps its part of LinkLife, which is all that BleSetup knows  *)
(* of it: with a saved controller no other one is connected, not through a  *)
(* scan result, a stale whitelist or an attempt begun before a forget.      *)
(* Nothing is stored here.  An attempt that was let loose can end it.       *)
Life == INSTANCE LinkLife WITH
    peer <- connection, saved <- SavedPeer, stored <- NoPeer, told <- dropping

KeepsLife ==
    Life!LifeInit /\ [][Life!LifeNext \/ "loose" \in slips]_(Life!lifeVars)

(* A second link is never in the making while one is up, or connected_cb    *)
(* would overwrite the connection and the first link would never be torn    *)
(* down: unless an attempt was let loose, which may succeed between the     *)
(* tests of connect_selected_task and the attempt it makes after them.      *)
OneLink ==
    Connected => (~armed /\ direct = NoPeer) \/ "loose" \in slips

(* A controller that is near is connected in the end, however often links   *)
(* are lost or refused (the README: it reconnects by itself), unless        *)
(* forgets never end.                                                       *)
Reconnects ==
    \/ []<>(\E f \in Forgetters : forgetPc[f] # "no")
    \/ ~Connected ~> (Connected \/ GivenUp \/ slips # {})
=============================================================================
