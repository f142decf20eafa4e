------------------------------ MODULE BleSetup ------------------------------
(***************************************************************************)
(* The set-up of one controller link in pro2_ble.c: setup_task drives a    *)
(* fresh connection through encryption, MTU, GATT discovery, the ACK       *)
(* subscription, the initialization commands (with the pairing exchange    *)
(* among them) and the first FD2 report, then saves the controller and     *)
(* declares the link ready.                                                *)
(*                                                                         *)
(* Three kinds of process interleave.  setup_task runs one blocking call   *)
(* or straight stretch of code per action.  The Bluetooth host runs the    *)
(* callbacks, each one action.  The button or the web page runs            *)
(* pro2_ble_forget_peer, one action per store that a reader can see.  All  *)
(* the callbacks wake setup_task through ONE task notification, so a wait  *)
(* can be ended by an event other than the one it waits for.               *)
(*                                                                         *)
(* Scanning and connection establishment are the module BleLink; here a    *)
(* connection simply comes up.                                             *)
(***************************************************************************)
EXTENDS Naturals

CONSTANTS
    Peers,          \* the controllers
    NoPeer,         \* "no controller": a NULL connection, an absent record
    NumInit,        \* number of entries of init_commands
    PairIndex,      \* the entry that stands for the pairing exchange
    WriteModes,     \* how ch_command may be written: "response" if the write
                    \* is answered, "noResponse" if it is not
    Outside         \* which of "forget" and "restart" can happen

ASSUME BleSetupAssumption ==
    /\ NoPeer \notin Peers
    /\ NumInit \in Nat
    /\ PairIndex \in Nat
    /\ WriteModes \subseteq {"response", "noResponse"}
    /\ Outside \subseteq {"forget", "restart"}

VARIABLES
    connection,         \* connection: the connected controller, or NoPeer
    pairingRequired,    \* connection_pairing_required
    dropping,           \* bt_conn_disconnect was called on this link
    link,               \* the stack's and the controller's side of the link
    task,               \* setup_task: its position and its locals
    notified,           \* setup_task's notification value is not zero
    done,               \* completion flags the wait in progress has seen set
    response,           \* ack_response, if counted since the last command
    awaitingFd2,        \* awaiting_first_fd2
    ready,              \* ready
    savedPeer,          \* saved_peer, NoPeer if not saved_peer_valid
    savedLtk,           \* owner of saved_ltk, NoPeer if not saved_ltk_valid
    flashPeer,          \* the stored PEER_KEY record
    flashLtk,           \* owner of the stored PAIRING_RECORD_KEY record
    crossed,            \* history: the saved controller was saved by a set-up
                        \* that had begun on another link than the one it ended on
    forgetPc            \* where pro2_ble_forget_peer is

linkVars  == <<connection, pairingRequired, link>>
waitVars  == <<done, response>>
readyVars == <<awaitingFd2, ready>>
storeVars == <<savedPeer, savedLtk, flashPeer, flashLtk, crossed>>
vars == <<connection, pairingRequired, dropping, link, task, notified, done,
          response, awaitingFd2, ready, savedPeer, savedLtk, flashPeer,
          flashLtk, crossed, forgetPc>>

PairSteps == 1..4       \* address, key, challenge, finalize; 0 is the ordinary
                        \* command written last on the link
Earlier   == 7          \* an ordinary command written before that one
Refused   == 5          \* a response that accepts nothing
NoResponse == 6         \* the ACK counter has not moved
Requests  == {"sec", "mtu", "discover", "descriptor", "ccc", "write"}

(* The loops `while (!flag && connection) ulTaskNotifyTake(...)`, the       *)
(* single calls of ulTaskNotifyTake, which any notification ends, and the   *)
(* stretches of code between them.                                          *)
Loops    == {"secureWait", "mtuWait", "ackSubWait", "writeWait", "initWait",
             "pairWait"}
TakeOnce == {"discoverWait", "cccAckWait", "cccFd2Wait", "fd2Wait"}
Running  == {"secure", "mtu", "discover", "cccAck", "cccFd2", "ackSub", "init",
             "pair", "persist", "fd2Sub", "firstFd2", "store", "publish"}

Tasks == [pc : {"idle"} \cup Loops \cup TakeOnce \cup Running,
          index : 0..NumInit,               \* next entry of init_commands
          step : {0} \cup PairSteps,        \* 0 outside the exchange
          peer : Peers \cup {NoPeer},       \* the address copied to saved_peer
          handles : SUBSET {"chars", "ack", "fd2"}]     \* the ch_* found

Idle == [pc |-> "idle", index |-> 0, step |-> 0, peer |-> NoPeer,
         handles |-> {}]

Links == [encrypted : BOOLEAN,                  \* security level 2 reached
          mtu : BOOLEAN,                        \* ATT MTU >= MIN_COMMAND_ATT_MTU
          subs : SUBSET {"ack", "fd2"},         \* CCCs enabled
          received : SUBSET ((0..4) \cup {Earlier}),   \* commands it got
          answered : 0..4,                      \* pairing steps it accepted, in order
          outstanding : SUBSET Requests,        \* requests not called back yet
          fd2 : BOOLEAN,                        \* an FD2 report was delivered
          begun : BOOLEAN,      \* history: its set-up began on it, no older
                                \* one went on and made it ready
          heard : {"none", "other", "this"}]    \* history: what the controller
                                \* answered since the last ordinary command

FreshLink == [encrypted |-> FALSE, mtu |-> FALSE, subs |-> {}, received |-> {},
              answered |-> 0, outstanding |-> {}, fd2 |-> FALSE,
              begun |-> FALSE, heard |-> "none"]

TypeOK ==
    /\ connection \in Peers \cup {NoPeer}
    /\ pairingRequired \in BOOLEAN
    /\ dropping \in BOOLEAN
    /\ link \in Links
    /\ task \in Tasks
    /\ notified \in BOOLEAN
    /\ done \subseteq {"sec", "mtu", "ccc", "write"}
    /\ response \in 0..NoResponse
    /\ awaitingFd2 \in BOOLEAN
    /\ ready \in BOOLEAN
    /\ savedPeer \in Peers \cup {NoPeer}
    /\ savedLtk \in Peers \cup {NoPeer}
    /\ flashPeer \in Peers \cup {NoPeer}
    /\ flashLtk \in Peers \cup {NoPeer}
    /\ crossed \in BOOLEAN
    /\ forgetPc \in {"no", "peerKey", "pairKey", "drop"}

Connected == connection # NoPeer

(* Power-up with empty flash: pro2_ble_start.                               *)
Init ==
    /\ connection = NoPeer /\ pairingRequired = FALSE /\ dropping = FALSE
    /\ link = FreshLink
    /\ task = Idle /\ notified = FALSE
    /\ done = {} /\ response = NoResponse
    /\ awaitingFd2 = FALSE /\ ready = FALSE
    /\ savedPeer = NoPeer /\ savedLtk = NoPeer
    /\ flashPeer = NoPeer /\ flashLtk = NoPeer
    /\ crossed = FALSE /\ forgetPc = "no"

-----------------------------------------------------------------------------
(* setup_task.  Every flag and the ACK snapshot is reset before the wait    *)
(* that reads it, so done and response are kept for the wait in progress.   *)

Forgotten == done' = {} /\ response' = NoResponse

GoTo(next) ==
    /\ task' = [task EXCEPT !.pc = next]
    /\ Forgotten
    /\ UNCHANGED dropping

(* Mutant of GiveUp: an error path that forgets to disconnect.              *)
GiveUpKeepsLink == task' = Idle /\ Forgotten /\ UNCHANGED dropping

(* Mutant of GiveUp: it disconnects without looking for a link.             *)
GiveUpUnchecked == task' = Idle /\ Forgotten /\ dropping' = TRUE

(* The end of a failed attempt: disconnect_after_error when a connection is *)
(* there (whichever it is by now), then back to the top of the task's loop. *)
GiveUp ==
    /\ task' = Idle
    /\ Forgotten
    /\ dropping' = Connected

(* Leaving a loop: a task that slept took the notification that woke it, a  *)
(* task that found its condition true on entry did not.                     *)
Wakes == notified' \in {notified, FALSE}

Drain == notified' = FALSE

(* The stack has one request of kind r in the air.                          *)
Request(r) == link' = [link EXCEPT !.outstanding = @ \cup {r}]

(* Top of the loop: take a notification; without a connection, wait on.     *)
Begin ==
    /\ task.pc = "idle" /\ notified
    /\ notified' = FALSE
    /\ task' = IF Connected THEN [Idle EXCEPT !.pc = "secure"] ELSE Idle
    /\ link' = IF Connected /\ ~ready THEN [link EXCEPT !.begun = TRUE] ELSE link
    /\ UNCHANGED <<connection, pairingRequired, dropping, waitVars, readyVars,
                   storeVars, forgetPc>>

(* establish_saved_encryption: nothing to do without a saved key or on a    *)
(* link that is to be paired, no request on one already encrypted.          *)
SecureNotNeeded ==
    ~Connected \/ savedLtk = NoPeer \/ pairingRequired

Secure ==
    /\ task.pc = "secure"
    /\ \/ (SecureNotNeeded \/ link.encrypted) /\ GoTo("mtu") /\ UNCHANGED link
       \/ ~SecureNotNeeded /\ GiveUp /\ UNCHANGED link
       \/ /\ ~SecureNotNeeded /\ ~link.encrypted
          /\ Request("sec") /\ GoTo("secureWait")
    /\ UNCHANGED <<connection, pairingRequired, notified, readyVars, storeVars,
                   forgetPc>>

(* Mutant of SecureWait: the security error is not looked at.               *)
SecureWaitAnyResult ==
    /\ task.pc = "secureWait"
    /\ Wakes
    /\ IF Connected /\ "sec" \in done THEN GoTo("mtu") ELSE GiveUp
    /\ UNCHANGED <<linkVars, readyVars, storeVars, forgetPc>>

(* Leaving each loop is possible at any time: the condition came true, the  *)
(* link is gone or the deadline has passed.                                 *)
SecureWait ==
    /\ task.pc = "secureWait"
    /\ Wakes
    /\ IF Connected /\ "sec" \in done /\ link.encrypted THEN GoTo("mtu")
                                                        ELSE GiveUp
    /\ UNCHANGED <<linkVars, readyVars, storeVars, forgetPc>>

(* exchange_command_mtu up to its wait: the controller may raise the MTU by *)
(* itself within the grace period.                                          *)
Mtu ==
    /\ task.pc = "mtu"
    /\ \/ Connected /\ link.mtu /\ GoTo("discover") /\ UNCHANGED <<link, notified>>
       \/ ~Connected /\ GiveUp /\ UNCHANGED <<link, notified>>
       \/ Connected /\ Drain /\ GiveUp /\ UNCHANGED link
       \/ Connected /\ Drain /\ Request("mtu") /\ GoTo("mtuWait")
    /\ UNCHANGED <<connection, pairingRequired, readyVars, storeVars, forgetPc>>

(* Answered, refused or timed out: only the MTU in force counts.            *)
MtuWait ==
    /\ task.pc = "mtuWait"
    /\ Wakes
    /\ IF Connected /\ link.mtu THEN GoTo("discover") ELSE GiveUp
    /\ UNCHANGED <<linkVars, readyVars, storeVars, forgetPc>>

(* A request on the current connection; it can fail to start.               *)
StartRequest(from, r, wait) ==
    /\ task.pc = from
    /\ \/ GiveUp /\ UNCHANGED link
       \/ Connected /\ Request(r) /\ GoTo(wait)
    /\ UNCHANGED <<connection, pairingRequired, notified, readyVars, storeVars,
                   forgetPc>>

(* ulTaskNotifyTake(pdTRUE, timeout) and the test of what was to be found.  *)
TakeAndTest(from, handle, next) ==
    /\ task.pc = from
    /\ notified' = FALSE
    /\ IF notified /\ handle \in task.handles THEN GoTo(next) ELSE GiveUp
    /\ UNCHANGED <<linkVars, readyVars, storeVars, forgetPc>>

Discover     == StartRequest("discover", "discover", "discoverWait")
DiscoverWait == TakeAndTest("discoverWait", "chars", "cccAck")
CccAck       == StartRequest("cccAck", "descriptor", "cccAckWait")
CccAckWait   == TakeAndTest("cccAckWait", "ack", "cccFd2")
CccFd2       == StartRequest("cccFd2", "descriptor", "cccFd2Wait")
CccFd2Wait   == TakeAndTest("cccFd2Wait", "fd2", "ackSub")

AckSub ==
    /\ task.pc = "ackSub"
    /\ Drain
    /\ \/ GiveUp /\ UNCHANGED link
       \/ Connected /\ Request("ccc") /\ GoTo("ackSubWait")
    /\ UNCHANGED <<connection, pairingRequired, readyVars, storeVars, forgetPc>>

AckSubWait ==
    /\ task.pc = "ackSubWait"
    /\ Wakes
    /\ IF Connected /\ "ccc" \in done THEN GoTo("init") ELSE GiveUp
    /\ UNCHANGED <<linkVars, readyVars, storeVars, forgetPc>>

(* The controller gets a command.                                           *)
Received(cmd, requests) ==
    link' = [link EXCEPT
        !.received = @ \cup {cmd} \cup IF cmd = 0 /\ 0 \in @ THEN {Earlier} ELSE {},
        !.outstanding = @ \cup requests,
        !.heard = IF cmd = 0 THEN "none" ELSE @]

(* The ACK snapshot and write_command: the command is written without a     *)
(* response, or with one that is waited for.                                *)
WriteCommand(cmd, wait) ==
    /\ \/ GiveUp /\ UNCHANGED link
       \/ /\ "noResponse" \in WriteModes /\ Connected
          /\ Received(cmd, {}) /\ GoTo(wait)
       \/ /\ "response" \in WriteModes /\ Connected
          /\ Received(cmd, {"write"}) /\ GoTo("writeWait")
    /\ UNCHANGED <<connection, pairingRequired, notified, readyVars, storeVars,
                   forgetPc>>

(* The write response came: on to the wait for the notification, of which   *)
(* one may already be counted.  Or it was refused, or never came.           *)
WriteWait ==
    /\ task.pc = "writeWait"
    /\ Wakes
    /\ \/ GiveUp
       \/ /\ Connected /\ "write" \in done
          /\ task' = [task EXCEPT !.pc = IF task.step = 0 THEN "initWait"
                                                          ELSE "pairWait"]
          /\ done' = {} /\ UNCHANGED <<dropping, response>>
    /\ UNCHANGED <<linkVars, readyVars, storeVars, forgetPc>>

(* The head of the loop over init_commands, on an ordinary command ...      *)
InitWrite ==
    /\ task.pc = "init" /\ task.index < NumInit /\ task.index # PairIndex
    /\ WriteCommand(0, "initWait")

(* On to the next entry.                                                    *)
Advance ==
    /\ task' = [task EXCEPT !.pc = "init", !.index = @ + 1, !.step = 0]
    /\ Forgotten
    /\ UNCHANGED dropping

(* ... on the pairing entry, and past the last one.                         *)
InitNext ==
    /\ task.pc = "init"
    /\ \/ /\ task.index = NumInit
          /\ IF Connected THEN GoTo("fd2Sub") ELSE GiveUp
       \/ /\ task.index < NumInit /\ task.index = PairIndex
          /\ IF pairingRequired
               THEN /\ task' = [task EXCEPT !.pc = "pair", !.step = 1]
                    /\ Forgotten /\ UNCHANGED dropping
               ELSE Advance
    /\ UNCHANGED <<linkVars, notified, readyVars, storeVars, forgetPc>>

(* Mutant of InitWait: a single take instead of the loop on the counter.    *)
InitWaitAnyWake ==
    /\ task.pc = "initWait"
    /\ notified' = FALSE
    /\ IF Connected /\ notified THEN Advance ELSE GiveUp
    /\ UNCHANGED <<linkVars, readyVars, storeVars, forgetPc>>

(* An ACK notification was counted since the command was written.           *)
InitWait ==
    /\ task.pc = "initWait"
    /\ Wakes
    /\ IF Connected /\ response # NoResponse THEN Advance ELSE GiveUp
    /\ UNCHANGED <<linkVars, readyVars, storeVars, forgetPc>>

-----------------------------------------------------------------------------
(* run_proprietary_pairing.                                                 *)

PairWrite ==
    /\ task.pc = "pair"
    /\ WriteCommand(task.step, "pairWait")

(* Mutant of ResponseMatches: the response is not inspected.                *)
AnyResponseMatches == response # NoResponse

(* pairing_command's test: the response is to this step, not to another.    *)
ResponseMatches == response = task.step

(* Mutant of PairWait: one step too many.                                   *)
PairWaitFifthStep ==
    /\ task.pc = "pairWait"
    /\ Wakes
    /\ \/ GiveUp
       \/ /\ Connected /\ ResponseMatches
          /\ task' = [task EXCEPT !.pc = "pair", !.step = @ + 1]
          /\ Forgotten /\ UNCHANGED dropping
    /\ UNCHANGED <<linkVars, readyVars, storeVars, forgetPc>>

PairWait ==
    /\ task.pc = "pairWait"
    /\ Wakes
    /\ \/ GiveUp                \* timeout, wrong response, no random number
       \/ /\ Connected /\ ResponseMatches
          /\ IF task.step < 4
               THEN /\ task' = [task EXCEPT !.pc = "pair", !.step = @ + 1]
                    /\ Forgotten /\ UNCHANGED dropping
               ELSE GoTo("persist")
    /\ UNCHANGED <<linkVars, readyVars, storeVars, forgetPc>>

(* persist_pairing_ltk: the record is stored for the connected controller;  *)
(* installing it in the key database can fail after that.                   *)
Persist ==
    /\ task.pc = "persist"
    /\ \/ GiveUp /\ UNCHANGED <<flashLtk, savedLtk>>
       \/ /\ Connected
          /\ flashLtk' = connection /\ savedLtk' = connection
          /\ GiveUp \/ Advance
    /\ UNCHANGED <<linkVars, notified, readyVars, savedPeer, flashPeer, crossed,
                   forgetPc>>

-----------------------------------------------------------------------------
(* The first FD2 report, and what follows it.                               *)

Fd2Sub ==
    /\ task.pc = "fd2Sub"
    /\ Drain
    /\ \/ GiveUp /\ UNCHANGED link /\ awaitingFd2' = FALSE
       \/ /\ Connected
          /\ link' = [link EXCEPT !.subs = @ \cup {"fd2"}]
          /\ GoTo("fd2Wait") /\ awaitingFd2' = TRUE
    /\ UNCHANGED <<connection, pairingRequired, ready, storeVars, forgetPc>>

(* Any notification counts as the report.                                   *)
Fd2Wait ==
    /\ task.pc = "fd2Wait"
    /\ notified' = FALSE
    /\ IF notified THEN GoTo("firstFd2") /\ UNCHANGED awaitingFd2
                   ELSE GiveUp /\ awaitingFd2' = FALSE
    /\ UNCHANGED <<linkVars, ready, storeVars, forgetPc>>

FirstFd2 ==
    /\ task.pc = "firstFd2"
    /\ awaitingFd2' = FALSE
    /\ IF Connected
         THEN /\ task' = [task EXCEPT !.pc = "store", !.peer = connection]
              /\ savedPeer' = connection /\ crossed' = ~link.begun
              /\ Forgotten /\ UNCHANGED dropping
         ELSE GiveUp /\ UNCHANGED <<savedPeer, crossed>>
    /\ UNCHANGED <<linkVars, notified, ready, savedLtk, flashPeer, flashLtk,
                   forgetPc>>

(* The result of ef_set_env_blob is not looked at.                          *)
Store ==
    /\ task.pc = "store"
    /\ flashPeer' \in {task.peer, flashPeer}
    /\ GoTo("publish")
    /\ UNCHANGED <<linkVars, notified, readyVars, savedPeer, savedLtk, flashLtk,
                   crossed, forgetPc>>

Publish ==
    /\ task.pc = "publish"
    /\ ready' = TRUE
    /\ task' = Idle /\ Forgotten
    /\ UNCHANGED <<linkVars, dropping, notified, awaitingFd2, storeVars,
                   forgetPc>>

(* What setup_task does by itself: every wait has a deadline.               *)
SetupStep ==
    \/ Begin \/ Secure \/ SecureWait \/ Mtu \/ MtuWait
    \/ Discover \/ DiscoverWait \/ CccAck \/ CccAckWait \/ CccFd2 \/ CccFd2Wait
    \/ AckSub \/ AckSubWait \/ InitWrite \/ InitNext \/ InitWait \/ WriteWait
    \/ PairWrite \/ PairWait \/ Persist
    \/ Fd2Sub \/ Fd2Wait \/ FirstFd2 \/ Store \/ Publish

(* Does the loop setup_task sleeps in have what it waits for?               *)
Satisfied ==
    \/ done # {}
    \/ response # NoResponse /\ task.pc # "writeWait"

(* A loop woken by something else sleeps again.                             *)
WakeAndWait ==
    /\ task.pc \in Loops
    /\ notified /\ ~Satisfied
    /\ notified' = FALSE
    /\ UNCHANGED <<linkVars, dropping, task, waitVars, readyVars, storeVars,
                   forgetPc>>

-----------------------------------------------------------------------------
(* The callbacks of the Bluetooth host.                                     *)

Give == notified' = TRUE            \* xTaskNotifyGive(setup_task_handle)

(* The callback of request r sets its flag, which only its own loop reads.  *)
Complete(r, loop) ==
    /\ r \in link.outstanding
    /\ done' = IF task.pc = loop THEN done \cup {r} ELSE done
    /\ Give
    /\ UNCHANGED <<connection, pairingRequired, dropping, task, response,
                   readyVars, storeVars, forgetPc>>

(* RECONNECT_BACKOFF_MS is longer than any stretch setup_task runs or naps  *)
(* through, so a link comes back only to a task that sleeps in a wait: the  *)
(* top of its loop or a wait of the previous link, all of which are longer. *)
TaskAsleep ==
    /\ ~notified /\ ~Satisfied
    /\ task.pc \in {"idle"} \cup Loops \cup TakeOnce

(* connected_cb.  With a saved controller only that one is connected.       *)
ConnectedCb ==
    /\ ~Connected /\ TaskAsleep
    /\ \E p \in Peers, pairing \in BOOLEAN :
         /\ savedPeer \in {NoPeer, p}
         /\ connection' = p /\ pairingRequired' = pairing
    /\ ready' = FALSE
    /\ Give
    /\ link' = FreshLink /\ dropping' = FALSE
    /\ UNCHANGED <<task, waitVars, awaitingFd2, storeVars, forgetPc>>

(* disconnected_cb.  It wakes nobody; the stack may fail the requests still *)
(* outstanding just after it, and those callbacks do.                       *)
DisconnectedCb ==
    /\ Connected
    /\ connection' = NoPeer /\ pairingRequired' = FALSE
    /\ ready' = FALSE /\ awaitingFd2' = FALSE
    /\ dropping' = FALSE /\ link' = FreshLink
    /\ \/ UNCHANGED notified
       \/ link.outstanding \ {"sec"} # {} /\ Give
    /\ UNCHANGED <<task, waitVars, storeVars, forgetPc>>

(* security_changed_cb.  Only the controller's own key encrypts its link.   *)
SecurityChangedCb ==
    /\ Complete("sec", "secureWait")
    /\ \E ok \in BOOLEAN :
         /\ ok => savedLtk = connection
         /\ link' = [link EXCEPT !.outstanding = @ \ {"sec"}, !.encrypted = ok]

(* mtu_exchange_cb; the MTU reached need not be enough.                     *)
MtuExchangeCb ==
    /\ Complete("mtu", "mtuWait")
    /\ \E enough \in BOOLEAN :
         link' = [link EXCEPT !.outstanding = @ \ {"mtu"}, !.mtu = @ \/ enough]

(* The controller negotiates the MTU itself.                                *)
PeerMtu ==
    /\ Connected /\ ~link.mtu
    /\ link' = [link EXCEPT !.mtu = TRUE]
    /\ UNCHANGED <<connection, pairingRequired, dropping, task, notified,
                   waitVars, readyVars, storeVars, forgetPc>>

(* discover_cb and descriptor_cb find an attribute ...                      *)
Found ==
    /\ \E h \in {"chars", "ack", "fd2"} :
         /\ \/ h = "chars" /\ "discover" \in link.outstanding
            \/ /\ "descriptor" \in link.outstanding
               /\ task.pc = IF h = "ack" THEN "cccAckWait" ELSE "cccFd2Wait"
               /\ h # "chars"
         /\ task' = [task EXCEPT !.handles = @ \cup {h}]
    /\ UNCHANGED <<linkVars, dropping, notified, waitVars, readyVars, storeVars,
                   forgetPc>>

(* ... and report the end of the range.                                     *)
DiscoveryEnd ==
    /\ \E r \in link.outstanding \cap {"discover", "descriptor"} :
         link' = [link EXCEPT !.outstanding = @ \ {r}]
    /\ Give
    /\ UNCHANGED <<connection, pairingRequired, dropping, task, waitVars,
                   readyVars, storeVars, forgetPc>>

(* ack_notify with no data: the CCC write was confirmed.                    *)
AckCccCb ==
    /\ Complete("ccc", "ackSubWait")
    /\ link' = [link EXCEPT !.outstanding = @ \ {"ccc"}, !.subs = @ \cup {"ack"}]

(* ack_notify with data: the controller answers a command it has received,  *)
(* perhaps late or again.  It accepts a pairing step or refuses it.         *)
AckNotify(cmd) ==
    /\ "ack" \in link.subs
    /\ \E r \in {IF cmd = Earlier THEN 0 ELSE cmd, Refused} :
         /\ link' = [link EXCEPT
                !.answered = IF r = @ + 1 /\ r <= 4 THEN r ELSE @,
                !.heard = IF cmd = 0 \/ @ = "this" THEN "this"
                          ELSE IF 0 \in link.received THEN "other" ELSE @]
         /\ response' = IF task.pc \in {"writeWait", "initWait", "pairWait"}
                          THEN r ELSE response
    /\ Give
    /\ UNCHANGED <<connection, pairingRequired, dropping, task, done, readyVars,
                   storeVars, forgetPc>>

(* command_write_cb, after a write response or an error response.           *)
CommandWriteCb ==
    /\ Complete("write", "writeWait")
    /\ link' = [link EXCEPT !.outstanding = @ \ {"write"}]

(* fd2_notify: it wakes the task only while the first report is awaited.    *)
Fd2Notify ==
    /\ "fd2" \in link.subs
    /\ link' = [link EXCEPT !.fd2 = TRUE]
    /\ notified' = (notified \/ awaitingFd2)
    /\ UNCHANGED <<connection, pairingRequired, dropping, task, waitVars,
                   readyVars, storeVars, forgetPc>>

Callback ==
    \/ ConnectedCb \/ DisconnectedCb \/ SecurityChangedCb \/ MtuExchangeCb
    \/ PeerMtu \/ Found \/ DiscoveryEnd \/ AckCccCb \/ CommandWriteCb \/ Fd2Notify
    \/ \E cmd \in link.received : AckNotify(cmd)

-----------------------------------------------------------------------------
(* pro2_ble_forget_peer, run by the board or the USB task, and a power cut. *)

ForgetStore ==
    /\ \/ /\ "forget" \in Outside
          /\ forgetPc = "no"
          /\ savedPeer' = NoPeer /\ savedLtk' = NoPeer /\ crossed' = FALSE
          /\ forgetPc' = "peerKey"
          /\ UNCHANGED <<flashPeer, flashLtk>>
       \/ /\ forgetPc = "peerKey"
          /\ flashPeer' = NoPeer
          /\ forgetPc' = "pairKey"
          /\ UNCHANGED <<savedPeer, savedLtk, flashLtk, crossed>>
       \/ /\ forgetPc = "pairKey"
          /\ flashLtk' = NoPeer
          /\ forgetPc' = "drop"
          /\ UNCHANGED <<savedPeer, savedLtk, flashPeer, crossed>>
    /\ UNCHANGED <<linkVars, dropping, task, notified, waitVars, readyVars>>

(* Mutant of ForgetDrop: the controller is forgotten, its link is kept.     *)
ForgetKeepsLink ==
    /\ forgetPc = "drop"
    /\ forgetPc' = "no"
    /\ UNCHANGED <<dropping, linkVars, task, notified, waitVars, readyVars,
                   storeVars>>

ForgetDrop ==
    /\ forgetPc = "drop"
    /\ forgetPc' = "no"
    /\ dropping' = Connected
    /\ UNCHANGED <<linkVars, task, notified, waitVars, readyVars, storeVars>>

Forget == ForgetStore \/ ForgetDrop

(* Mutant of RestoredLtk: the key is kept whoever it belongs to.            *)
RestoredAnyLtk == flashLtk

(* Power is cut at any point.  What is in flash survives: pro2_ble_start    *)
(* loads the peer, restore_pairing_ltk keeps the key if it is that peer's.  *)
RestoredLtk == IF flashLtk = flashPeer THEN flashLtk ELSE NoPeer

Restart ==
    /\ "restart" \in Outside
    /\ connection' = NoPeer /\ pairingRequired' = FALSE /\ dropping' = FALSE
    /\ link' = FreshLink
    /\ task' = Idle /\ notified' = FALSE
    /\ done' = {} /\ response' = NoResponse
    /\ awaitingFd2' = FALSE /\ ready' = FALSE
    /\ savedPeer' = flashPeer /\ savedLtk' = RestoredLtk /\ crossed' = FALSE
    /\ forgetPc' = "no"
    /\ UNCHANGED <<flashPeer, flashLtk>>

Next == SetupStep \/ WakeAndWait \/ Callback \/ Forget \/ Restart

(* The scheduler runs a task that is ready, a deadline passes, and a link   *)
(* that was told to disconnect goes down.  Nothing is assumed of the        *)
(* controller: it may never answer.                                         *)
Fairness ==
    /\ WF_vars(SetupStep)
    /\ WF_vars(dropping /\ DisconnectedCb)

Spec == Init /\ [][Next]_vars /\ Fairness

-----------------------------------------------------------------------------
(* Properties.                                                              *)

(* A key is stored only for a controller that agreed to it: it accepted the *)
(* address, key, challenge and finalize steps, all on the link it is stored *)
(* for, whatever replies come late, twice or to another command             *)
(* (pairing_command, persist_pairing_ltk).                                  *)
KeyWasAgreed ==
    [][\A p \in Peers : flashLtk' = p /\ flashLtk # p
         => connection = p /\ link.answered = 4]_vars

(* While a controller is saved, the key in RAM is not another controller's, *)
(* although persist_pairing_ltk stores a key long before the controller is  *)
(* saved and establish_saved_encryption never compares owners: the wrong    *)
(* key cannot get a link encrypted, so its set-up cannot reach the save;    *)
(* unless the set-up that saved the controller had begun on another link.   *)
KeyOwner ==
    savedPeer # NoPeer /\ ~crossed => savedLtk \in {savedPeer, NoPeer}

(* The README: the derived LTK is persisted, and the controller reconnects  *)
(* with link encryption restored: the saved controller's key is its own.    *)
SavedKeyFits == savedPeer # NoPeer => savedLtk \in {savedPeer, NoPeer}

(* A usable link (pro2_ble_connected) to a controller whose key we hold is  *)
(* encrypted, unless this very link had to be paired ...                    *)
ReadyEncrypted ==
    ready /\ Connected /\ savedLtk = connection /\ ~pairingRequired
        => link.encrypted

(* ... if its set-up began on it: whatever is forgotten, cut off, left over *)
(* or late, a set-up that ran on one link from end to end encrypted it.     *)
ReadyIsEncrypted == link.begun => ReadyEncrypted

(* A usable link is one to the saved controller, or has been told to go, or *)
(* a forget that cleared the controller is about to tell it: also a link    *)
(* that the set-up of an earlier one has made usable.                       *)
ReadyIsSaved ==
    ready /\ Connected
        => savedPeer = connection \/ dropping \/ forgetPc # "no"

(* The README: a hold of BOOT clears the saved controller.  So none is      *)
(* saved, in RAM or in flash, when pro2_ble_forget_peer returns.            *)
ForgetClears ==
    [][ForgetDrop => savedPeer = NoPeer /\ flashPeer = NoPeer]_vars

(* The README: later power cycles reconnect.  So the controller of a link   *)
(* that is declared ready is in flash, when nothing is being forgotten.     *)
ReadyIsStored ==
    ready /\ Connected /\ ~dropping /\ forgetPc = "no" => flashPeer = connection

(* The wait for a command's ACK is not ended by any other callback (the     *)
(* README's independent ACK counter): the next command follows only once    *)
(* the controller of this link has got the command and, after it, answered  *)
(* a command; also when the link changes during the wait.                   *)
AckBeforeNextCommand ==
    [][task.pc = "initWait" /\ task'.pc = "init"
         => 0 \in link.received /\ link.heard # "none"]_vars

(* The README: the controller is saved only after each of the commands has  *)
(* got its ACK.  So the answer that ends the wait is the command's own.     *)
EachCommandAcked ==
    [][task.pc = "initWait" /\ task'.pc = "init" => link.heard = "this"]_vars

(* The set-up keeps its part of LinkLife, which is all that BleLink knows   *)
(* of it: however links come and go and whenever the controller is          *)
(* forgotten, it saves and stores only the controller of the link it has    *)
(* set up, over no other one, and tells only a link that is there to go     *)
(* (persist, disconnect_after_error, pro2_ble_forget_peer).                 *)
Life == INSTANCE LinkLife WITH
    peer <- connection, saved <- savedPeer, stored <- flashPeer, told <- dropping

KeepsLife == Life!LifeSpec

(* No link stays half set up: it becomes usable or is taken down, even when *)
(* the controller stops answering or another link's wait ate the            *)
(* notification that announced it.                                          *)
NoHalfSetUpLink == Connected ~> (ready \/ ~Connected)

(* The README: the controller is saved, and the link ready, only after the  *)
(* first FD2 report was received.                                           *)
ReadyAfterFd2 == ready /\ Connected => link.fd2
=============================================================================
