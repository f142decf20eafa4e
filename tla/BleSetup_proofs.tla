--------------------------- MODULE BleSetup_proofs --------------------------
(***************************************************************************)
(* Proofs about BleSetup for any controllers, any list of initialization   *)
(* commands with the pairing exchange in it, commands written in either    *)
(* way, forgets and power cuts at any point, and links that come back at   *)
(* any time, also while setup_task sleeps in a wait of the one before:     *)
(* whose key is stored, what a link in use has been through, and what the  *)
(* controller has answered.                                                *)
(***************************************************************************)
EXTENDS BleSetup, TLAPS

(* The place in the loop over init_commands where the task is: writing or   *)
(* awaiting an ordinary command, in the exchange, or past the loop.         *)
Commanding ==
    task.pc = "initWait" \/ (task.pc = "writeWait" /\ task.step = 0)
Pairing ==
    \/ task.pc \in {"pair", "pairWait", "persist"}
    \/ task.pc = "writeWait" /\ task.step # 0
Ending == task.pc \in {"fd2Sub", "fd2Wait", "firstFd2", "store", "publish"}

(* Past the encryption of the link.                                         *)
PastSecure == task.pc \notin {"idle", "secure", "secureWait"}

-----------------------------------------------------------------------------
(* The inductive invariant.                                                 *)

Position ==
    /\ Pairing \/ task.step = 0
    /\ ~PastSecure => task.index = 0
    /\ Commanding => task.index < NumInit /\ task.index # PairIndex
    /\ Pairing => /\ task.index = PairIndex /\ task.index < NumInit
                  /\ task.step \in PairSteps
    /\ Ending => task.index = NumInit

(* The exchange runs only on a link that is to be paired, unless the set-up *)
(* began on another link.                                                   *)
PairedLink == Pairing /\ Connected /\ link.begun => pairingRequired

(* A controller is connected only if it is the saved one or none is saved.  *)
SavedIsConnected == Connected => savedPeer \in {NoPeer, connection}

(* Only the link's own key encrypted it, and it is not asked for again.     *)
OwnKey ==
    /\ link.encrypted => savedLtk \in {NoPeer, connection}
    /\ "sec" \in link.outstanding => ~link.encrypted

(* Past the encryption of a link on which the set-up began, a key that is   *)
(* held and that the link was not paired for has encrypted it; past the     *)
(* exchange, the key is the one agreed on.                                  *)
KeyFits ==
    PastSecure /\ Connected /\ link.begun =>
        /\ ~pairingRequired /\ savedLtk # NoPeer
             => savedLtk = connection /\ link.encrypted
        /\ pairingRequired /\ task.index > PairIndex
             => savedLtk \in {NoPeer, connection}

(* What FirstFd2 saved is still saved, unless a forget came.                *)
SavedNow ==
    /\ task.pc \in {"store", "publish"}
    /\ Connected /\ ~dropping /\ forgetPc = "no"
    => savedPeer = connection

SetupInv ==
    /\ Position /\ PairedLink /\ SavedIsConnected /\ OwnKey /\ KeyFits
    /\ SavedNow /\ KeyOwner /\ ReadyIsEncrypted /\ ReadyIsSaved

-----------------------------------------------------------------------------
(* Types.                                                                   *)

Places == {"idle"} \cup Loops \cup TakeOnce \cup Running

LEMMA IdleIsTask ==
    /\ Idle \in Tasks /\ Idle.pc = "idle" /\ Idle.index = 0 /\ Idle.step = 0
    /\ [Idle EXCEPT !.pc = "secure"] \in Tasks
    /\ [Idle EXCEPT !.pc = "secure"].pc = "secure"
  BY BleSetupAssumption DEF Idle, Tasks, Running, PairSteps

LEMMA FreshIsLink ==
    /\ FreshLink \in Links /\ FreshLink.outstanding = {}
    /\ ~FreshLink.encrypted /\ ~FreshLink.begun
<1>1. \A e, m, f, b \in BOOLEAN :
        [encrypted |-> e, mtu |-> m, subs |-> {}, received |-> {},
         answered |-> 0, outstanding |-> {}, fd2 |-> f, begun |-> b,
         heard |-> "none"] \in Links
  BY DEF Links
<1>2. FreshLink \in Links
  BY <1>1, Zenon DEF FreshLink
<1> QED
  BY <1>2 DEF FreshLink

LEMMA GoToTask ==
  ASSUME task \in Tasks, NEW next \in Places, GoTo(next)
  PROVE  /\ task' \in Tasks
         /\ task'.pc = next /\ task'.index = task.index /\ task'.step = task.step
         /\ UNCHANGED dropping /\ done' = {} /\ response' = NoResponse
  BY DEF GoTo, Forgotten, Tasks, Places

LEMMA GiveUpTask ==
  ASSUME GiveUp
  PROVE  /\ task' = Idle /\ dropping' = Connected
         /\ done' = {} /\ response' = NoResponse
  BY DEF GiveUp, Forgotten

LEMMA AdvanceTask ==
  ASSUME task \in Tasks, task.index < NumInit, Advance
  PROVE  /\ task' \in Tasks /\ task'.pc = "init" /\ task'.step = 0
         /\ task'.index = task.index + 1
         /\ UNCHANGED dropping /\ done' = {} /\ response' = NoResponse
<1>1. task' = [task EXCEPT !.pc = "init", !.index = task.index + 1, !.step = 0]
  BY DEF Advance
<1>2. task.index + 1 \in 0..NumInit /\ "init" \in Running
  BY BleSetupAssumption DEF Tasks, Running
<1>3. task' \in Tasks /\ task'.pc = "init" /\ task'.step = 0
      /\ task'.index = task.index + 1
  BY <1>1, <1>2 DEF Tasks
<1> QED
  BY <1>3 DEF Advance, Forgotten

LEMMA RequestLink ==
  ASSUME link \in Links, NEW r \in Requests, Request(r)
  PROVE  /\ link' \in Links /\ link'.encrypted = link.encrypted
         /\ link'.begun = link.begun
         /\ link'.outstanding = link.outstanding \cup {r}
  BY DEF Request, Links

(* The controller gets a command; answers to it are counted from here on.   *)
LEMMA ReceivedLink ==
  ASSUME link \in Links, NEW cmd \in 0..4, NEW requests \in SUBSET {"write"},
         Received(cmd, requests)
  PROVE  /\ link' \in Links /\ link'.encrypted = link.encrypted
         /\ link'.begun = link.begun /\ link'.answered = link.answered
         /\ link'.subs = link.subs /\ cmd \in link'.received
         /\ link.received \subseteq link'.received
         /\ link'.received \subseteq link.received \cup {cmd, Earlier}
         /\ link'.outstanding = link.outstanding \cup requests
<1> DEFINE got == link.received \cup {cmd}
                    \cup IF cmd = 0 /\ 0 \in link.received THEN {Earlier} ELSE {}
           said == IF cmd = 0 THEN "none" ELSE link.heard
<1>1. /\ got \in SUBSET ((0..4) \cup {Earlier}) /\ cmd \in got
      /\ link.received \subseteq got /\ got \subseteq link.received \cup {cmd, Earlier}
      /\ said \in {"none", "other", "this"}
      /\ link.outstanding \cup requests \in SUBSET Requests
  BY DEF Links, Requests
<1>2. link' = [link EXCEPT !.received = got,
                           !.outstanding = link.outstanding \cup requests,
                           !.heard = said]
  BY DEF Received
<1> HIDE DEF got, said
<1> QED
  BY <1>1, <1>2 DEF Links

(* A command, or the pairing step, is written to the controller.            *)
LEMMA WriteCommandEffect ==
  ASSUME task \in Tasks, link \in Links, NEW cmd \in 0..4,
         NEW wait \in {"initWait", "pairWait"}, WriteCommand(cmd, wait)
  PROVE  /\ link' \in Links /\ link'.encrypted = link.encrypted
         /\ link'.begun = link.begun
         /\ "sec" \in link'.outstanding => "sec" \in link.outstanding
         /\ \/ task' = Idle /\ dropping' = Connected
            \/ /\ task' \in Tasks /\ task'.pc \in {wait, "writeWait"}
               /\ task'.index = task.index /\ task'.step = task.step
               /\ UNCHANGED dropping
         /\ done' = {} /\ response' = NoResponse
         /\ UNCHANGED <<connection, pairingRequired, notified, readyVars,
                        storeVars, forgetPc>>
<1>1. CASE GiveUp /\ UNCHANGED link
  BY <1>1, GiveUpTask DEF WriteCommand
<1>2. ASSUME NEW requests \in SUBSET {"write"}, NEW next \in {wait, "writeWait"},
             Received(cmd, requests), GoTo(next)
      PROVE  /\ link' \in Links /\ link'.encrypted = link.encrypted
             /\ link'.begun = link.begun
             /\ "sec" \in link'.outstanding => "sec" \in link.outstanding
             /\ task' \in Tasks /\ task'.pc \in {wait, "writeWait"}
             /\ task'.index = task.index /\ task'.step = task.step
             /\ UNCHANGED dropping /\ done' = {} /\ response' = NoResponse
  <2>1. next \in Places
    BY DEF Places, Loops
  <2> QED
    BY <1>2, <2>1, GoToTask, ReceivedLink
<1> QED
  BY <1>1, <1>2 DEF WriteCommand

-----------------------------------------------------------------------------
(* The steps of setup_task that touch neither the records nor the           *)
(* connection.                                                              *)

Typed ==
    task \in Tasks /\ link \in Links /\ connection \in Peers \cup {NoPeer}

Quietly == UNCHANGED <<connection, pairingRequired, ready, storeVars, forgetPc>>

KeepsEncryption ==
    /\ link' \in Links /\ link'.encrypted = link.encrypted
    /\ link'.begun = link.begun
    /\ "sec" \in link'.outstanding => "sec" \in link.outstanding \/ ~link.encrypted

LEMMA GiveUpInv ==
  ASSUME SetupInv, Typed, Quietly, KeepsEncryption, GiveUp
  PROVE  SetupInv' /\ Typed'
<1>1. task' = Idle /\ dropping' = Connected
  BY GiveUpTask
<1>2. Position' /\ PairedLink' /\ KeyFits' /\ SavedNow'
  BY <1>1, IdleIsTask
     DEF Position, PairedLink, KeyFits, SavedNow, Commanding, Pairing, Ending,
         PastSecure
<1>3. SavedIsConnected' /\ OwnKey' /\ KeyOwner' /\ ReadyIsEncrypted'
  BY DEF SetupInv, SavedIsConnected, OwnKey, KeyOwner, ReadyIsEncrypted, ReadyEncrypted,
         Quietly, KeepsEncryption, Connected, storeVars
<1>4. ReadyIsSaved'
  BY <1>1 DEF ReadyIsSaved, Connected, Quietly
<1> QED
  BY <1>1, <1>2, <1>3, <1>4, IdleIsTask
     DEF SetupInv, KeepsEncryption, Typed, Quietly

LEMMA MoveInv ==
  ASSUME SetupInv, Typed, Quietly, KeepsEncryption, UNCHANGED dropping,
         task' \in Tasks, Position', PairedLink', KeyFits',
         task'.pc # "store", task'.pc = "publish" => task.pc = "store"
  PROVE  SetupInv' /\ Typed'
<1>1. SavedIsConnected' /\ OwnKey' /\ KeyOwner' /\ ReadyIsEncrypted' /\ ReadyIsSaved'
  BY DEF SetupInv, SavedIsConnected, OwnKey, KeyOwner, ReadyIsEncrypted, ReadyEncrypted,
         ReadyIsSaved, Quietly, KeepsEncryption, Connected, storeVars
<1>2. SavedNow'
  BY DEF SetupInv, SavedNow, Quietly, Connected, storeVars
<1> QED
  BY <1>1, <1>2 DEF SetupInv, KeepsEncryption, Typed, Quietly

(* On to the next place, past the encryption and outside the exchange.      *)
LEMMA StepOnInv ==
  ASSUME SetupInv, Typed, Quietly, KeepsEncryption, NEW next \in Places,
         GoTo(next), PastSecure, next \notin {"idle", "secure", "secureWait"},
         next \notin {"initWait", "writeWait", "pair", "pairWait", "store"},
         next = "persist" <=> Pairing,
         next = "publish" => task.pc = "store",
         next \in {"fd2Sub", "fd2Wait", "firstFd2", "publish"}
            => task.index = NumInit
  PROVE  SetupInv' /\ Typed'
<1>1. /\ task' \in Tasks /\ UNCHANGED dropping
      /\ task'.pc = next /\ task'.index = task.index /\ task'.step = task.step
  BY GoToTask DEF Typed
<1>2. Position' /\ PairedLink'
  BY <1>1 DEF Position, PairedLink, Commanding, Pairing, Ending, SetupInv,
              Quietly, KeepsEncryption, Connected, PastSecure, Places
<1>3. KeyFits'
  BY <1>1 DEF KeyFits, SetupInv, Quietly, KeepsEncryption, Connected,
              PastSecure, storeVars
<1> QED
  BY <1>1, <1>2, <1>3, MoveInv

LEMMA QuietSteps ==
  ASSUME SetupInv, Typed,
         \/ Mtu \/ MtuWait \/ Discover \/ DiscoverWait \/ CccAck \/ CccAckWait
         \/ CccFd2 \/ CccFd2Wait \/ AckSub \/ Fd2Sub \/ Fd2Wait \/ Store
  PROVE  SetupInv' /\ Typed'
<1> USE DEF Places, Running, Loops, TakeOnce, PastSecure, Pairing, Requests
<1>1. CASE Mtu
  <2>1. Quietly /\ KeepsEncryption
    BY <1>1, RequestLink DEF Mtu, Quietly, KeepsEncryption, Typed, readyVars
  <2> QED
    BY <1>1, <2>1, GiveUpInv, StepOnInv DEF Mtu
<1>2. CASE MtuWait
  <2>1. Quietly /\ KeepsEncryption
    BY <1>2 DEF MtuWait, Quietly, KeepsEncryption, Typed, readyVars, linkVars
  <2> QED
    BY <1>2, <2>1, GiveUpInv, StepOnInv DEF MtuWait
<1>3. ASSUME NEW from \in {"discover", "cccAck", "cccFd2"},
             NEW r \in {"discover", "descriptor"},
             NEW wait \in {"discoverWait", "cccAckWait", "cccFd2Wait"},
             StartRequest(from, r, wait)
      PROVE  SetupInv' /\ Typed'
  <2>1. Quietly /\ KeepsEncryption
    BY <1>3, RequestLink DEF StartRequest, Quietly, KeepsEncryption, Typed, readyVars
  <2> QED
    BY <1>3, <2>1, GiveUpInv, StepOnInv DEF StartRequest
<1>4. ASSUME NEW from \in {"discoverWait", "cccAckWait", "cccFd2Wait"},
             NEW handle, NEW next \in {"cccAck", "cccFd2", "ackSub"},
             TakeAndTest(from, handle, next)
      PROVE  SetupInv' /\ Typed'
  <2>1. Quietly /\ KeepsEncryption
    BY <1>4 DEF TakeAndTest, Quietly, KeepsEncryption, Typed, readyVars, linkVars
  <2> QED
    BY <1>4, <2>1, GiveUpInv, StepOnInv DEF TakeAndTest
<1>5. CASE AckSub
  <2>1. Quietly /\ KeepsEncryption
    BY <1>5, RequestLink DEF AckSub, Quietly, KeepsEncryption, Typed, readyVars
  <2> QED
    BY <1>5, <2>1, GiveUpInv, StepOnInv DEF AckSub
<1>6. CASE Fd2Sub
  <2>1. Quietly
    BY <1>6 DEF Fd2Sub, Quietly
  <2>2. KeepsEncryption
    BY <1>6 DEF Fd2Sub, KeepsEncryption, Typed, Links
  <2>3. task.index = NumInit
    BY <1>6 DEF Fd2Sub, SetupInv, Position, Ending
  <2> QED
    BY <1>6, <2>1, <2>2, <2>3, GiveUpInv, StepOnInv DEF Fd2Sub
<1>7. CASE Fd2Wait
  <2>1. Quietly /\ KeepsEncryption
    BY <1>7 DEF Fd2Wait, Quietly, KeepsEncryption, Typed, linkVars
  <2>2. task.index = NumInit
    BY <1>7 DEF Fd2Wait, SetupInv, Position, Ending
  <2> QED
    BY <1>7, <2>1, <2>2, GiveUpInv, StepOnInv DEF Fd2Wait
<1>8. CASE Store
  <2>1. /\ task.index = NumInit /\ GoTo("publish") /\ UNCHANGED link
        /\ UNCHANGED <<connection, pairingRequired, ready, savedPeer, savedLtk,
                       crossed, forgetPc>>
    BY <1>8 DEF Store, SetupInv, Position, Ending, linkVars, readyVars
  <2>2. /\ task' \in Tasks /\ UNCHANGED dropping
        /\ task'.pc = "publish" /\ task'.index = NumInit
        /\ task'.step = task.step
        /\ task.pc = "store"
    BY <1>8, <2>1, GoToTask DEF Typed, Store
  <2>3. Position' /\ PairedLink' /\ KeyFits' /\ SavedNow'
    BY <2>1, <2>2 DEF Position, PairedLink, KeyFits, SavedNow, Commanding,
       Pairing, Ending, SetupInv, Connected, PastSecure
  <2>4. SavedIsConnected' /\ OwnKey' /\ KeyOwner' /\ ReadyIsEncrypted'
        /\ ReadyIsSaved'
    BY <2>1, <2>2 DEF SetupInv, SavedIsConnected, OwnKey, KeyOwner,
       ReadyIsEncrypted, ReadyEncrypted, ReadyIsSaved, Connected
  <2> QED
    BY <2>1, <2>2, <2>3, <2>4 DEF SetupInv, Typed
<1> QED
  BY <1>1, <1>2, <1>3, <1>4, <1>5, <1>6, <1>7, <1>8
     DEF Discover, DiscoverWait, CccAck, CccAckWait, CccFd2, CccFd2Wait

-----------------------------------------------------------------------------
(* The beginning of a set-up.                                               *)

LEMMA BeginSteps ==
  ASSUME SetupInv, Typed, Begin \/ Secure \/ SecureWait \/ AckSubWait
  PROVE  SetupInv' /\ Typed'
<1> USE DEF Places, Running, Loops, TakeOnce, Requests
<1>1. CASE Begin
  <2>1. Quietly /\ UNCHANGED dropping
    BY <1>1 DEF Begin, Quietly, readyVars
  <2>2. /\ task' \in Tasks /\ task'.pc \in {"idle", "secure"}
        /\ task'.step = 0 /\ task'.index = 0
    <3>1. task' = Idle \/ task' = [Idle EXCEPT !.pc = "secure"]
      BY <1>1 DEF Begin
    <3>2. /\ [Idle EXCEPT !.pc = "secure"].step = 0
          /\ [Idle EXCEPT !.pc = "secure"].index = 0
      BY DEF Idle
    <3> QED
      BY <3>1, <3>2, IdleIsTask
  <2>3. Position' /\ PairedLink' /\ KeyFits' /\ SavedNow'
    BY <2>2 DEF Position, PairedLink, KeyFits, SavedNow, Commanding, Pairing,
                Ending, PastSecure
  <2>4. /\ link' \in Links /\ link'.encrypted = link.encrypted
        /\ link'.outstanding = link.outstanding
        /\ link'.begun => link.begun \/ ~ready
    <3>1. link' = link \/ (~ready /\ link' = [link EXCEPT !.begun = TRUE])
      BY <1>1 DEF Begin
    <3> QED
      BY <3>1 DEF Typed, Links
  <2>5. SavedIsConnected' /\ OwnKey' /\ KeyOwner' /\ ReadyIsEncrypted'
        /\ ReadyIsSaved'
    BY <2>1, <2>4
       DEF SetupInv, SavedIsConnected, OwnKey, KeyOwner, ReadyIsEncrypted,
           ReadyEncrypted, ReadyIsSaved, Quietly, Connected, storeVars
  <2> QED
    BY <2>1, <2>2, <2>3, <2>4, <2>5 DEF SetupInv, Typed, Quietly
<1>2. CASE Secure
  <2>1. Quietly /\ KeepsEncryption
    BY <1>2, RequestLink DEF Secure, Quietly, KeepsEncryption, Typed, readyVars
  <2>2. task.pc = "secure" /\ task.step = 0 /\ task.index = 0
    BY <1>2 DEF Secure, SetupInv, Position, Pairing, PastSecure
  <2>3. ASSUME GoTo("mtu"), SecureNotNeeded \/ link.encrypted
        PROVE  SetupInv' /\ Typed'
    <3>1. /\ task' \in Tasks /\ UNCHANGED dropping
          /\ task'.pc = "mtu" /\ task'.index = task.index /\ task'.step = 0
      BY <2>2, <2>3, GoToTask DEF Typed
    <3>2. Position' /\ PairedLink'
      BY <3>1 DEF Position, PairedLink, Commanding, Pairing, Ending, PastSecure
    <3>3. ~(task'.index > PairIndex)
      BY <2>2, <3>1, BleSetupAssumption
    <3>4. KeyFits'
      BY <2>1, <2>3, <3>1, <3>3
         DEF KeyFits, SecureNotNeeded, SetupInv, OwnKey, Quietly,
             KeepsEncryption, Connected, storeVars
    <3> QED
      BY <2>1, <3>1, <3>2, <3>4, MoveInv
  <2>4. ASSUME GoTo("secureWait") PROVE SetupInv' /\ Typed'
    <3>1. /\ task' \in Tasks /\ UNCHANGED dropping
          /\ task'.pc = "secureWait" /\ task'.index = task.index
          /\ task'.step = 0
      BY <2>2, <2>4, GoToTask DEF Typed
    <3>2. Position' /\ PairedLink' /\ KeyFits'
      BY <2>2, <3>1 DEF Position, PairedLink, KeyFits, Commanding, Pairing,
                       Ending, PastSecure
    <3> QED
      BY <2>1, <3>1, <3>2, MoveInv
  <2> QED
    BY <1>2, <2>1, <2>3, <2>4, GiveUpInv DEF Secure
<1>3. CASE SecureWait
  <2>1. Quietly /\ KeepsEncryption
    BY <1>3 DEF SecureWait, Quietly, KeepsEncryption, Typed, readyVars, linkVars
  <2>2. task.pc = "secureWait" /\ task.step = 0 /\ task.index = 0
    BY <1>3 DEF SecureWait, SetupInv, Position, Pairing, PastSecure
  <2>3. ASSUME GoTo("mtu"), link.encrypted PROVE SetupInv' /\ Typed'
    <3>1. /\ task' \in Tasks /\ UNCHANGED dropping
          /\ task'.pc = "mtu" /\ task'.index = task.index /\ task'.step = 0
      BY <2>2, <2>3, GoToTask DEF Typed
    <3>2. Position' /\ PairedLink'
      BY <3>1 DEF Position, PairedLink, Commanding, Pairing, Ending, PastSecure
    <3>3. ~(task'.index > PairIndex)
      BY <2>2, <3>1, BleSetupAssumption
    <3>4. KeyFits'
      BY <2>1, <2>3, <3>1, <3>3
         DEF KeyFits, SetupInv, OwnKey, Quietly, KeepsEncryption, Connected,
             storeVars
    <3> QED
      BY <2>1, <3>1, <3>2, <3>4, MoveInv
  <2> QED
    BY <1>3, <2>1, <2>3, GiveUpInv DEF SecureWait
<1>4. CASE AckSubWait
  <2>1. Quietly /\ KeepsEncryption
    BY <1>4 DEF AckSubWait, Quietly, KeepsEncryption, Typed, readyVars, linkVars
  <2> QED
    BY <1>4, <2>1, GiveUpInv, StepOnInv DEF AckSubWait, Pairing, PastSecure
<1> QED
  BY <1>1, <1>2, <1>3, <1>4

-----------------------------------------------------------------------------
(* The initialization commands and the pairing exchange.                    *)

(* On to the next entry: past the pairing entry only on a link that is not  *)
(* to be paired, or with its own key.                                       *)
LEMMA AdvanceInv ==
  ASSUME SetupInv, Typed, Quietly, KeepsEncryption, Advance,
         PastSecure, task.index < NumInit,
         \/ task.index # PairIndex
         \/ Connected => ~pairingRequired
  PROVE  SetupInv' /\ Typed'
<1>1. /\ task' \in Tasks /\ UNCHANGED dropping /\ task'.pc = "init"
      /\ task'.step = 0 /\ task'.index = task.index + 1
  BY AdvanceTask DEF Typed
<1>2. Position' /\ PairedLink'
  BY <1>1 DEF Position, PairedLink, Commanding, Pairing, Ending, PastSecure
<1>3. task.index \in Nat /\ PairIndex \in Nat
  BY BleSetupAssumption DEF Typed, Tasks
<1>4. Connected /\ pairingRequired /\ task'.index > PairIndex
        => task.index > PairIndex
  BY <1>1, <1>3
<1>5. KeyFits'
  BY <1>1, <1>4 DEF KeyFits, SetupInv, Quietly, KeepsEncryption, Connected,
                    PastSecure, storeVars
<1> QED
  BY <1>1, <1>2, <1>5, MoveInv

LEMMA CommandSteps ==
  ASSUME SetupInv, Typed,
         \/ InitWrite \/ InitNext \/ InitWait \/ WriteWait \/ PairWrite
         \/ PairWait
  PROVE  SetupInv' /\ Typed'
<1> USE DEF Places, Running, Loops, TakeOnce
<1>1. ASSUME NEW cmd \in 0..4, NEW wait \in {"initWait", "pairWait"},
             WriteCommand(cmd, wait),
             \/ /\ wait = "initWait" /\ task.pc = "init" /\ cmd = 0
                /\ task.index < NumInit /\ task.index # PairIndex
             \/ wait = "pairWait" /\ task.pc = "pair"
      PROVE  SetupInv' /\ Typed'
  <2>1. Quietly /\ KeepsEncryption
    BY <1>1, WriteCommandEffect DEF Quietly, KeepsEncryption, Typed, readyVars
  <2>2. CASE task' = Idle /\ dropping' = Connected
    <3>1. GiveUp
      BY <1>1, <2>2, WriteCommandEffect DEF GiveUp, Forgotten, Typed
    <3> QED
      BY <2>1, <3>1, GiveUpInv
  <2>3. CASE /\ task' \in Tasks /\ task'.pc \in {wait, "writeWait"}
             /\ task'.index = task.index /\ task'.step = task.step
             /\ UNCHANGED dropping
    <3>1. Position' /\ PairedLink'
      BY <1>1, <2>1, <2>3
         DEF Position, PairedLink, Commanding, Pairing, Ending, PastSecure,
             SetupInv, Quietly, KeepsEncryption, Connected, PairSteps
    <3>2. KeyFits'
      BY <1>1, <2>1, <2>3
         DEF KeyFits, SetupInv, Quietly, KeepsEncryption, Connected,
             PastSecure, storeVars
    <3> QED
      BY <1>1, <2>1, <2>3, <3>1, <3>2, MoveInv
  <2> QED
    BY <1>1, <2>2, <2>3, WriteCommandEffect DEF Typed
<1>2. CASE InitWrite
  BY <1>1, <1>2 DEF InitWrite
<1>3. CASE PairWrite
  <2>1. task.step \in 0..4
    BY DEF Typed, Tasks, PairSteps
  <2> QED
    BY <1>1, <1>3, <2>1 DEF PairWrite
<1>4. CASE InitNext
  <2>1. Quietly /\ KeepsEncryption
    BY <1>4 DEF InitNext, Quietly, KeepsEncryption, Typed, readyVars, linkVars
  <2>2. task.pc = "init" /\ PastSecure /\ ~Pairing /\ task.step = 0
    BY <1>4 DEF InitNext, PastSecure, Pairing, SetupInv, Position
  <2>3. CASE task.index = NumInit /\ (GoTo("fd2Sub") \/ GiveUp)
    BY <2>1, <2>2, <2>3, GiveUpInv, StepOnInv
  <2>4. CASE /\ task.index < NumInit /\ task.index = PairIndex /\ pairingRequired
             /\ task' = [task EXCEPT !.pc = "pair", !.step = 1]
             /\ UNCHANGED dropping
    <3>0. "pair" \in Places /\ 1 \in PairSteps
      BY DEF PairSteps
    <3>1. /\ task' \in Tasks /\ task'.pc = "pair" /\ task'.step = 1
          /\ task'.index = task.index
      <4>1. \A place \in Places, step \in PairSteps :
              [task EXCEPT !.pc = place, !.step = step] \in Tasks
        BY DEF Typed, Tasks
      <4>2. task' \in Tasks
        BY <2>4, <3>0, <4>1, Zenon
      <4> QED
        BY <2>4, <4>2 DEF Typed, Tasks
    <3>2. Position' /\ PairedLink'
      BY <2>1, <2>4, <3>1
         DEF Position, PairedLink, Commanding, Pairing, Ending, PastSecure,
             PairSteps, Quietly
    <3>3. KeyFits'
      BY <2>1, <2>2, <3>1
         DEF KeyFits, SetupInv, Quietly, KeepsEncryption, Connected,
             PastSecure, storeVars
    <3> QED
      BY <2>1, <2>4, <3>1, <3>2, <3>3, MoveInv
  <2>5. CASE /\ task.index < NumInit /\ ~pairingRequired /\ Advance
    BY <2>1, <2>2, <2>5, AdvanceInv
  <2> QED
    BY <1>4, <2>3, <2>4, <2>5 DEF InitNext
<1>5. CASE InitWait
  <2>1. Quietly /\ KeepsEncryption
    BY <1>5 DEF InitWait, Quietly, KeepsEncryption, Typed, readyVars, linkVars
  <2>2. PastSecure /\ task.index < NumInit /\ task.index # PairIndex
    BY <1>5 DEF InitWait, PastSecure, SetupInv, Position, Commanding
  <2> QED
    BY <1>5, <2>1, <2>2, GiveUpInv, AdvanceInv DEF InitWait
<1>6. CASE WriteWait
  <2>1. Quietly /\ KeepsEncryption
    BY <1>6 DEF WriteWait, Quietly, KeepsEncryption, Typed, readyVars, linkVars
  <2>2. CASE /\ task' = [task EXCEPT !.pc = IF task.step = 0 THEN "initWait"
                                                           ELSE "pairWait"]
             /\ UNCHANGED dropping
    <3>1. /\ task' \in Tasks /\ task'.step = task.step /\ task'.index = task.index
          /\ task'.pc = IF task.step = 0 THEN "initWait" ELSE "pairWait"
      BY <2>2 DEF Typed, Tasks
    <3>2. task.pc = "writeWait"
      BY <1>6 DEF WriteWait
    <3>3. Position' /\ PairedLink'
      BY <2>1, <3>1, <3>2
         DEF Position, PairedLink, Commanding, Pairing, Ending, PastSecure,
             SetupInv, Quietly, KeepsEncryption, Connected
    <3>4. KeyFits'
      BY <2>1, <3>1, <3>2
         DEF KeyFits, SetupInv, Quietly, KeepsEncryption, Connected,
             PastSecure, storeVars
    <3> QED
      BY <2>1, <2>2, <3>1, <3>3, <3>4, MoveInv
  <2> QED
    BY <1>6, <2>1, <2>2, GiveUpInv DEF WriteWait
<1>7. CASE PairWait
  <2>1. Quietly /\ KeepsEncryption
    BY <1>7 DEF PairWait, Quietly, KeepsEncryption, Typed, readyVars, linkVars
  <2>2. task.pc = "pairWait" /\ Pairing /\ PastSecure
    BY <1>7 DEF PairWait, Pairing, PastSecure
  <2>3. CASE /\ task.step < 4 /\ UNCHANGED dropping
             /\ task' = [task EXCEPT !.pc = "pair", !.step = @ + 1]
    <3>1. task.step + 1 \in PairSteps
      BY <2>2, <2>3 DEF SetupInv, Position, PairSteps
    <3>2. /\ task' \in Tasks /\ task'.pc = "pair" /\ task'.step \in PairSteps
          /\ task'.index = task.index
      BY <2>3, <3>1 DEF Typed, Tasks
    <3>3. Position' /\ PairedLink'
      BY <2>1, <2>2, <3>2
         DEF Position, PairedLink, Commanding, Pairing, Ending, PastSecure,
             SetupInv, Quietly, KeepsEncryption, Connected
    <3>4. KeyFits'
      BY <2>1, <2>2, <3>2
         DEF KeyFits, SetupInv, Quietly, KeepsEncryption, Connected,
             PastSecure, storeVars
    <3> QED
      BY <2>1, <2>3, <3>2, <3>3, <3>4, MoveInv
  <2> QED
    BY <1>7, <2>1, <2>2, <2>3, GiveUpInv, StepOnInv DEF PairWait
<1> QED
  BY <1>2, <1>3, <1>4, <1>5, <1>6, <1>7

-----------------------------------------------------------------------------
(* The steps that write the records, and the last.                          *)

LEMMA StoringSteps ==
  ASSUME SetupInv, Typed, PairIndex < NumInit, Persist \/ FirstFd2 \/ Publish
  PROVE  SetupInv' /\ Typed'
<1>1. CASE Persist
  <2>1. /\ task.pc = "persist" /\ Pairing /\ PastSecure
        /\ task.index = PairIndex /\ task.index < NumInit
    BY <1>1 DEF Persist, Pairing, PastSecure, SetupInv, Position
  <2>2. UNCHANGED <<connection, pairingRequired, link, ready, savedPeer, crossed,
                    forgetPc>>
    BY <1>1 DEF Persist, linkVars, readyVars
  <2>3. CASE GiveUp /\ UNCHANGED <<flashLtk, savedLtk>>
    <3>1. Quietly /\ KeepsEncryption
      BY <1>1, <2>2, <2>3
         DEF Persist, Quietly, KeepsEncryption, Typed, storeVars
    <3> QED
      BY <2>3, <3>1, GiveUpInv
  <2>4. CASE Connected /\ savedLtk' = connection /\ (GiveUp \/ Advance)
    <3>1. /\ link.begun => pairingRequired
          /\ savedPeer \in {NoPeer, connection}
      BY <2>1, <2>4 DEF SetupInv, PairedLink, SavedIsConnected
    <3>2. \/ task' = Idle /\ dropping' = Connected
          \/ /\ task' \in Tasks /\ UNCHANGED dropping /\ task'.pc = "init"
             /\ task'.step = 0 /\ task'.index = task.index + 1
      BY <2>1, <2>4, GiveUpTask, AdvanceTask DEF Typed
    <3>3. Position' /\ PairedLink'
      BY <2>1, <3>2, IdleIsTask
         DEF Position, PairedLink, Commanding, Pairing, Ending, PastSecure
    <3>4. KeyFits' /\ SavedNow'
      BY <2>2, <2>4, <3>1, <3>2, IdleIsTask
         DEF KeyFits, SavedNow, PastSecure, Connected
    <3>5. SavedIsConnected' /\ OwnKey' /\ KeyOwner' /\ ReadyIsEncrypted'
      BY <2>2, <2>4, <3>1
         DEF SetupInv, SavedIsConnected, OwnKey, KeyOwner, ReadyIsEncrypted,
             ReadyEncrypted,
             Connected
    <3>6. ReadyIsSaved'
      BY <2>2, <3>2 DEF SetupInv, ReadyIsSaved, Connected
    <3> QED
      BY <2>2, <3>2, <3>3, <3>4, <3>5, <3>6, IdleIsTask DEF SetupInv, Typed
  <2> QED
    BY <1>1, <2>3, <2>4 DEF Persist
<1>2. CASE FirstFd2
  <2>1. /\ task.pc = "firstFd2" /\ PastSecure /\ ~Pairing
        /\ task.index = NumInit /\ task.step = 0
    BY <1>2 DEF FirstFd2, Pairing, PastSecure, SetupInv, Position, Ending
  <2>2. UNCHANGED <<connection, pairingRequired, link, ready, savedLtk, forgetPc>>
    BY <1>2 DEF FirstFd2, linkVars
  <2>3. CASE ~Connected /\ GiveUp /\ UNCHANGED <<savedPeer, crossed>>
    <3>1. Quietly /\ KeepsEncryption
      BY <1>2, <2>2, <2>3
         DEF FirstFd2, Quietly, KeepsEncryption, Typed, storeVars
    <3> QED
      BY <2>3, <3>1, GiveUpInv
  <2>4. CASE /\ Connected /\ UNCHANGED dropping
             /\ task' = [task EXCEPT !.pc = "store", !.peer = connection]
             /\ savedPeer' = connection /\ crossed' = ~link.begun
    <3>1. ~crossed' => savedLtk \in {NoPeer, connection}
      <4>1. task.index > PairIndex
        BY <2>1, BleSetupAssumption
      <4> QED
        BY <2>1, <2>4, <4>1 DEF SetupInv, KeyFits
    <3>2. /\ task'.pc = "store" /\ task'.index = task.index
          /\ task'.step = task.step
      BY <2>4 DEF Typed, Tasks
    <3>3. Position' /\ PairedLink'
      BY <2>1, <3>2
         DEF Position, PairedLink, Commanding, Pairing, Ending, PastSecure
    <3>4. KeyFits' /\ SavedNow'
      BY <2>1, <2>2, <2>4, <3>2
         DEF SetupInv, KeyFits, SavedNow, PastSecure, Connected
    <3>5. SavedIsConnected' /\ OwnKey' /\ KeyOwner' /\ ReadyIsEncrypted'
          /\ ReadyIsSaved'
      BY <2>2, <2>4, <3>1
         DEF SetupInv, SavedIsConnected, OwnKey, KeyOwner, ReadyIsEncrypted,
             ReadyEncrypted,
             ReadyIsSaved, Connected
    <3>6. Typed'
      <4>1. connection \in Peers => task' \in Tasks
        BY <2>4 DEF Typed, Tasks, Running
      <4> QED
        BY <2>2, <2>4, <4>1 DEF Typed, Connected
    <3> QED
      BY <3>3, <3>4, <3>5, <3>6 DEF SetupInv
  <2> QED
    BY <1>2, <2>3, <2>4 DEF FirstFd2
<1>3. CASE Publish
  <2>1. /\ task.pc = "publish" /\ PastSecure /\ task' = Idle
        /\ UNCHANGED <<connection, pairingRequired, link, dropping, savedPeer,
                       savedLtk, crossed, forgetPc>>
    BY <1>3 DEF Publish, PastSecure, linkVars, storeVars
  <2>2. Position' /\ PairedLink' /\ KeyFits' /\ SavedNow'
    BY <2>1, IdleIsTask
       DEF Position, PairedLink, KeyFits, SavedNow, Commanding, Pairing, Ending,
           PastSecure
  <2>3. SavedIsConnected' /\ OwnKey' /\ KeyOwner'
    BY <2>1 DEF SetupInv, SavedIsConnected, OwnKey, KeyOwner, Connected
  <2>4. ReadyIsEncrypted' /\ ReadyIsSaved'
    BY <2>1 DEF SetupInv, ReadyIsEncrypted, ReadyEncrypted, ReadyIsSaved,
                KeyFits, SavedNow,
                Connected
  <2> QED
    BY <2>1, <2>2, <2>3, <2>4, IdleIsTask DEF SetupInv, Typed
<1> QED
  BY <1>1, <1>2, <1>3

-----------------------------------------------------------------------------
(* The callbacks, the forgets and the power cut.                            *)

(* A callback that leaves task, connection, encryption and records alone.   *)
LEMMA CallbackInv ==
  ASSUME SetupInv, Typed, Quietly, KeepsEncryption, UNCHANGED dropping,
         task' \in Tasks, task'.pc = task.pc, task'.index = task.index,
         task'.step = task.step
  PROVE  SetupInv' /\ Typed'
<1>1. Position' /\ PairedLink'
  BY DEF Position, PairedLink, Commanding, Pairing, Ending, PastSecure,
         SetupInv, Quietly, KeepsEncryption, Connected
<1>2. KeyFits' /\ SavedNow'
  BY DEF KeyFits, SavedNow, SetupInv, Quietly, KeepsEncryption, Connected,
         PastSecure, storeVars
<1>3. SavedIsConnected' /\ OwnKey' /\ KeyOwner' /\ ReadyIsEncrypted' /\ ReadyIsSaved'
  BY DEF SetupInv, SavedIsConnected, OwnKey, KeyOwner, ReadyIsEncrypted, ReadyEncrypted,
         ReadyIsSaved, Quietly, KeepsEncryption, Connected, storeVars
<1> QED
  BY <1>1, <1>2, <1>3 DEF SetupInv, Typed, Quietly, KeepsEncryption

(* An answer can be the next step accepted, and it is heard.                *)
LEMMA AckedLink ==
  ASSUME link \in Links, NEW cmd \in link.received, AckNotify(cmd)
  PROVE  \E n \in 0..4, said \in {"none", "other", "this"},
            r \in {IF cmd = Earlier THEN 0 ELSE cmd, Refused} :
           /\ link' = [link EXCEPT !.answered = n, !.heard = said]
           /\ response' = IF task.pc \in {"writeWait", "initWait", "pairWait"}
                             THEN r ELSE response
           /\ r \in 0..5 /\ n >= link.answered
           /\ r <= 4 /\ link.answered >= r - 1 => n >= r
           /\ 0 \in link.received => said # "none"
           /\ link.heard # "none" => said # "none"
<1>0. /\ link.answered \in 0..4 /\ link.heard \in {"none", "other", "this"}
      /\ cmd \in (0..4) \cup {Earlier}
  BY DEF Links
<1>1. PICK r \in {IF cmd = Earlier THEN 0 ELSE cmd, Refused} :
        /\ link' = [link EXCEPT
               !.answered = IF r = @ + 1 /\ r <= 4 THEN r ELSE @,
               !.heard = IF cmd = 0 \/ @ = "this" THEN "this"
                         ELSE IF 0 \in link.received THEN "other" ELSE @]
        /\ response' = IF task.pc \in {"writeWait", "initWait", "pairWait"}
                          THEN r ELSE response
  BY DEF AckNotify
<1> DEFINE n == IF r = link.answered + 1 /\ r <= 4 THEN r ELSE link.answered
           said == IF cmd = 0 \/ link.heard = "this" THEN "this"
                   ELSE IF 0 \in link.received THEN "other" ELSE link.heard
<1>2. link' = [link EXCEPT !.answered = n, !.heard = said]
  BY <1>1
<1>3. r \in 0..5
  BY <1>0 DEF Earlier, Refused
<1>4. /\ n \in 0..4 /\ n >= link.answered
      /\ r <= 4 /\ link.answered >= r - 1 => n >= r
  BY <1>0, <1>3
<1>5. /\ said \in {"none", "other", "this"}
      /\ 0 \in link.received => said # "none"
      /\ link.heard # "none" => said # "none"
  BY <1>0
<1> HIDE DEF n, said
<1> QED
  BY <1>1, <1>2, <1>3, <1>4, <1>5

LEMMA QuietCallbacks ==
  ASSUME SetupInv, Typed,
         \/ WakeAndWait \/ MtuExchangeCb \/ PeerMtu \/ Found \/ DiscoveryEnd
         \/ AckCccCb \/ CommandWriteCb \/ Fd2Notify
         \/ \E cmd \in link.received : AckNotify(cmd)
  PROVE  SetupInv' /\ Typed'
<1>1. CASE WakeAndWait
  <2>1. Quietly /\ KeepsEncryption /\ UNCHANGED <<dropping, task>>
    BY <1>1 DEF WakeAndWait, Quietly, KeepsEncryption, Typed, readyVars, linkVars
  <2> QED
    BY <2>1, CallbackInv DEF Typed
<1>2. CASE Found
  <2>1. Quietly /\ KeepsEncryption /\ UNCHANGED dropping
    BY <1>2 DEF Found, Quietly, KeepsEncryption, Typed, readyVars, linkVars
  <2>2. /\ task' \in Tasks /\ task'.pc = task.pc /\ task'.index = task.index
        /\ task'.step = task.step
    BY <1>2 DEF Found, Typed, Tasks
  <2> QED
    BY <2>1, <2>2, CallbackInv
<1>3. CASE \/ MtuExchangeCb \/ PeerMtu \/ DiscoveryEnd \/ AckCccCb
           \/ CommandWriteCb \/ Fd2Notify
           \/ \E cmd \in link.received : AckNotify(cmd)
  <2>1. Quietly /\ UNCHANGED <<dropping, task>>
    BY <1>3 DEF MtuExchangeCb, PeerMtu, DiscoveryEnd, AckCccCb, CommandWriteCb,
                Fd2Notify, AckNotify, Complete, Quietly, readyVars
  <2>2. CASE MtuExchangeCb \/ DiscoveryEnd \/ AckCccCb \/ CommandWriteCb
    <3>1. ASSUME MtuExchangeCb PROVE KeepsEncryption
      <4>1. PICK m \in BOOLEAN :
              link' = [link EXCEPT !.outstanding = @ \ {"mtu"}, !.mtu = m]
        <5>1. link.mtu \in BOOLEAN
          BY DEF Typed, Links
        <5> QED
          BY <3>1, <5>1, Zenon DEF MtuExchangeCb
      <4>2. /\ link' \in Links /\ link'.outstanding = link.outstanding \ {"mtu"}
            /\ link'.encrypted = link.encrypted /\ link'.begun = link.begun
        BY <4>1 DEF Typed, Links
      <4> QED
        BY <4>2 DEF KeepsEncryption
    <3>2. ASSUME DiscoveryEnd \/ CommandWriteCb PROVE KeepsEncryption
      <4>1. PICK r \in Requests : link' = [link EXCEPT !.outstanding = @ \ {r}]
        BY <3>2 DEF DiscoveryEnd, CommandWriteCb, Requests
      <4>2. /\ link' \in Links /\ link'.outstanding = link.outstanding \ {r}
            /\ link'.encrypted = link.encrypted /\ link'.begun = link.begun
        BY <4>1 DEF Typed, Links
      <4> QED
        BY <4>2 DEF KeepsEncryption
    <3>3. ASSUME AckCccCb PROVE KeepsEncryption
      <4>1. /\ link' \in Links /\ link'.outstanding = link.outstanding \ {"ccc"}
            /\ link'.encrypted = link.encrypted /\ link'.begun = link.begun
        BY <3>3 DEF AckCccCb, Typed, Links
      <4> QED
        BY <4>1 DEF KeepsEncryption
    <3> QED
      BY <2>1, <2>2, <3>1, <3>2, <3>3, CallbackInv DEF Typed
  <2>3. CASE PeerMtu \/ Fd2Notify
    <3>1. PICK yes \in BOOLEAN : \/ link' = [link EXCEPT !.mtu = yes]
                                \/ link' = [link EXCEPT !.fd2 = yes]
      BY <2>3, Zenon DEF PeerMtu, Fd2Notify
    <3>2. KeepsEncryption
      BY <3>1 DEF KeepsEncryption, Typed, Links
    <3> QED
      BY <2>1, <3>2, CallbackInv DEF Typed
  <2>4. ASSUME NEW cmd \in link.received, AckNotify(cmd)
        PROVE  KeepsEncryption
    <3>1. PICK n \in 0..4, said \in {"none", "other", "this"} :
            link' = [link EXCEPT !.answered = n, !.heard = said]
      BY <2>4, AckedLink DEF Typed
    <3> QED
      BY <3>1 DEF KeepsEncryption, Typed, Links
  <2> QED
    BY <1>3, <2>1, <2>2, <2>3, <2>4, CallbackInv DEF Typed
<1> QED
  BY <1>1, <1>2, <1>3

LEMMA LinkCallbacks ==
  ASSUME SetupInv, Typed,
         ConnectedCb \/ DisconnectedCb \/ SecurityChangedCb
  PROVE  SetupInv' /\ Typed'
<1>1. CASE ConnectedCb
  <2>1. /\ task.pc \notin {"store", "publish"}
        /\ UNCHANGED <<task, savedPeer, savedLtk, crossed>>
        /\ link' = FreshLink /\ ~ready'
        /\ connection' \in Peers /\ savedPeer \in {NoPeer, connection'}
    BY <1>1 DEF ConnectedCb, TaskAsleep, Loops, TakeOnce, storeVars
  <2>2. Position' /\ PairedLink' /\ KeyFits' /\ SavedNow'
    BY <2>1, FreshIsLink DEF SetupInv, Position, PairedLink, KeyFits, SavedNow,
                             Commanding,
                Pairing, Ending, PastSecure
  <2>3. SavedIsConnected' /\ OwnKey' /\ KeyOwner'
    BY <2>1, FreshIsLink DEF SetupInv, SavedIsConnected, OwnKey, KeyOwner
  <2>4. ReadyIsEncrypted' /\ ReadyIsSaved'
    BY <2>1 DEF ReadyIsEncrypted, ReadyEncrypted, ReadyIsSaved
  <2> QED
    BY <2>1, <2>2, <2>3, <2>4, FreshIsLink DEF SetupInv, Typed
<1>2. CASE DisconnectedCb
  <2>1. /\ connection' = NoPeer /\ UNCHANGED <<task, savedPeer, savedLtk, crossed>>
        /\ link' = FreshLink
    BY <1>2 DEF DisconnectedCb, storeVars
  <2>2. Position' /\ PairedLink' /\ KeyFits' /\ SavedNow'
    BY <2>1 DEF SetupInv, Position, PairedLink, KeyFits, SavedNow, Commanding,
                Pairing, Ending, PastSecure, Connected
  <2>3. SavedIsConnected' /\ OwnKey' /\ KeyOwner' /\ ReadyIsEncrypted'
        /\ ReadyIsSaved'
    BY <2>1, FreshIsLink
       DEF SetupInv, SavedIsConnected, OwnKey, KeyOwner, ReadyIsEncrypted,
           ReadyEncrypted,
           ReadyIsSaved, Connected
  <2> QED
    BY <2>1, <2>2, <2>3, FreshIsLink DEF SetupInv, Typed
<1>3. CASE SecurityChangedCb
  <2>1. /\ "sec" \in link.outstanding /\ ~link.encrypted
        /\ UNCHANGED <<connection, pairingRequired, dropping, task, ready,
                       savedPeer, savedLtk, crossed, forgetPc>>
    BY <1>3 DEF SecurityChangedCb, Complete, readyVars, storeVars, SetupInv, OwnKey
  <2>2. PICK ok \in BOOLEAN :
          /\ ok => savedLtk = connection
          /\ link' = [link EXCEPT !.outstanding = @ \ {"sec"}, !.encrypted = ok]
    BY <1>3 DEF SecurityChangedCb
  <2>3. /\ link' \in Links /\ link'.encrypted = ok /\ link'.begun = link.begun
        /\ "sec" \notin link'.outstanding
    BY <2>2 DEF Typed, Links
  <2>4. Position' /\ PairedLink' /\ SavedNow' /\ SavedIsConnected' /\ KeyOwner'
        /\ ReadyIsSaved'
    BY <2>1, <2>3 DEF SetupInv, Position, PairedLink, SavedNow, Commanding, Pairing,
                Ending, PastSecure, Connected, SavedIsConnected, KeyOwner,
                ReadyIsSaved
  <2>5. OwnKey' /\ KeyFits' /\ ReadyIsEncrypted'
    BY <2>1, <2>2, <2>3
       DEF SetupInv, OwnKey, KeyFits, ReadyIsEncrypted, ReadyEncrypted,
           Connected, PastSecure
  <2> QED
    BY <2>1, <2>3, <2>4, <2>5 DEF SetupInv, Typed
<1> QED
  BY <1>1, <1>2, <1>3

LEMMA OutsideSteps ==
  ASSUME SetupInv, Typed, Forget \/ Restart
  PROVE  SetupInv' /\ Typed'
<1>1. CASE ForgetStore
  <2>1. /\ UNCHANGED <<connection, pairingRequired, link, dropping, task, ready>>
        /\ savedPeer' \in {NoPeer, savedPeer} /\ savedLtk' \in {NoPeer, savedLtk}
        /\ forgetPc' # "no"
    BY <1>1 DEF ForgetStore, linkVars, readyVars
  <2>2. Position' /\ PairedLink' /\ KeyFits' /\ SavedNow'
    BY <2>1 DEF SetupInv, Position, PairedLink, KeyFits, SavedNow, Commanding,
                Pairing, Ending, PastSecure, Connected
  <2>3. SavedIsConnected' /\ OwnKey' /\ ReadyIsEncrypted' /\ ReadyIsSaved'
    BY <2>1 DEF SetupInv, SavedIsConnected, OwnKey, ReadyIsEncrypted, ReadyEncrypted,
                ReadyIsSaved, Connected
  <2>4. KeyOwner'
    BY <1>1 DEF ForgetStore, SetupInv, KeyOwner
  <2> QED
    BY <2>1, <2>2, <2>3, <2>4 DEF SetupInv, Typed
<1>2. CASE ForgetDrop
  <2>1. /\ UNCHANGED <<connection, pairingRequired, link, task, ready, savedPeer,
                       savedLtk, crossed>>
        /\ dropping' = Connected
    BY <1>2 DEF ForgetDrop, linkVars, readyVars, storeVars
  <2>2. Position' /\ PairedLink' /\ KeyFits' /\ SavedIsConnected' /\ OwnKey'
        /\ KeyOwner' /\ ReadyIsEncrypted'
    BY <2>1 DEF SetupInv, Position, PairedLink, KeyFits, SavedIsConnected,
                OwnKey, KeyOwner, ReadyIsEncrypted, ReadyEncrypted, Commanding,
                Pairing, Ending,
                PastSecure, Connected
  <2>3. SavedNow' /\ ReadyIsSaved'
    BY <2>1 DEF SavedNow, ReadyIsSaved, Connected
  <2> QED
    BY <2>1, <2>2, <2>3 DEF SetupInv, Typed
<1>3. CASE Restart
  <2>1. /\ connection' = NoPeer /\ link' = FreshLink /\ task' = Idle
        /\ savedPeer' = flashPeer /\ savedLtk' \in {flashPeer, NoPeer}
    BY <1>3 DEF Restart, RestoredLtk
  <2>2. Position' /\ PairedLink' /\ KeyFits' /\ SavedNow'
    BY <2>1, IdleIsTask
       DEF Position, PairedLink, KeyFits, SavedNow, Commanding, Pairing, Ending,
           PastSecure
  <2>3. SavedIsConnected' /\ OwnKey' /\ KeyOwner' /\ ReadyIsEncrypted'
        /\ ReadyIsSaved'
    BY <2>1, FreshIsLink
       DEF SavedIsConnected, OwnKey, KeyOwner, ReadyIsEncrypted, ReadyEncrypted,
           ReadyIsSaved,
           Connected
  <2> QED
    BY <2>1, <2>2, <2>3, IdleIsTask, FreshIsLink DEF SetupInv, Typed
<1> QED
  BY <1>1, <1>2, <1>3 DEF Forget

-----------------------------------------------------------------------------
LEMMA SetupInitInv == Init => SetupInv /\ Typed
<1> SUFFICES ASSUME Init PROVE SetupInv /\ Typed
  OBVIOUS
<1>1. Position /\ PairedLink /\ KeyFits /\ SavedNow
  BY IdleIsTask
     DEF Init, Position, PairedLink, KeyFits, SavedNow, Commanding, Pairing,
         Ending, PastSecure
<1>2. SavedIsConnected /\ OwnKey /\ KeyOwner /\ ReadyIsEncrypted /\ ReadyIsSaved
  BY FreshIsLink
     DEF Init, SavedIsConnected, OwnKey, KeyOwner, ReadyIsEncrypted, ReadyEncrypted,
         ReadyIsSaved, Connected
<1> QED
  BY <1>1, <1>2, IdleIsTask, FreshIsLink DEF Init, SetupInv, Typed

LEMMA SetupNextInv ==
  ASSUME PairIndex < NumInit, SetupInv, Typed, [Next]_vars
  PROVE  SetupInv' /\ Typed'
<1>1. CASE SetupStep
  BY <1>1, QuietSteps, BeginSteps, CommandSteps, StoringSteps DEF SetupStep
<1>2. CASE WakeAndWait \/ Callback
  BY <1>2, QuietCallbacks, LinkCallbacks DEF Callback
<1>3. CASE Forget \/ Restart
  BY <1>3, OutsideSteps
<1>4. CASE UNCHANGED vars
  <2>1. Quietly /\ KeepsEncryption /\ UNCHANGED <<dropping, task>>
    BY <1>4 DEF vars, Quietly, KeepsEncryption, Typed, storeVars
  <2> QED
    BY <2>1, CallbackInv DEF Typed
<1> QED
  BY <1>1, <1>2, <1>3, <1>4 DEF Next

LEMMA SetupAlways ==
  ASSUME PairIndex < NumInit
  PROVE  Spec => []SetupInv
<1>1. SetupInv /\ Typed /\ [Next]_vars => (SetupInv /\ Typed)'
  BY SetupNextInv
<1> QED
  BY SetupInitInv, <1>1, PTL DEF Spec

(* While a controller is saved the key in RAM is its own or none, for any   *)
(* number of controllers and initialization commands and whatever fails, is *)
(* forgotten, is cut off or comes back on the way; unless it was saved by a *)
(* set-up that had begun on another link (persist_pairing_ltk, setup_task,  *)
(* restore_pairing_ltk).                                                    *)
THEOREM KeyIsOwned ==
  ASSUME PairIndex < NumInit
  PROVE  Spec => []KeyOwner
<1>1. SetupInv => KeyOwner
  BY DEF SetupInv
<1> QED
  BY SetupAlways, <1>1, PTL

(* A link in use to a controller whose key is held was encrypted with it,   *)
(* if its set-up began on it: whatever earlier set-ups left behind and      *)
(* whenever the links came (establish_saved_encryption).                    *)
THEOREM InUseIsEncrypted ==
  ASSUME PairIndex < NumInit
  PROVE  Spec => []ReadyIsEncrypted
<1>1. SetupInv => ReadyIsEncrypted
  BY DEF SetupInv
<1> QED
  BY SetupAlways, <1>1, PTL

(* A link in use is one to the saved controller, or is going down, or the   *)
(* forget that cleared the controller is about to tell it to; also a link   *)
(* that the set-up of an earlier one made usable (setup_task,               *)
(* pro2_ble_forget_peer).                                                   *)
THEOREM InUseIsSaved ==
  ASSUME PairIndex < NumInit
  PROVE  Spec => []ReadyIsSaved
<1>1. SetupInv => ReadyIsSaved
  BY DEF SetupInv
<1> QED
  BY SetupAlways, <1>1, PTL
-----------------------------------------------------------------------------
(* The waits for the controller's answers.                                  *)

Answering == {"initWait", "writeWait", "pair", "pairWait", "persist"}

(* A command of the list is being sent while the task is in these places.   *)
Placed ==
    /\ task.pc \in Answering => task.index < NumInit
    /\ task.pc \in {"pair", "pairWait"} => task.step \in PairSteps
    /\ task.step = 0 \/ task.pc \in {"writeWait", "pair", "pairWait", "persist"}

(* The write that is waited for was made on this link.                      *)
Written == Connected /\ "write" \in link.outstanding \cup done

(* An answer that was counted came on this link, to a command it got, since *)
(* the last ordinary command was written.                                   *)
Heard == response # NoResponse => "ack" \in link.subs /\ link.heard # "none"

Acked ==
    /\ task.pc = "initWait" =>
         /\ \/ 0 \in link.received
            \/ "ack" \notin link.subs /\ "ccc" \notin link.outstanding
         /\ Connected => Heard
    /\ task.pc = "writeWait" /\ Written /\ task.step = 0 =>
         0 \in link.received /\ Heard

(* The controller accepted the steps of the exchange before the present     *)
(* one, and this one if the right response was counted.                     *)
Agreed ==
    /\ task.pc = "pair" /\ Connected => link.answered >= task.step - 1
    /\ task.pc \in {"pairWait", "writeWait"} /\ task.step \in link.received
         => link.answered >= task.step - 1
    /\ \/ task.pc = "pairWait" /\ Connected
       \/ task.pc = "writeWait" /\ Written
       => (response = task.step => link.answered >= task.step)
    /\ task.pc = "persist" /\ Connected => link.answered = 4

AnswerInv == TypeOK /\ Placed /\ Acked /\ Agreed

(* Where the task can go by itself.                                         *)
LEMMA Moved ==
  ASSUME TypeOK
  PROVE  /\ GiveUp => /\ task' \in Tasks /\ task'.pc = "idle" /\ task'.step = 0
                      /\ dropping' \in BOOLEAN /\ done' = {} /\ response' = NoResponse
         /\ \A next \in Places :
              GoTo(next) => /\ task' \in Tasks /\ task'.pc = next
                            /\ task'.index = task.index /\ task'.step = task.step
                            /\ dropping' \in BOOLEAN
                            /\ done' = {} /\ response' = NoResponse
         /\ Advance /\ task.index < NumInit =>
              /\ task' \in Tasks /\ task'.pc = "init" /\ task'.step = 0
              /\ dropping' \in BOOLEAN /\ done' = {} /\ response' = NoResponse
<1>1. Connected \in BOOLEAN
  BY DEF Connected
<1> QED
  BY <1>1, GiveUpTask, IdleIsTask, GoToTask, AdvanceTask DEF TypeOK

(* Every other variable keeps its value.                                    *)
LEMMA FrameTypes ==
  ASSUME TypeOK, link' \in Links, task' \in Tasks, notified' \in BOOLEAN,
         UNCHANGED <<connection, pairingRequired, dropping, done, response,
                     awaitingFd2, ready, savedPeer, savedLtk, flashPeer,
                     flashLtk, crossed, forgetPc>>
  PROVE  TypeOK'
<1>1. /\ connection' = connection /\ pairingRequired' = pairingRequired
      /\ dropping' = dropping /\ done' = done /\ response' = response
      /\ awaitingFd2' = awaitingFd2 /\ ready' = ready
  OBVIOUS
<1>2. /\ savedPeer' = savedPeer /\ savedLtk' = savedLtk
      /\ flashPeer' = flashPeer /\ flashLtk' = flashLtk
      /\ crossed' = crossed /\ forgetPc' = forgetPc
  OBVIOUS
<1> QED
  BY <1>1, <1>2, Zenon DEF TypeOK

(* The steps of setup_task outside those places.                            *)
OtherStep ==
    \/ Begin \/ Secure \/ SecureWait \/ Mtu \/ MtuWait
    \/ Discover \/ DiscoverWait \/ CccAck \/ CccAckWait \/ CccFd2 \/ CccFd2Wait
    \/ AckSub \/ AckSubWait \/ InitWait \/ Persist
    \/ Fd2Sub \/ Fd2Wait \/ FirstFd2 \/ Store \/ Publish

LEMMA OtherTypes ==
  ASSUME TypeOK, Placed, OtherStep
  PROVE  TypeOK' /\ task'.pc \notin Answering
<1> USE DEF Answering, Places, Loops, TakeOnce, Running, NoResponse
<1>1. CASE Begin
  <2>1. link' \in Links
    BY <1>1 DEF Begin, TypeOK, Links
  <2>2. task' = Idle \/ task' = [Idle EXCEPT !.pc = "secure"]
    BY <1>1 DEF Begin
  <2>3. task' \in Tasks /\ task'.pc \notin Answering
    BY <2>2, IdleIsTask
  <2>4. /\ notified' = FALSE
        /\ UNCHANGED <<connection, pairingRequired, dropping, waitVars, readyVars,
                       storeVars, forgetPc>>
    BY <1>1 DEF Begin
  <2> HIDE DEF Answering
  <2>5. TypeOK'
    BY <2>1, <2>3, <2>4, FrameTypes DEF waitVars, readyVars, storeVars
  <2> QED
    BY <2>3, <2>5
<1>2. CASE Secure
  <2>1. link' \in Links
    BY <1>2, RequestLink DEF Secure, TypeOK, Requests
  <2> QED
    BY <1>2, <2>1, Moved DEF Secure, TypeOK, readyVars, storeVars
<1>3. CASE SecureWait \/ MtuWait \/ AckSubWait
  <2>1. notified' \in BOOLEAN
    BY <1>3, Zenon DEF SecureWait, MtuWait, AckSubWait, TypeOK, Wakes
  <2>2. /\ GiveUp \/ GoTo("mtu") \/ GoTo("discover") \/ GoTo("init")
        /\ UNCHANGED <<linkVars, readyVars, storeVars, forgetPc>>
    BY <1>3 DEF SecureWait, MtuWait, AckSubWait
  <2> QED
    BY <2>1, <2>2, Moved DEF TypeOK, linkVars, readyVars, storeVars
<1>4. CASE Mtu
  <2>1. link' \in Links
    BY <1>4, RequestLink DEF Mtu, TypeOK, Requests
  <2> QED
    <3>1. notified' \in BOOLEAN
      BY <1>4, Zenon DEF Mtu, TypeOK, Drain
    <3>2. /\ GiveUp \/ GoTo("mtuWait") \/ GoTo("discover")
          /\ UNCHANGED <<connection, pairingRequired, readyVars, storeVars, forgetPc>>
      BY <1>4 DEF Mtu
    <3> QED
      BY <2>1, <3>1, <3>2, Moved DEF TypeOK, readyVars, storeVars
<1>5. ASSUME NEW from, NEW r \in {"discover", "descriptor"},
             NEW wait \in {"discoverWait", "cccAckWait", "cccFd2Wait"},
             StartRequest(from, r, wait)
      PROVE  TypeOK' /\ task'.pc \notin Answering
  <2>1. link' \in Links
    BY <1>5, RequestLink DEF StartRequest, TypeOK, Requests
  <2> QED
    BY <1>5, <2>1, Moved DEF StartRequest, TypeOK, readyVars, storeVars
<1>6. ASSUME NEW from, NEW handle, NEW next \in {"cccAck", "cccFd2", "ackSub"},
             TakeAndTest(from, handle, next)
      PROVE  TypeOK' /\ task'.pc \notin Answering
  <2>1. notified' \in BOOLEAN
    BY <1>6, Zenon DEF TakeAndTest
  <2> QED
    BY <1>6, <2>1, Moved DEF TakeAndTest, TypeOK, linkVars, readyVars, storeVars
<1>7. CASE AckSub
  <2>1. link' \in Links
    BY <1>7, RequestLink DEF AckSub, TypeOK, Requests
  <2> QED
    <3>1. notified' \in BOOLEAN
      BY <1>7, Zenon DEF AckSub, Drain
    <3> QED
      BY <1>7, <2>1, <3>1, Moved DEF AckSub, TypeOK, readyVars, storeVars
<1>8. CASE InitWait
  <2>1. task.index < NumInit
    BY <1>8 DEF InitWait, Placed
  <2> QED
    <3>1. notified' \in BOOLEAN
      BY <1>8, Zenon DEF InitWait, TypeOK, Wakes
    <3>2. /\ GiveUp \/ Advance
          /\ UNCHANGED <<linkVars, readyVars, storeVars, forgetPc>>
      BY <1>8 DEF InitWait
    <3> QED
      BY <2>1, <3>1, <3>2, Moved DEF TypeOK, linkVars, readyVars, storeVars
<1>9. CASE Persist
  <2>1. task.index < NumInit
    BY <1>9 DEF Persist, Placed
  <2> QED
    BY <1>9, <2>1, Moved DEF Persist, TypeOK, linkVars, readyVars, Connected
<1>10. CASE Fd2Sub
  <2>1. link' \in Links
    BY <1>10 DEF Fd2Sub, TypeOK, Links
  <2> QED
    <3>1. notified' \in BOOLEAN /\ awaitingFd2' \in BOOLEAN
      BY <1>10, Zenon DEF Fd2Sub, Drain
    <3> QED
      BY <1>10, <2>1, <3>1, Moved DEF Fd2Sub, TypeOK, storeVars
<1>11. CASE Fd2Wait
  <2>1. notified' \in BOOLEAN /\ awaitingFd2' \in BOOLEAN
    BY <1>11, Zenon DEF Fd2Wait, TypeOK
  <2> QED
    BY <1>11, <2>1, Moved DEF Fd2Wait, TypeOK, linkVars, storeVars
<1>12. CASE FirstFd2
  <2>0. awaitingFd2' \in BOOLEAN
    BY <1>12, Zenon DEF FirstFd2
  <2>1. CASE GiveUp /\ UNCHANGED <<savedPeer, crossed>>
    BY <1>12, <2>0, <2>1, Moved DEF FirstFd2, TypeOK, linkVars
  <2>2. CASE /\ Connected /\ Forgotten /\ UNCHANGED dropping
             /\ task' = [task EXCEPT !.pc = "store", !.peer = connection]
             /\ savedPeer' = connection /\ crossed' = ~link.begun
    <3>1. task' \in Tasks /\ task'.pc = "store"
      BY <2>2 DEF TypeOK, Tasks, Connected
    <3>2. crossed' \in BOOLEAN
      BY <2>2, Zenon
    <3> QED
      BY <1>12, <2>0, <2>2, <3>1, <3>2 DEF FirstFd2, Forgotten, TypeOK, linkVars
  <2> QED
    BY <1>12, <2>1, <2>2 DEF FirstFd2
<1>13. CASE Store
  <2>1. flashPeer' \in Peers \cup {NoPeer}
    BY <1>13 DEF Store, TypeOK, Tasks
  <2> QED
    BY <1>13, <2>1, Moved DEF Store, TypeOK, linkVars, readyVars
<1>14. CASE Publish
  BY <1>14, IdleIsTask DEF Publish, Forgotten, TypeOK, linkVars, storeVars
<1> QED
  BY <1>1, <1>2, <1>3, <1>4, <1>5, <1>6, <1>7, <1>8, <1>9, <1>10, <1>11, <1>12,
     <1>13, <1>14
     DEF OtherStep, Discover, DiscoverWait, CccAck, CccAckWait, CccFd2, CccFd2Wait

LEMMA OtherStepIsZero ==
  ASSUME TypeOK, Placed, OtherStep PROVE task'.step = 0
<1> USE DEF OtherStep, Begin, Secure, SecureWait, Mtu, MtuWait, Discover,
            DiscoverWait, CccAck, CccAckWait, CccFd2, CccFd2Wait, StartRequest,
            TakeAndTest, AckSub, AckSubWait, InitWait, Persist, Fd2Sub, Fd2Wait,
            FirstFd2, Store, Publish
<1>1. \/ GiveUp \/ Advance \/ task' = Idle \/ task' = [Idle EXCEPT !.pc = "secure"]
      \/ /\ \/ \E next : GoTo(next)
            \/ task' = [task EXCEPT !.pc = "store", !.peer = connection]
         /\ task.pc \notin {"writeWait", "pair", "pairWait", "persist"}
  OBVIOUS
<1>2. [Idle EXCEPT !.pc = "secure"].step = 0 /\ Idle.step = 0
  BY DEF Idle
<1>3. CASE GiveUp \/ Advance
  BY <1>2, <1>3 DEF GiveUp, Advance, TypeOK, Tasks
<1>4. CASE \/ \E next : GoTo(next)
           \/ task' = [task EXCEPT !.pc = "store", !.peer = connection]
  <2>1. task'.step = task.step
    BY <1>4 DEF GoTo, TypeOK, Tasks
  <2> QED
    BY <1>1, <1>2, <2>1, <1>3 DEF Placed
<1> QED
  BY <1>1, <1>2, <1>3, <1>4

(* Anywhere else nothing is awaited of the controller.                      *)
LEMMA Away ==
  ASSUME TypeOK', task'.pc \notin Answering, task'.step = 0 PROVE AnswerInv'
  BY DEF AnswerInv, Placed, Acked, Heard, Agreed, Answering

LEMMA OtherAnswer ==
  ASSUME AnswerInv, OtherStep PROVE AnswerInv'
  BY OtherTypes, OtherStepIsZero, Away DEF AnswerInv

(* A command was written: on a link in order, it is received.               *)
LEMMA WriteAnswer ==
  ASSUME AnswerInv, NEW cmd \in 0..4, NEW wait \in {"initWait", "pairWait"},
         WriteCommand(cmd, wait), task.step = cmd,
         task.pc \in {"init", "pair"}, task.index < NumInit,
         wait = "initWait" => cmd = 0,
         wait = "pairWait" => cmd \in PairSteps /\ task.pc = "pair"
  PROVE  AnswerInv'
<1> USE DEF AnswerInv, NoResponse
<1>1. task \in Tasks /\ link \in Links
  BY DEF TypeOK
<1>2. UNCHANGED <<connection, pairingRequired, notified, readyVars, storeVars,
                  forgetPc>>
  BY DEF WriteCommand
<1>3. CASE GiveUp /\ UNCHANGED link
  <2>1. TypeOK' /\ task'.pc \notin Answering /\ task'.step = 0
    BY <1>2, <1>3, Moved DEF TypeOK, Answering, readyVars, storeVars
  <2> QED
    BY <2>1, Away
<1>4. ASSUME NEW requests \in SUBSET {"write"}, NEW next \in {wait, "writeWait"},
             Connected, Received(cmd, requests), GoTo(next)
      PROVE  AnswerInv'
  <2>1. /\ link' \in Links /\ link'.answered = link.answered
        /\ cmd \in link'.received
    BY <1>1, <1>4, ReceivedLink
  <2>2. /\ task' \in Tasks /\ task'.pc = next /\ task'.index = task.index
        /\ task'.step = task.step
        /\ dropping' \in BOOLEAN /\ done' = {} /\ response' = NoResponse
    BY <1>4, Moved DEF Places, Loops
  <2>3. TypeOK' /\ Placed'
    BY <1>2, <2>1, <2>2 DEF TypeOK, Placed, readyVars, storeVars
  <2>4. Acked'
    BY <1>2, <2>1, <2>2 DEF Acked, Heard, PairSteps
  <2>5. link.answered \in 0..4
    BY <1>1 DEF Links
  <2>6. link'.answered >= cmd - 1
    BY <1>4, <2>1, <2>5 DEF Agreed
  <2>7. Agreed'
    BY <1>2, <2>1, <2>2, <2>6 DEF Agreed, PairSteps
  <2> QED
    BY <2>3, <2>4, <2>7
<1> QED
  BY <1>3, <1>4 DEF WriteCommand


LEMMA AnsweringSteps ==
  ASSUME AnswerInv, InitWrite \/ InitNext \/ WriteWait \/ PairWrite \/ PairWait
  PROVE  AnswerInv'
<1> USE DEF AnswerInv, Places, Loops, TakeOnce, Running, NoResponse
<1>0. /\ task \in Tasks /\ link \in Links /\ task.index \in 0..NumInit
      /\ task.step \in 0..4 /\ link.answered \in 0..4 /\ NumInit \in Nat
  BY BleSetupAssumption DEF TypeOK, Tasks, Links, PairSteps
<1>a. ASSUME GiveUp, TypeOK' PROVE AnswerInv'
  BY <1>a, Moved, Away DEF Answering
<1>1. CASE InitWrite
  <2>1. task.step = 0 /\ WriteCommand(0, "initWait") /\ task.pc = "init"
        /\ task.index < NumInit /\ 0 \in 0..4 /\ "initWait" # "pairWait"
    BY <1>1 DEF InitWrite, Placed
  <2> QED
    BY <2>1, WriteAnswer
<1>2. CASE PairWrite
  <2>1. /\ task.pc = "pair" /\ task.step \in PairSteps /\ task.index < NumInit
        /\ WriteCommand(task.step, "pairWait") /\ task.step \in 0..4
    BY <1>0, <1>2 DEF PairWrite, Placed, Answering
  <2> QED
    BY <2>1, WriteAnswer
<1>3. CASE InitNext
  <2>0. /\ task.pc = "init" /\ task.step = 0
        /\ UNCHANGED <<linkVars, notified, readyVars, storeVars, forgetPc>>
    BY <1>3 DEF InitNext, Placed
  <2>1. CASE GiveUp \/ GoTo("fd2Sub") \/ (Advance /\ task.index < NumInit)
    <3>1. /\ task' \in Tasks /\ task'.pc \in {"idle", "fd2Sub", "init"}
          /\ task'.step = 0
          /\ dropping' \in BOOLEAN /\ done' = {} /\ response' = NoResponse
      BY <2>0, <2>1, Moved
    <3>2. TypeOK'
      BY <2>0, <3>1 DEF TypeOK, linkVars, readyVars, storeVars
    <3> QED
      BY <3>1, <3>2, Away DEF Answering
  <2>2. CASE /\ task.index < NumInit /\ Forgotten /\ UNCHANGED dropping
             /\ task' = [task EXCEPT !.pc = "pair", !.step = 1]
    <3>1. /\ task' \in Tasks /\ task'.pc = "pair" /\ task'.step = 1
          /\ task'.index = task.index
      <4>1. PICK first \in PairSteps : first = 1
        BY DEF PairSteps
      <4>2. task' = [task EXCEPT !.pc = "pair", !.step = first]
        BY <2>2, <4>1
      <4>3. /\ task' \in Tasks /\ task'.pc = "pair" /\ task'.step = first
            /\ task'.index = task.index
        BY <1>0, <4>2 DEF Tasks
      <4> QED
        BY <4>1, <4>3
    <3>2. TypeOK'
      BY <2>0, <2>2, <3>1 DEF TypeOK, Forgotten, linkVars, readyVars, storeVars
    <3>3. link' = link /\ connection' = connection
      BY <2>0 DEF linkVars
    <3> QED
      BY <1>0, <2>2, <3>1, <3>2, <3>3
         DEF Placed, Acked, Agreed, PairSteps, Answering
  <2> QED
    BY <1>3, <2>1, <2>2 DEF InitNext
<1>4. CASE WriteWait
  <2>0. /\ task.pc = "writeWait" /\ notified' \in BOOLEAN
        /\ UNCHANGED <<linkVars, readyVars, storeVars, forgetPc>>
    BY <1>4, Zenon DEF WriteWait, Wakes, TypeOK
  <2>1. CASE GiveUp
    <3>1. TypeOK'
      BY <2>0, <2>1, Moved DEF TypeOK, linkVars, readyVars, storeVars
    <3> QED
      BY <2>1, <3>1, <1>a
  <2>2. CASE /\ Connected /\ "write" \in done
             /\ task' = [task EXCEPT !.pc = IF task.step = 0 THEN "initWait"
                                                             ELSE "pairWait"]
             /\ done' = {} /\ UNCHANGED <<dropping, response>>
    <3>1. /\ task' \in Tasks /\ task'.step = task.step /\ task'.index = task.index
          /\ task'.pc = IF task.step = 0 THEN "initWait" ELSE "pairWait"
      BY <1>0, <2>2 DEF Tasks
    <3>2. TypeOK'
      BY <2>0, <2>2, <3>1 DEF TypeOK, linkVars, readyVars, storeVars
    <3>3. link' = link /\ connection' = connection
      BY <2>0 DEF linkVars
    <3>4. Placed'
      BY <1>0, <2>0, <3>1 DEF Placed, PairSteps, Answering
    <3>5. Written
      BY <2>2 DEF Written
    <3>6. Acked'
      BY <2>0, <2>2, <3>1, <3>3, <3>5 DEF Acked, Heard, Connected
    <3>7. Agreed'
      BY <2>0, <2>2, <3>1, <3>3, <3>5 DEF Agreed, Connected
    <3> QED
      BY <3>2, <3>4, <3>6, <3>7
  <2> QED
    BY <1>4, <2>1, <2>2 DEF WriteWait
<1>5. CASE PairWait
  <2>0. /\ task.pc = "pairWait" /\ notified' \in BOOLEAN
        /\ UNCHANGED <<linkVars, readyVars, storeVars, forgetPc>>
    BY <1>5, Zenon DEF PairWait, Wakes, TypeOK
  <2>1. CASE GiveUp
    <3>1. TypeOK'
      BY <2>0, <2>1, Moved DEF TypeOK, linkVars, readyVars, storeVars
    <3> QED
      BY <2>1, <3>1, <1>a
  <2>2. ASSUME Connected, ResponseMatches
        PROVE  link.answered >= task.step /\ link' = link /\ connection' = connection
    BY <2>0, <2>2 DEF Agreed, ResponseMatches, linkVars
  <2>3. CASE /\ Connected /\ ResponseMatches /\ task.step < 4
             /\ task' = [task EXCEPT !.pc = "pair", !.step = @ + 1]
             /\ Forgotten /\ UNCHANGED dropping
    <3>0. task.step + 1 \in PairSteps
      BY <1>0, <2>3 DEF PairSteps
    <3>1. /\ task' \in Tasks /\ task'.step = task.step + 1
          /\ task'.index = task.index /\ task'.pc = "pair"
      BY <1>0, <2>3, <3>0 DEF Tasks
    <3>2. TypeOK'
      BY <2>0, <2>3, <3>1 DEF TypeOK, Forgotten, linkVars, readyVars, storeVars
    <3> QED
      BY <1>0, <2>0, <2>2, <2>3, <3>0, <3>1, <3>2
         DEF Placed, Acked, Agreed, Answering
  <2>4. CASE Connected /\ ResponseMatches /\ ~(task.step < 4) /\ GoTo("persist")
    <3>1. /\ task' \in Tasks /\ task'.step = task.step
          /\ task'.index = task.index /\ task'.pc = "persist"
          /\ dropping' \in BOOLEAN /\ done' = {} /\ response' = NoResponse
      BY <2>4, Moved
    <3>2. TypeOK'
      BY <2>0, <3>1 DEF TypeOK, linkVars, readyVars, storeVars
    <3> QED
      BY <1>0, <2>0, <2>2, <2>4, <3>1, <3>2 DEF Placed, Acked, Agreed, Answering
  <2> QED
    BY <1>5, <2>1, <2>3, <2>4 DEF PairWait
<1> QED
  BY <1>1, <1>2, <1>3, <1>4, <1>5

(* A callback leaves the task where it is.  One that neither adds to the    *)
(* subscriptions nor counts a response changes none of what is awaited.     *)
LEMMA KeepsAnswer ==
  ASSUME AnswerInv, TypeOK', task'.pc = task.pc, task'.index = task.index,
         task'.step = task.step, UNCHANGED <<connection, response>>,
         link'.received = link.received, link'.answered = link.answered,
         link'.heard = link.heard,
         link'.subs \cap {"ack"} = link.subs \cap {"ack"},
         "ccc" \in link'.outstanding => "ccc" \in link.outstanding,
         Written' => Written
  PROVE  AnswerInv'
  BY DEF AnswerInv, Placed, Acked, Heard, Agreed, Connected

LEMMA CompleteTypes ==
  ASSUME TypeOK, NEW r \in {"sec", "mtu", "ccc", "write"}, NEW loop, Complete(r, loop),
         link' \in Links
  PROVE  TypeOK'
<1>1. done' \subseteq {"sec", "mtu", "ccc", "write"} /\ notified' = TRUE
  BY DEF Complete, TypeOK, Give
<1> QED
  BY <1>1 DEF Complete, TypeOK, readyVars, storeVars

LEMMA CallbackAnswer ==
  ASSUME AnswerInv, WakeAndWait \/ Callback
  PROVE  AnswerInv'
<1> USE DEF AnswerInv
<1>0. task \in Tasks /\ link \in Links /\ link.answered \in 0..4 /\ task.step \in 0..4
  BY DEF TypeOK, Tasks, Links, PairSteps
<1>1. CASE WakeAndWait
  <2>1. TypeOK'
    <3>1. link' = link /\ task' = task /\ notified' = FALSE
      BY <1>1 DEF WakeAndWait, linkVars
    <3>2. UNCHANGED <<connection, pairingRequired, dropping, done, response,
                      awaitingFd2, ready, savedPeer, savedLtk, flashPeer,
                      flashLtk, crossed, forgetPc>>
      BY <1>1 DEF WakeAndWait, linkVars, waitVars, readyVars, storeVars
    <3> HIDE DEF AnswerInv
    <3> QED
      BY <1>0, <3>1, <3>2, FrameTypes DEF AnswerInv
  <2> QED
    BY <1>1, <2>1, KeepsAnswer DEF WakeAndWait, linkVars, waitVars, Written, Connected
<1>2. CASE ConnectedCb
  <2>1. /\ link' = FreshLink /\ task' = task /\ UNCHANGED <<done, response>>
        /\ ~Satisfied /\ task.pc \in {"idle"} \cup Loops \cup TakeOnce
    BY <1>2 DEF ConnectedCb, TaskAsleep, waitVars
  <2>2. TypeOK'
    <3>1. connection' \in Peers \cup {NoPeer} /\ pairingRequired' \in BOOLEAN
      BY <1>2, Zenon DEF ConnectedCb
    <3>2. notified' = TRUE /\ forgetPc' \in {"no", "peerKey", "pairKey", "drop"}
      BY <1>2 DEF ConnectedCb, Give, TypeOK
    <3> QED
      BY <1>2, <2>1, <3>1, <3>2, FreshIsLink DEF ConnectedCb, TypeOK, storeVars
  <2>3. FreshLink.subs = {} /\ FreshLink.received = {} /\ FreshLink.outstanding = {}
    BY DEF FreshLink
  <2>4. done = {} /\ (response = NoResponse \/ task.pc = "writeWait")
    BY <2>1 DEF Satisfied
  <2>5. ~Written'
    BY <2>1, <2>3, <2>4 DEF Written
  <2>6. task'.pc \notin {"pair", "persist"}
    BY <2>1 DEF Loops, TakeOnce
  <2>7. Placed' /\ Acked'
    BY <2>1, <2>3, <2>4, <2>5 DEF Placed, Acked, Heard
  <2>8. Agreed'
    BY <1>0, <2>1, <2>3, <2>4, <2>5, <2>6 DEF Agreed, NoResponse
  <2> QED
    BY <2>2, <2>7, <2>8
<1>3. CASE DisconnectedCb
  <2>1. /\ link' = FreshLink /\ UNCHANGED <<task, done, response>> /\ ~Connected'
    BY <1>3 DEF DisconnectedCb, waitVars, Connected
  <2>2. TypeOK'
    <3>1. notified' \in BOOLEAN
      BY <1>3, Zenon DEF DisconnectedCb, Give, TypeOK
    <3> QED
      BY <1>3, <2>1, <3>1, FreshIsLink DEF DisconnectedCb, TypeOK, storeVars
  <2>3. FreshLink.subs = {} /\ FreshLink.received = {} /\ FreshLink.outstanding = {}
    BY DEF FreshLink
  <2> QED
    BY <2>1, <2>2, <2>3 DEF Placed, Acked, Agreed, Written
<1>4. CASE SecurityChangedCb
  <2>1. /\ link' \in Links /\ link'.outstanding = link.outstanding \ {"sec"}
        /\ link'.received = link.received /\ link'.answered = link.answered
        /\ link'.subs = link.subs /\ link'.heard = link.heard
    <3>1. PICK ok \in BOOLEAN :
            link' = [link EXCEPT !.outstanding = @ \ {"sec"}, !.encrypted = ok]
      BY <1>4, Zenon DEF SecurityChangedCb
    <3> QED
      BY <1>0, <3>1 DEF Links
  <2>2. Complete("sec", "secureWait")
    BY <1>4 DEF SecurityChangedCb
  <2>3. TypeOK'
    BY <2>1, <2>2, CompleteTypes
  <2> QED
    BY <2>1, <2>2, <2>3, KeepsAnswer DEF Complete, Written, Connected
<1>5. CASE MtuExchangeCb
  <2>1. /\ link' \in Links /\ link'.outstanding = link.outstanding \ {"mtu"}
        /\ link'.received = link.received /\ link'.answered = link.answered
        /\ link'.subs = link.subs /\ link'.heard = link.heard
    <3>1. PICK m \in BOOLEAN :
            link' = [link EXCEPT !.outstanding = @ \ {"mtu"}, !.mtu = m]
      <4>1. link.mtu \in BOOLEAN
        BY <1>0 DEF Links
      <4> QED
        BY <1>5, <4>1, Zenon DEF MtuExchangeCb
    <3> QED
      BY <1>0, <3>1 DEF Links
  <2>2. Complete("mtu", "mtuWait")
    BY <1>5 DEF MtuExchangeCb
  <2>3. TypeOK'
    BY <2>1, <2>2, CompleteTypes
  <2> QED
    BY <2>1, <2>2, <2>3, KeepsAnswer DEF Complete, Written, Connected
<1>6. CASE PeerMtu \/ Fd2Notify
  <2>1. /\ link' \in Links /\ link'.outstanding = link.outstanding
        /\ link'.received = link.received /\ link'.answered = link.answered
        /\ link'.subs = link.subs /\ link'.heard = link.heard
    BY <1>0, <1>6 DEF PeerMtu, Fd2Notify, Links
  <2>2. notified' \in BOOLEAN
    BY <1>6, Zenon DEF PeerMtu, Fd2Notify, TypeOK
  <2>3. UNCHANGED <<connection, pairingRequired, dropping, task, waitVars, readyVars,
                    storeVars, forgetPc>>
    BY <1>6 DEF PeerMtu, Fd2Notify
  <2>4. TypeOK'
    BY <2>1, <2>2, <2>3 DEF TypeOK, waitVars, readyVars, storeVars
  <2> QED
    BY <2>1, <2>3, <2>4, KeepsAnswer DEF waitVars, Written, Connected
<1>7. CASE Found
  <2>1. /\ task' \in Tasks /\ task'.pc = task.pc /\ task'.index = task.index
        /\ task'.step = task.step
    BY <1>0, <1>7 DEF Found, Tasks
  <2>2. TypeOK'
    BY <1>7, <2>1 DEF Found, TypeOK, linkVars, waitVars, readyVars, storeVars
  <2> QED
    BY <1>7, <2>1, <2>2, KeepsAnswer DEF Found, linkVars, waitVars, Written, Connected
<1>8. CASE DiscoveryEnd
  <2>1. PICK r \in {"discover", "descriptor"} :
          link' = [link EXCEPT !.outstanding = @ \ {r}]
    BY <1>8 DEF DiscoveryEnd
  <2>2. /\ link' \in Links /\ link'.outstanding = link.outstanding \ {r}
        /\ link'.received = link.received /\ link'.answered = link.answered
        /\ link'.subs = link.subs /\ link'.heard = link.heard
    BY <1>0, <2>1 DEF Links
  <2>3. TypeOK'
    BY <1>8, <2>2 DEF DiscoveryEnd, Give, TypeOK, waitVars, readyVars, storeVars
  <2> QED
    BY <1>8, <2>2, <2>3, KeepsAnswer DEF DiscoveryEnd, waitVars, Written, Connected
<1>9. CASE AckCccCb
  <2>1. /\ link' \in Links /\ link'.outstanding = link.outstanding \ {"ccc"}
        /\ link'.received = link.received /\ link'.answered = link.answered
        /\ link'.subs = link.subs \cup {"ack"} /\ link'.heard = link.heard
    BY <1>0, <1>9 DEF AckCccCb, Links
  <2>2. Complete("ccc", "ackSubWait") /\ "ccc" \in link.outstanding
    BY <1>9 DEF AckCccCb, Complete
  <2>3. TypeOK'
    BY <2>1, <2>2, CompleteTypes
  <2>4. UNCHANGED <<task, connection, response>> /\ (Written' => Written)
    BY <2>1, <2>2 DEF Complete, Written, Connected
  <2>5. Placed' /\ Acked' /\ Agreed'
    BY <2>1, <2>2, <2>4 DEF Placed, Acked, Heard, Agreed, Connected
  <2> QED
    BY <2>3, <2>5
<1>10. CASE CommandWriteCb
  <2>1. /\ link' \in Links /\ link'.outstanding = link.outstanding \ {"write"}
        /\ link'.received = link.received /\ link'.answered = link.answered
        /\ link'.subs = link.subs /\ link'.heard = link.heard
    BY <1>0, <1>10 DEF CommandWriteCb, Links
  <2>2. Complete("write", "writeWait") /\ "write" \in link.outstanding
    BY <1>10 DEF CommandWriteCb, Complete
  <2>3. TypeOK'
    BY <2>1, <2>2, CompleteTypes
  <2> QED
    BY <2>1, <2>2, <2>3, KeepsAnswer DEF Complete, Written, Connected
<1>11. ASSUME NEW cmd \in link.received, AckNotify(cmd) PROVE AnswerInv'
  <2>0. /\ cmd \in (0..4) \cup {Earlier} /\ "ack" \in link.subs
        /\ UNCHANGED <<connection, pairingRequired, dropping, task, done, readyVars,
                       storeVars, forgetPc>>
    BY <1>0, <1>11 DEF AckNotify, Links
  <2>1. PICK n \in 0..4, said \in {"none", "other", "this"},
             r \in {IF cmd = Earlier THEN 0 ELSE cmd, Refused} :
          /\ link' = [link EXCEPT !.answered = n, !.heard = said]
          /\ response' = IF task.pc \in {"writeWait", "initWait", "pairWait"}
                            THEN r ELSE response
          /\ r \in 0..5 /\ n >= link.answered
          /\ r <= 4 /\ link.answered >= r - 1 => n >= r
          /\ 0 \in link.received => said # "none"
          /\ link.heard # "none" => said # "none"
    BY <1>0, <1>11, AckedLink
  <2>2. /\ link' \in Links /\ link'.answered = n /\ link'.heard = said
        /\ link'.outstanding = link.outstanding /\ link'.received = link.received
        /\ link'.subs = link.subs
    BY <1>0, <2>1 DEF Links
  <2>3. TypeOK'
    <3>1. response' \in 0..NoResponse
      BY <2>1 DEF TypeOK, NoResponse
    <3> QED
      BY <1>11, <2>0, <2>2, <3>1 DEF AckNotify, Give, TypeOK, readyVars, storeVars
  <2>4. Placed' /\ Acked'
    BY <1>11, <2>0, <2>1, <2>2
       DEF Placed, Acked, Heard, Written, Connected, AckNotify
  <2>5. Agreed'
    <3>1. /\ task.pc = "pair" /\ Connected => n >= task.step - 1
          /\ task.pc \in {"pairWait", "writeWait"} /\ task.step \in link.received
               => n >= task.step - 1
          /\ task.pc = "persist" /\ Connected => n = 4
      BY <1>0, <2>1 DEF Agreed
    <3>2. ASSUME task.pc \in {"pairWait", "writeWait"}, response' = task.step
          PROVE  n >= task.step
      <4>1. r = task.step /\ (r = 0 \/ r = cmd)
        BY <1>0, <2>1, <3>2 DEF Refused
      <4>2. CASE r = cmd
        <5>1. link.answered >= r - 1
          BY <3>2, <4>1, <4>2 DEF Agreed
        <5> QED
          BY <1>0, <2>1, <4>1, <5>1
      <4> QED
        BY <1>0, <2>1, <4>1, <4>2
    <3> QED
      BY <2>0, <2>2, <3>1, <3>2 DEF Agreed, Connected
  <2> QED
    BY <2>3, <2>4, <2>5
<1> QED
  BY <1>1, <1>2, <1>3, <1>4, <1>5, <1>6, <1>7, <1>8, <1>9, <1>10, <1>11 DEF Callback

LEMMA OutsideAnswer ==
  ASSUME AnswerInv, Forget \/ Restart \/ UNCHANGED vars
  PROVE  AnswerInv'
<1> USE DEF AnswerInv
<1>1. CASE Restart
  <2>1. RestoredLtk \in Peers \cup {NoPeer}
    BY DEF RestoredLtk, TypeOK
  <2>2. /\ pairingRequired' \in BOOLEAN /\ dropping' \in BOOLEAN
        /\ notified' \in BOOLEAN /\ awaitingFd2' \in BOOLEAN /\ ready' \in BOOLEAN
        /\ crossed' \in BOOLEAN
    BY <1>1, Zenon DEF Restart
  <2>3. /\ connection' = NoPeer /\ link' = FreshLink /\ task' = Idle /\ done' = {}
        /\ response' = NoResponse /\ savedPeer' = flashPeer
        /\ savedLtk' = RestoredLtk /\ forgetPc' = "no"
        /\ UNCHANGED <<flashPeer, flashLtk>>
    BY <1>1, Zenon DEF Restart
  <2>4. NoResponse \in 0..NoResponse
    BY DEF NoResponse
  <2>5. TypeOK'
    BY <2>1, <2>2, <2>3, <2>4, IdleIsTask, FreshIsLink DEF TypeOK
  <2> QED
    BY <2>3, <2>5, IdleIsTask, Away DEF Answering
<1>2. CASE Forget \/ UNCHANGED vars
  <2>1. UNCHANGED <<connection, link, task, done, response>>
    BY <1>2 DEF Forget, ForgetStore, ForgetDrop, vars, linkVars, waitVars
  <2>2. TypeOK'
    <3>1. dropping' \in BOOLEAN /\ crossed' \in BOOLEAN
      BY <1>2, Zenon DEF Forget, ForgetStore, ForgetDrop, Connected, vars,
                         storeVars, TypeOK
    <3> QED
      BY <1>2, <2>1, <3>1 DEF Forget, ForgetStore, ForgetDrop, vars, linkVars, waitVars,
                              readyVars, storeVars, TypeOK
  <2> QED
    BY <2>1, <2>2, KeepsAnswer DEF Written, Connected
<1> QED
  BY <1>1, <1>2

LEMMA AnswerInit == Init => AnswerInv
<1> SUFFICES ASSUME Init PROVE AnswerInv
  OBVIOUS
<1>1. /\ pairingRequired \in BOOLEAN /\ dropping \in BOOLEAN
      /\ notified \in BOOLEAN /\ awaitingFd2 \in BOOLEAN /\ ready \in BOOLEAN
      /\ crossed \in BOOLEAN
  BY Zenon DEF Init
<1>2. /\ connection = NoPeer /\ link = FreshLink /\ task = Idle /\ done = {}
      /\ response = NoResponse /\ savedPeer = NoPeer /\ savedLtk = NoPeer
      /\ flashPeer = NoPeer /\ flashLtk = NoPeer /\ forgetPc = "no"
  BY Zenon DEF Init
<1>3. NoResponse \in 0..NoResponse
  BY DEF NoResponse
<1>4. TypeOK
  BY <1>1, <1>2, <1>3, IdleIsTask, FreshIsLink DEF TypeOK
<1> QED
  BY <1>2, <1>4, IdleIsTask DEF AnswerInv, Placed, Acked, Agreed, Answering

LEMMA AnswerAlways == Spec => []AnswerInv
<1>1. Init => AnswerInv
  BY AnswerInit
<1>2. AnswerInv /\ [Next]_vars => AnswerInv'
  BY OtherAnswer, AnsweringSteps, CallbackAnswer, OutsideAnswer
     DEF Next, SetupStep, OtherStep
<1> QED
  BY <1>1, <1>2, PTL DEF Spec

(* setup_task's position and locals, the flags and the records keep their   *)
(* types: no index runs past init_commands, no step past the exchange.      *)
THEOREM SetupTypeCorrect == Spec => []TypeOK
<1>1. AnswerInv => TypeOK
  BY DEF AnswerInv
<1> QED
  BY <1>1, AnswerAlways, PTL

(* The next command of the list follows only after the controller of this   *)
(* very link got the command before it and then answered a command, however *)
(* many commands there are and whatever else woke the task (the ACK counter *)
(* of ack_notify, send_init_command).                                       *)
THEOREM AckFirst == Spec => AckBeforeNextCommand
<1>1. AnswerInv /\ [Next]_vars =>
        [task.pc = "initWait" /\ task'.pc = "init"
           => 0 \in link.received /\ link.heard # "none"]_vars
  <2> SUFFICES ASSUME AnswerInv, Next, task.pc = "initWait", task'.pc = "init"
               PROVE  0 \in link.received /\ link.heard # "none"
    OBVIOUS
  <2>1. ~WakeAndWait /\ ~Callback /\ ~Forget
    <3>1. ASSUME WakeAndWait \/ Callback \/ Forget PROVE task'.pc = task.pc
      <4>1. task' = task \/ Found
        BY <3>1 DEF WakeAndWait, Callback, Forget, ForgetStore, ForgetDrop,
                    ConnectedCb, DisconnectedCb, SecurityChangedCb, MtuExchangeCb,
                    PeerMtu, DiscoveryEnd, AckCccCb, CommandWriteCb, Fd2Notify,
                    AckNotify, Complete
      <4> QED
        BY <4>1 DEF Found, AnswerInv, TypeOK, Tasks
    <3> QED
      BY <3>1
  <2>2. ~Restart
    BY IdleIsTask DEF Restart
  <2>3. SetupStep
    BY <2>1, <2>2 DEF Next
  <2>4. InitWait
    BY <2>3
       DEF SetupStep, Begin, Secure, SecureWait, Mtu, MtuWait, Discover,
           DiscoverWait, CccAck, CccAckWait, CccFd2, CccFd2Wait, StartRequest,
           TakeAndTest, AckSub, AckSubWait, InitWrite, InitNext, WriteWait,
           PairWrite, PairWait, Persist, Fd2Sub, Fd2Wait, FirstFd2, Store, Publish
  <2>5. ~GiveUp
    BY IdleIsTask DEF GiveUp
  <2>6. Connected /\ response # NoResponse
    BY <2>4, <2>5 DEF InitWait
  <2>7. "ack" \in link.subs /\ link.heard # "none"
    BY <2>6 DEF AnswerInv, Acked, Heard
  <2> QED
    BY <2>7 DEF AnswerInv, Acked
<1> QED
  BY <1>1, AnswerAlways, PTL DEF Spec, AckBeforeNextCommand

(* A key is stored only for the controller of the present link, and only    *)
(* after it accepted all four steps of the exchange on that link            *)
(* (pairing_command, persist_pairing_ltk).                                  *)
THEOREM KeyAgreed == Spec => KeyWasAgreed
<1>1. AnswerInv /\ [Next]_vars =>
        [\A p \in Peers : flashLtk' = p /\ flashLtk # p
           => connection = p /\ link.answered = 4]_vars
  <2> SUFFICES ASSUME AnswerInv, Next, NEW p \in Peers, flashLtk' = p, flashLtk # p
               PROVE  connection = p /\ link.answered = 4
    OBVIOUS
  <2>1. ~WakeAndWait /\ ~Callback /\ ~Restart
    BY DEF WakeAndWait, Callback, Restart, ConnectedCb, DisconnectedCb,
           SecurityChangedCb, MtuExchangeCb, PeerMtu, Found, DiscoveryEnd,
           AckCccCb, CommandWriteCb, Fd2Notify, AckNotify, Complete, storeVars
  <2>2. ~Forget
    BY BleSetupAssumption DEF Forget, ForgetStore, ForgetDrop, storeVars
  <2>3. Persist
    BY <2>1, <2>2
       DEF Next, SetupStep, Begin, Secure, SecureWait, Mtu, MtuWait, Discover,
           DiscoverWait, CccAck, CccAckWait, CccFd2, CccFd2Wait, StartRequest,
           TakeAndTest, AckSub, AckSubWait, InitWrite, InitNext, InitWait,
           WriteWait, WriteCommand, PairWrite, PairWait, Fd2Sub, Fd2Wait,
           FirstFd2, Store, Publish, storeVars
  <2>4. task.pc = "persist" /\ Connected /\ flashLtk' = connection
    BY <2>3 DEF Persist
  <2> QED
    BY <2>4 DEF AnswerInv, Agreed
<1> QED
  BY <1>1, AnswerAlways, PTL DEF Spec, KeyWasAgreed

-----------------------------------------------------------------------------
(* What the search takes for granted of the set-up.                         *)

(* The two sides of LinkLife never disagree about the controller, whatever  *)
(* implements them (pro2_ble.c).                                            *)
LEMMA LifeKeeps == Life!LifeSpec => []Life!OneController /\ Life!SavedIsKept
<1> USE DEF Life!OneController
<1>1. Life!LifeInit => Life!OneController
  BY DEF Life!LifeInit
<1>2. Life!OneController /\ [Life!LifeNext]_(Life!lifeVars) => Life!OneController'
  <2> SUFFICES ASSUME Life!OneController, [Life!LifeNext]_(Life!lifeVars)
               PROVE  Life!OneController'
    OBVIOUS
  <2>1. connection' # NoPeer => savedPeer' \in {NoPeer, connection'}
    BY DEF Life!LifeNext, Life!lifeVars, Life!Connect, Life!Record, Life!Tell,
           Life!Lose, Life!Save, Life!Forget, Life!Erase, Life!Restart
  <2>2. dropping' => connection' # NoPeer
    BY BleSetupAssumption, Zenon
       DEF Life!LifeNext, Life!lifeVars, Life!Connect, Life!Record, Life!Tell,
           Life!Lose, Life!Save, Life!Forget, Life!Erase, Life!Restart
  <2> QED
    BY <2>1, <2>2
<1>3. Life!OneController /\ [Life!LifeNext]_(Life!lifeVars) =>
        [\/ savedPeer' \in {savedPeer, NoPeer} \/ savedPeer = NoPeer
         \/ connection' = NoPeer /\ savedPeer' = flashPeer]_(Life!lifeVars)
  BY DEF Life!LifeNext, Life!lifeVars, Life!Connect, Life!Record, Life!Tell,
         Life!Lose, Life!Save, Life!Forget, Life!Erase, Life!Restart
<1> QED
  BY <1>1, <1>2, <1>3, PTL DEF Life!LifeSpec, Life!SavedIsKept

(* The controller about to be stored is the one just saved, if that has not *)
(* been forgotten, and no other one is connected.                           *)
StoresSaved ==
    task.pc = "store" =>
        /\ task.peer \in Peers
        /\ connection \in {NoPeer, task.peer}
        /\ savedPeer \in {NoPeer, task.peer}

LifeInv == Life!OneController /\ StoresSaved

(* A step that leaves the link and both records alone, and tells the link   *)
(* to go only if there is one.                                              *)
QuietLife ==
    /\ UNCHANGED <<connection, savedPeer, flashPeer>>
    /\ dropping' = dropping \/ dropping' = Connected
    /\ task'.pc = "store" => task.pc = "store" /\ task'.peer = task.peer

LEMMA LifeQuietMoves ==
  ASSUME TypeOK
  PROVE  /\ GiveUp \/ Advance \/ (task' = Idle /\ UNCHANGED dropping)
              => /\ dropping' = dropping \/ dropping' = Connected
                 /\ task'.pc # "store"
         /\ \A next \in Places \ {"store"} : GoTo(next) =>
              dropping' = dropping /\ task'.pc # "store"
<1>1. GiveUp \/ (task' = Idle /\ UNCHANGED dropping)
        => /\ dropping' = dropping \/ dropping' = Connected
           /\ task'.pc # "store"
  BY IdleIsTask, Zenon DEF GiveUp
<1>2. Advance => dropping' = dropping /\ task'.pc # "store"
  BY DEF Advance, TypeOK, Tasks
<1>3. ASSUME NEW next \in Places \ {"store"}, GoTo(next)
      PROVE  dropping' = dropping /\ task'.pc # "store"
  BY <1>3 DEF GoTo, TypeOK, Tasks
<1> QED
  BY <1>1, <1>2, <1>3

LEMMA LifeQuietSteps ==
  ASSUME TypeOK, SetupStep, ~FirstFd2, ~Store
  PROVE  QuietLife
<1> USE DEF Places, Loops, TakeOnce, Running
<1>1. UNCHANGED <<connection, savedPeer, flashPeer>>
  BY DEF SetupStep, Begin, Secure, SecureWait, Mtu, MtuWait, Discover,
         DiscoverWait, CccAck, CccAckWait, CccFd2, CccFd2Wait, StartRequest,
         TakeAndTest, AckSub, AckSubWait, InitWrite, InitNext, InitWait,
         WriteWait, WriteCommand, PairWrite, PairWait, Persist, Fd2Sub, Fd2Wait,
         Publish, linkVars, storeVars
<1>2. CASE Begin
  <2>1. dropping' = dropping /\ task'.pc # "store"
    BY <1>2, IdleIsTask DEF Begin
  <2> QED
    BY <1>1, <2>1 DEF QuietLife
<1>3. CASE \/ Secure \/ SecureWait \/ Mtu \/ MtuWait \/ Discover \/ DiscoverWait
           \/ CccAck \/ CccAckWait \/ CccFd2 \/ CccFd2Wait \/ AckSub \/ AckSubWait
           \/ Fd2Sub \/ Fd2Wait \/ PairWrite \/ InitWrite
  <2>1. \/ GiveUp
        \/ \E next \in Places \ {"store"} : GoTo(next)
    BY <1>3 DEF Secure, SecureWait, Mtu, MtuWait, Discover,
         DiscoverWait, CccAck, CccAckWait, CccFd2, CccFd2Wait, StartRequest,
         TakeAndTest, AckSub, AckSubWait, Fd2Sub, Fd2Wait, PairWrite, InitWrite,
         WriteCommand
  <2> QED
    BY <1>1, <2>1, LifeQuietMoves DEF QuietLife
<1>4. CASE InitNext \/ InitWait \/ PairWait \/ Persist
  <2>1. \/ GiveUp \/ Advance \/ GoTo("fd2Sub") \/ GoTo("persist")
        \/ task' = [task EXCEPT !.pc = "pair", !.step = 1] /\ UNCHANGED dropping
        \/ task' = [task EXCEPT !.pc = "pair", !.step = @ + 1] /\ UNCHANGED dropping
    BY <1>4 DEF InitNext, InitWait, PairWait, Persist
  <2>2. task'.pc # "store" \/ GiveUp \/ Advance \/ GoTo("fd2Sub") \/ GoTo("persist")
    BY <2>1 DEF TypeOK, Tasks
  <2> QED
    BY <1>1, <2>1, <2>2, LifeQuietMoves DEF QuietLife
<1>5. CASE WriteWait
  <2>1. \/ GiveUp
        \/ /\ UNCHANGED dropping
           /\ \E next \in {"initWait", "pairWait"} : task' = [task EXCEPT !.pc = next]
    BY <1>5 DEF WriteWait
  <2>2. task'.pc # "store" \/ GiveUp
    BY <2>1 DEF TypeOK, Tasks
  <2> QED
    BY <1>1, <2>1, <2>2, LifeQuietMoves DEF QuietLife
<1>6. CASE Publish
  BY <1>1, <1>6, LifeQuietMoves DEF Publish, QuietLife
<1>7. \/ Begin \/ Secure \/ SecureWait \/ Mtu \/ MtuWait \/ Discover \/ DiscoverWait
      \/ CccAck \/ CccAckWait \/ CccFd2 \/ CccFd2Wait \/ AckSub \/ AckSubWait
      \/ Fd2Sub \/ Fd2Wait \/ PairWrite \/ InitWrite \/ InitNext \/ InitWait
      \/ PairWait \/ Persist \/ WriteWait \/ Publish
  BY DEF SetupStep
<1> QED
  BY <1>2, <1>3, <1>4, <1>5, <1>6, <1>7

LEMMA LifeQuietOthers ==
  ASSUME TypeOK,
         \/ WakeAndWait \/ SecurityChangedCb \/ MtuExchangeCb \/ PeerMtu \/ Found
         \/ DiscoveryEnd \/ AckCccCb \/ CommandWriteCb \/ Fd2Notify
         \/ \E cmd \in link.received : AckNotify(cmd)
         \/ ForgetDrop \/ UNCHANGED vars
  PROVE  QuietLife
<1>1. UNCHANGED <<connection, savedPeer, flashPeer>>
  BY DEF WakeAndWait, SecurityChangedCb, MtuExchangeCb, PeerMtu, Found,
         DiscoveryEnd, AckCccCb, CommandWriteCb, Fd2Notify, AckNotify, Complete,
         ForgetDrop, vars, linkVars, storeVars
<1>2. dropping' = dropping \/ dropping' = Connected
  BY Zenon
     DEF WakeAndWait, SecurityChangedCb, MtuExchangeCb, PeerMtu, Found,
         DiscoveryEnd, AckCccCb, CommandWriteCb, Fd2Notify, AckNotify, Complete,
         ForgetDrop, vars
<1>3. task' = task \/ Found
  BY DEF WakeAndWait, SecurityChangedCb, MtuExchangeCb, PeerMtu,
         DiscoveryEnd, AckCccCb, CommandWriteCb, Fd2Notify, AckNotify, Complete,
         ForgetDrop, vars
<1>4. task'.pc = "store" => task.pc = "store" /\ task'.peer = task.peer
  BY <1>3 DEF Found, TypeOK, Tasks
<1> QED
  BY <1>1, <1>2, <1>4 DEF QuietLife

(* Such a step is Tell or a stutter.                                        *)
LEMMA QuietRefines ==
  ASSUME TypeOK, TypeOK', LifeInv, QuietLife
  PROVE  LifeInv' /\ [Life!LifeNext]_(Life!lifeVars)
<1>1. StoresSaved'
  BY DEF LifeInv, StoresSaved, QuietLife
<1>2. CASE dropping' = dropping
  <2>1. UNCHANGED Life!lifeVars
    BY <1>2 DEF QuietLife, Life!lifeVars
  <2> QED
    BY <1>1, <1>2, <2>1 DEF LifeInv, Life!OneController, QuietLife
<1>3. CASE dropping' = Connected /\ Connected
  <2>1. dropping' = TRUE
    BY <1>3, Zenon
  <2>2. Life!Tell
    BY <1>3, <2>1 DEF QuietLife, Life!Tell, Connected
  <2> QED
    BY <1>1, <1>3, <2>1, <2>2 DEF LifeInv, Life!OneController, QuietLife, Life!LifeNext,
       Connected
<1>4. CASE dropping' = Connected /\ ~Connected
  <2>1. ~dropping /\ ~dropping'
    BY <1>4, Zenon DEF LifeInv, Life!OneController, Connected
  <2>2. dropping' = dropping
    BY <2>1 DEF TypeOK
  <2> QED
    BY <1>2, <2>2
<1> QED
  BY <1>2, <1>3, <1>4 DEF QuietLife

LEMMA LifeSteps ==
  ASSUME TypeOK, TypeOK', LifeInv,
         \/ FirstFd2 \/ Store \/ ConnectedCb \/ DisconnectedCb \/ ForgetStore \/ Restart
  PROVE  LifeInv' /\ [Life!LifeNext]_(Life!lifeVars)
<1> USE BleSetupAssumption
        DEF LifeInv, StoresSaved, Life!OneController, Life!LifeNext, Life!lifeVars
<1>1. CASE FirstFd2
  <2>1. CASE Connected
    <3>1. /\ task' = [task EXCEPT !.pc = "store", !.peer = connection]
          /\ savedPeer' = connection /\ UNCHANGED <<dropping, connection, flashPeer>>
      BY <1>1, <2>1 DEF FirstFd2, linkVars
    <3>2. task'.peer = connection
      BY <3>1 DEF TypeOK, Tasks
    <3>3. Life!Save
      BY <2>1, <3>1 DEF Life!Save, Connected
    <3> QED
      BY <2>1, <3>1, <3>2, <3>3 DEF Connected, TypeOK
  <2>2. CASE ~Connected
    <3>1. GiveUp /\ UNCHANGED <<connection, savedPeer, flashPeer>>
      BY <1>1, <2>2 DEF FirstFd2, linkVars
    <3>2. /\ dropping' = dropping \/ dropping' = Connected
          /\ task'.pc # "store"
      BY <3>1, LifeQuietMoves, Zenon
    <3>3. QuietLife
      BY <3>1, <3>2, Zenon DEF QuietLife
    <3> QED
      BY <3>3, QuietRefines DEF LifeInv
  <2> QED
    BY <2>1, <2>2
<1>2. CASE Store
  <2>1. /\ task.pc = "store" /\ task'.pc = "publish" /\ flashPeer' \in {task.peer, flashPeer}
        /\ UNCHANGED <<connection, savedPeer, dropping>>
    BY <1>2 DEF Store, GoTo, linkVars, TypeOK, Tasks
  <2>2. UNCHANGED Life!lifeVars \/ Life!Record(task.peer)
    BY <2>1 DEF Life!Record
  <2> QED
    BY <2>1, <2>2
<1>3. CASE ConnectedCb
  <2>1. /\ dropping' = FALSE /\ task.pc # "store"
        /\ UNCHANGED <<task, savedPeer, flashPeer>>
    BY <1>3 DEF ConnectedCb, TaskAsleep, storeVars, Loops, TakeOnce
  <2>2. PICK p \in Peers : connection' = p /\ savedPeer \in {NoPeer, p}
    BY <1>3 DEF ConnectedCb
  <2>3. Life!Connect(p)
    BY <1>3, <2>1, <2>2 DEF ConnectedCb, Connected, Life!Connect
  <2> QED
    BY <2>1, <2>2, <2>3
<1>4. CASE DisconnectedCb
  <2>1. /\ connection' = NoPeer /\ dropping' = FALSE
        /\ UNCHANGED <<task, savedPeer, flashPeer>>
    BY <1>4 DEF DisconnectedCb, storeVars
  <2>2. Life!Lose
    BY <1>4, <2>1 DEF DisconnectedCb, Connected, Life!Lose
  <2> QED
    BY <2>1, <2>2
<1>5. CASE ForgetStore
  <2>1. UNCHANGED <<connection, dropping, task>>
    BY <1>5 DEF ForgetStore, linkVars
  <2>2. \/ savedPeer' = NoPeer /\ flashPeer' = flashPeer
        \/ flashPeer' = NoPeer /\ savedPeer' = savedPeer
        \/ UNCHANGED <<savedPeer, flashPeer>>
    BY <1>5 DEF ForgetStore
  <2>3. Life!Forget \/ Life!Erase \/ UNCHANGED Life!lifeVars
    BY <2>1, <2>2 DEF Life!Forget, Life!Erase
  <2> QED
    BY <2>1, <2>2, <2>3
<1>6. CASE Restart
  <2>1. /\ connection' = NoPeer /\ dropping' = FALSE /\ task' = Idle
        /\ savedPeer' = flashPeer /\ flashPeer' = flashPeer
    BY <1>6 DEF Restart
  <2>2. Life!Restart
    BY <2>1 DEF Life!Restart
  <2> QED
    BY <2>1, <2>2, IdleIsTask
<1> QED
  BY <1>1, <1>2, <1>3, <1>4, <1>5, <1>6

(* However links are lost and come back, and whenever the controller is     *)
(* forgotten or the power is cut, the set-up saves and stores only the      *)
(* controller of the link it has set up, over no other one, and tells only  *)
(* a link that is there to go (setup_task, disconnect_after_error,          *)
(* pro2_ble_forget_peer).                                                   *)
THEOREM SetupKeepsLife == Spec => KeepsLife
<1>1. Init => Life!LifeInit /\ LifeInv
  <2> SUFFICES ASSUME Init PROVE Life!LifeInit /\ LifeInv
    OBVIOUS
  <2>1. /\ connection = NoPeer /\ dropping = FALSE /\ task.pc = "idle"
        /\ savedPeer = NoPeer /\ flashPeer = NoPeer
    BY IdleIsTask, Zenon DEF Init
  <2> QED
    BY <2>1 DEF Life!LifeInit, LifeInv, Life!OneController, StoresSaved
<1>2. TypeOK /\ TypeOK' /\ LifeInv /\ [Next]_vars
        => LifeInv' /\ [Life!LifeNext]_(Life!lifeVars)
  <2> SUFFICES ASSUME TypeOK, TypeOK', LifeInv, [Next]_vars
               PROVE  LifeInv' /\ [Life!LifeNext]_(Life!lifeVars)
    OBVIOUS
  <2>1. \/ QuietLife
        \/ FirstFd2 \/ Store \/ ConnectedCb \/ DisconnectedCb \/ ForgetStore \/ Restart
    <3>1. CASE SetupStep
      BY <3>1, LifeQuietSteps
    <3>2. CASE WakeAndWait \/ Callback \/ Forget \/ UNCHANGED vars
      BY <3>2, LifeQuietOthers, Zenon DEF Callback, Forget
    <3> QED
      BY <3>1, <3>2, Zenon DEF Next
  <2> QED
    BY <2>1, QuietRefines, LifeSteps
<1> QED
  BY <1>1, <1>2, SetupTypeCorrect, PTL DEF Spec, KeepsLife, Life!LifeSpec

(* So no pairing replaces a saved controller by another one: it has to be   *)
(* forgotten first, or to differ from the stored one when the power is cut  *)
(* (saved_peer).                                                            *)
THEOREM SavedGivesWay == Spec => []Life!OneController /\ Life!SavedIsKept
  BY SetupKeepsLife, LifeKeeps, PTL DEF KeepsLife
=============================================================================
