------------------------------- MODULE Startup ------------------------------
(***************************************************************************)
(* How the firmware starts: startup_task (main.c) starts the Bluetooth     *)
(* side and brings USB up when the stack is ready; bluetooth_task and the  *)
(* stack's callback bt_ready (pro2_ble.c) give the dongle the local        *)
(* address the controllers know it by.  The chip may report a usable       *)
(* address, not the same after each restart, or none; one is stored, so    *)
(* that it stays.  The stack can fail, at two places, and storing too.     *)
(***************************************************************************)
CONSTANTS
    Reported,   \* addresses the chip may report
    Derived,    \* the one made from the chip id
    NoAddress   \* none

ASSUME StartupAssumption ==
    NoAddress \notin Reported \cup {Derived}

Addresses == Reported \cup {Derived}

VARIABLES
    boot,       \* startup_task
    bt,         \* bluetooth_task, then bt_ready
    address,    \* the address ensure_stable_local_address works with or set
    stored,     \* the address in the flash
    known       \* the address used last, unless it could not be stored

startupVars == <<boot, bt, address, stored, known>>

StartupTypeOK ==
    /\ boot \in {"start", "wait", "usb"}
    /\ bt \in {"no", "enable", "load", "store", "set", "vain", "ready",
              "failed"}
    /\ address \in Addresses \cup {NoAddress}
    /\ stored \in Addresses \cup {NoAddress}
    /\ known \in Addresses \cup {NoAddress}

StartupInit ==
    /\ boot = "start" /\ bt = "no"
    /\ address = NoAddress /\ stored = NoAddress /\ known = NoAddress

-----------------------------------------------------------------------------
(* pro2_ble_start creates bluetooth_task.                                   *)
BleStart ==
    /\ boot = "start"
    /\ boot' = "wait" /\ bt' = "enable"
    /\ UNCHANGED <<address, stored, known>>

(* bt_enable fails, or calls bt_ready with or without an error.             *)
BtEnable ==
    /\ bt = "enable"
    /\ bt' \in {"load", "failed"}
    /\ UNCHANGED <<boot, address, stored, known>>

(* ensure_stable_local_address: the stored address, or the one reported, or *)
(* one derived from the chip id ...                                         *)
LoadAddress ==
    /\ bt = "load" /\ stored # NoAddress
    /\ address' = stored /\ bt' = "set"
    /\ UNCHANGED <<boot, stored, known>>

MakeAddress ==
    /\ bt = "load" /\ stored = NoAddress
    /\ address' \in Addresses /\ bt' = "store"
    /\ UNCHANGED <<boot, stored, known>>

(* Mutant of StoreAddress: the new address is not stored.                   *)
StoreNoAddress ==
    /\ bt = "store" /\ bt' = "set"
    /\ UNCHANGED <<boot, address, stored, known>>

(* ... which is stored if the flash can ...                                 *)
StoreAddress ==
    /\ bt = "store"
    /\ \/ stored' = address /\ bt' = "set"
       \/ UNCHANGED stored /\ bt' = "vain"
    /\ UNCHANGED <<boot, address, known>>

(* Mutant of SetAddress: an address that is not stored is not used.         *)
SetStoredAddress ==
    /\ bt = "set" /\ bt' = "ready"
    /\ known' = address
    /\ UNCHANGED <<boot, address, stored>>

(* ... and given to the controller and the host; stack_ready is set.        *)
SetAddress ==
    /\ bt \in {"set", "vain"} /\ bt' = "ready"
    /\ known' = IF bt = "set" THEN address ELSE NoAddress
    /\ UNCHANGED <<boot, address, stored>>

(* startup_task sees it: the clock is restored and USB initialized.         *)
StartUsb ==
    /\ boot = "wait" /\ bt = "ready"
    /\ boot' = "usb"
    /\ UNCHANGED <<bt, address, stored, known>>

StartupStep ==
    \/ BleStart \/ BtEnable \/ LoadAddress \/ MakeAddress \/ StoreAddress
    \/ SetAddress \/ StartUsb

(* A power cut: the flash is left, and what the controllers remember.       *)
PowerCut ==
    /\ boot' = "start" /\ bt' = "no" /\ address' = NoAddress
    /\ UNCHANGED <<stored, known>>

-----------------------------------------------------------------------------
(* Properties.                                                              *)

(* The dongle keeps its address through restarts, for the controllers are   *)
(* paired with it: an address that was used, and whose store did not fail,  *)
(* is the one used next, wherever the power was cut                         *)
(* (ensure_stable_local_address).                                           *)
KnownAddress ==
    [][bt # "ready" /\ bt' = "ready" /\ known # NoAddress
         => address = known]_startupVars

(* USB comes up unless the stack fails or the power is cut: whatever else   *)
(* fails on the way does not keep startup_task waiting.                     *)
UsbComesUp == boot = "wait" ~> (boot # "wait" \/ bt = "failed")
=============================================================================
