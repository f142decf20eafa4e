---------------------------- MODULE SettingsStore ---------------------------
(***************************************************************************)
(* What the settings promise the user of the configuration page: there is  *)
(* a current configuration, which takes effect at once and is lost with    *)
(* the power, and a stored one, which is loaded at the next start.  They   *)
(* are called clean only when the two are the same.                        *)
(*                                                                         *)
(* The current configuration may change while it is being stored.  Only a  *)
(* store that was crossed by such a change stores something else, it may   *)
(* be a mixture, and it leaves the settings unclean.                       *)
(***************************************************************************)
CONSTANTS Configs, Default

VARIABLES
    current,    \* the configuration in effect
    stored,     \* the one a restart loads
    clean,      \* current is stored
    crossed     \* a command came since the one under way was given

storeVars == <<current, stored, clean, crossed>>

StoreInit ==
    stored \in Configs /\ current = stored /\ clean = TRUE /\ crossed = FALSE

Command == crossed' \in BOOLEAN /\ UNCHANGED <<current, stored, clean>>

Apply(c) ==
    /\ current' = c /\ clean' = FALSE /\ crossed' \in BOOLEAN
    /\ UNCHANGED stored

Reset == current' = Default /\ clean' = FALSE /\ UNCHANGED <<stored, crossed>>

(* A clean configuration may be stored again.                               *)
Store == stored' = current /\ UNCHANGED <<current, clean, crossed>>

StoreCrossed ==
    /\ crossed /\ ~clean
    /\ stored' \in Configs /\ UNCHANGED <<current, clean, crossed>>

Acknowledge ==
    stored = current /\ clean' = TRUE /\ UNCHANGED <<current, stored, crossed>>

Restart ==
    current' = stored /\ clean' = TRUE /\ crossed' = FALSE /\ UNCHANGED stored

StoreNext ==
    \/ \E c \in Configs : Apply(c)
    \/ Command \/ Reset \/ Store \/ StoreCrossed \/ Acknowledge \/ Restart

StoreSpec == StoreInit /\ [][StoreNext]_storeVars
=============================================================================
