------------------------------ MODULE LinkLife ------------------------------
(***************************************************************************)
(* What the two halves of pro2_ble.c take for granted of each other.  The  *)
(* search (BleLink) brings up a link only to the saved controller, if one  *)
(* is saved; the set-up (BleSetup) saves only the controller of the link   *)
(* that is up, stores no other one, and tells only a link that is there to *)
(* go.  A forget may come at any time.  The set-up sees the search, and    *)
(* the search the set-up, as these steps.                                  *)
(***************************************************************************)
CONSTANTS
    Peers,      \* the controllers
    NoPeer      \* none

VARIABLES
    peer,       \* the connected controller, or NoPeer
    saved,      \* the saved controller, or NoPeer
    stored,     \* the one that is saved after a power cut, or NoPeer
    told        \* the link was told to go

lifeVars == <<peer, saved, stored, told>>

LifeInit ==
    /\ peer = NoPeer /\ told = FALSE
    /\ saved \in Peers \cup {NoPeer} /\ stored \in Peers \cup {NoPeer}

Connect(p) ==
    /\ peer = NoPeer /\ saved \in {NoPeer, p}
    /\ peer' = p /\ told' = FALSE /\ UNCHANGED <<saved, stored>>

Tell == peer # NoPeer /\ told' = TRUE /\ UNCHANGED <<peer, saved, stored>>

Lose == peer # NoPeer /\ peer' = NoPeer /\ told' = FALSE /\ UNCHANGED <<saved, stored>>

Save == peer # NoPeer /\ saved' = peer /\ UNCHANGED <<peer, stored, told>>

(* What was saved is stored, perhaps after it was lost or forgotten.        *)
Record(p) ==
    /\ peer \in {NoPeer, p} /\ saved \in {NoPeer, p}
    /\ stored' = p /\ UNCHANGED <<peer, saved, told>>

Forget == saved' = NoPeer /\ UNCHANGED <<peer, stored, told>>

Erase == stored' = NoPeer /\ UNCHANGED <<peer, saved, told>>

Restart == peer' = NoPeer /\ told' = FALSE /\ saved' = stored /\ UNCHANGED stored

LifeNext ==
    \/ \E p \in Peers : Connect(p) \/ Record(p)
    \/ Tell \/ Lose \/ Save \/ Forget \/ Erase \/ Restart

LifeSpec == LifeInit /\ [][LifeNext]_lifeVars

-----------------------------------------------------------------------------
(* Properties.                                                              *)

(* The two sides never disagree about the controller, and nothing is told   *)
(* to go that is not there.                                                 *)
OneController ==
    /\ peer # NoPeer => saved \in {NoPeer, peer}
    /\ told => peer # NoPeer

(* A saved controller gives way to another only after it was forgotten, or  *)
(* to the one that was stored when the power was cut.                       *)
SavedIsKept ==
    [][\/ saved' \in {saved, NoPeer} \/ saved = NoPeer
       \/ peer' = NoPeer /\ saved' = stored]_lifeVars
=============================================================================
