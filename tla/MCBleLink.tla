----------------------------- MODULE MCBleLink ------------------------------
(* A small instance of BleLink for TLC.                                     *)
EXTENDS BleLink, TLC

Symmetry == Permutations(Peers)

(* A slip excuses SearchesUnlessSlip and Reconnects for good.  What it      *)
(* leaves of OneLink and KeepsLife is proved in BleLink_proofs.             *)
NoSlip == slips = {}
=============================================================================
