----------------------------- MODULE MCBleSetup -----------------------------
(* A small instance of BleSetup for TLC.                                    *)
EXTENDS BleSetup, TLC

Symmetry == Permutations(Peers)
=============================================================================
