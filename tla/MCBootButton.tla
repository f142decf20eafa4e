---------------------------- MODULE MCBootButton ----------------------------
(* BootButton for TLC, with the code's own hold of thirty samples.          *)
EXTENDS BootButton
=============================================================================
