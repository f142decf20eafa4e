---------------------------- MODULE MCInputPath ----------------------------
EXTENDS InputPath

CONSTANTS Tilted

Fd2(bits, x, y, size) ==
    [bits |-> bits, left |-> Pack12([x |-> x, y |-> y]),
     right |-> Pack12([x |-> y, y |-> x]), size |-> size, motion |-> Tilted]

(* At rest in the middle and at the edge of what counts as rest, one beyond *)
(* it, the ends of the axes, a button of each side, every bit at once, and  *)
(* a report too short.                                                      *)
MCInputs ==
    {Fd2({}, 2048, 2048, "basic"), Fd2({}, 2304, 1792, "basic"),
     Fd2({}, 2305, 2048, "basic"), Fd2({}, 4095, 0, "full"),
     Fd2({3, 22}, 2048, 2048, "basic"), Fd2(0..31, 4095, 0, "basic"),
     Fd2({}, 2048, 2048, "short")}
=============================================================================
