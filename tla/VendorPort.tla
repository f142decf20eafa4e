----------------------------- MODULE VendorPort -----------------------------
(***************************************************************************)
(* What the vendor interface promises its host: one command at a time is   *)
(* taken, and all of its reply is handed over, chunk by chunk and in       *)
(* order, before the next command is taken.  The promise holds from one    *)
(* configuration of the device to the next reset, unless the bus was       *)
(* suspended over a chunk the host had not fetched.                        *)
(***************************************************************************)
EXTENDS Naturals

CONSTANTS
    Commands,       \* the commands
    NoCommand,      \* no command was taken yet
    ReplyLen        \* the number of chunks of each command's reply

VARIABLES
    phase,          \* "closed", "idle", "serving" or "broken"
    serving,        \* the command taken last
    left            \* chunks of its reply still to be handed over

vars == <<phase, serving, left>>

Init == phase = "closed" /\ serving = NoCommand /\ left = 0

Open ==
    /\ phase = "closed"
    /\ phase' = "idle" /\ serving' = NoCommand /\ left' = 0

Take(c) ==
    /\ phase = "idle"
    /\ serving' = c /\ left' = ReplyLen[c]
    /\ phase' = IF ReplyLen[c] = 0 THEN "idle" ELSE "serving"

HandOver ==
    /\ phase = "serving"
    /\ left' = left - 1
    /\ phase' = IF left = 1 THEN "idle" ELSE "serving"
    /\ UNCHANGED serving

Break ==
    /\ phase = "serving"
    /\ phase' = "broken" /\ serving' = NoCommand /\ left' = 0

Close ==
    /\ phase' = "closed" /\ serving' = NoCommand /\ left' = 0

Next == Open \/ (\E c \in Commands : Take(c)) \/ HandOver \/ Break \/ Close

Spec == Init /\ [][Next]_vars
=============================================================================
