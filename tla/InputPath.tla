------------------------------ MODULE InputPath -----------------------------
(***************************************************************************)
(* From the controller's FD2 reports to the reports the host reads.        *)
(* fd2_notify (pro2_ble.c), in the Bluetooth host, parses a report,        *)
(* calibrates the sticks by it and turns the state into both USB reports   *)
(* in place (pro2_protocol.c, usb_nintendo_submit_state).  The reports are *)
(* read without a lock: by the interrupt handler, at any moment of that,   *)
(* and by usb_input_task, which the host preempts while it copies.         *)
(*                                                                         *)
(* The sequence number and the time in a report are left out.              *)
(***************************************************************************)
EXTENDS ReportCodec

CONSTANTS
    Inputs,     \* FD2 reports the controller may send
    Deadzones,  \* the dead zones the settings may have
    Count,      \* AXIS_CALIBRATION_COUNT (20)
    NoMotion    \* "no motion data"

(* A report too short for buttons and sticks has size "short"; motion comes *)
(* with those that are long enough, "full".                                 *)
ASSUME InputAssumption ==
    /\ \A d \in Inputs :
         /\ d.size \in {"short", "basic", "full"}
         /\ d.bits \subseteq 0..31
         /\ \A p \in {d.left, d.right} : \A i \in 1..3 : p[i] \in 0..255
    /\ Deadzones \subseteq 0..512
    /\ Count \in Nat \ {0}

Axes == {"lx", "ly", "rx", "ry"}

VARIABLES
    link,       \* "down", "up" while it is set up, or "ready"
    deadzone,   \* settings.stick_deadzone
    parser,     \* parser
    state,      \* controller_state
    last,       \* the buttons of the FD2 report submitted last, as received
    recent,     \* the buttons of the states a copy may yet come from
    build,      \* how far usb_nintendo_submit_state is
    latest,     \* latest_input_05 and latest_input_09
    copy        \* the copy usb_input_task has begun: of which report

inputVars ==
    <<link, deadzone, parser, state, last, recent, build, latest, copy>>

Centered == [a \in Axes |-> AxisCenter]

(* pro2_parser_init and pro2_state_reset.                                   *)
NewParser == [calibrated |-> FALSE, samples |-> 0,
              sum |-> [a \in Axes |-> 0], center |-> Centered]
Neutral == [buttons |-> {}, axes |-> Centered, motion |-> NoMotion]

(* A report, as far as it is built.  The generic one has y upwards.         *)
Empty    == [bits |-> {}, left |-> <<0, 0, 0>>, right |-> <<0, 0, 0>>,
             motion |-> NoMotion]
Y(id, v) == IF id = 9 THEN AxisMax - v ELSE v
Stick(id, x, y) == Pack12([x |-> x, y |-> Y(id, y)])
Center(id)      == Stick(id, AxisCenter, AxisCenter)
Bits(id, s)     == IF id = 9 THEN GenericBits(s.buttons) ELSE NativeBits(s.buttons)

(* pro2_make_usb_report_05 and _09, the whole of them.                      *)
Made(id, s) ==
    [bits |-> Bits(id, s),
     left  |-> Stick(id, s.axes["lx"], s.axes["ly"]),
     right |-> Stick(id, s.axes["rx"], s.axes["ry"]),
     motion |-> IF id = 5 THEN s.motion ELSE NoMotion]

Stages == {"idle", "clear", "center", "buttons", "axes"}

(* The axes of a parsed report are computed, not listed: their type says    *)
(* that they fit in twelve bits.                                            *)
InputTypeOK ==
    /\ link \in {"down", "up", "ready"} /\ deadzone \in Deadzones
    /\ parser.samples \in 0..Count
    /\ \A a \in Axes : /\ parser.center[a] \in 0..AxisMax
                       /\ state.axes[a] \in 0..AxisMax
    /\ state.buttons \subseteq Buttons /\ recent \subseteq Buttons
    /\ last \in {d.bits : d \in Inputs} \cup {{}}
    /\ build \in [id : {5, 9}, stage : Stages]
    /\ \A id \in {5, 9} : latest[id].bits \subseteq 0..25
    /\ copy.id \in {0, 5, 9} /\ copy.old \subseteq 0..25

NoCopy == [id |-> 0, old |-> {}]

InputInit ==
    /\ link = "down" /\ deadzone \in Deadzones
    /\ parser = NewParser /\ state = Neutral /\ last = {} /\ recent = {}
    /\ build = [id |-> 5, stage |-> "idle"]
    /\ latest = [id \in {5, 9} |-> Made(id, Neutral)]
    /\ copy = NoCopy

-----------------------------------------------------------------------------
(* Calibration: the mean of Count reports in a row with no button pressed   *)
(* and all axes near the middle (update_calibration).                       *)

Reading(d) == LET l == Unpack12(d.left)
                  r == Unpack12(d.right)
              IN  [lx |-> l.x, ly |-> l.y, rx |-> r.x, ry |-> r.y]

Resting(d) ==
    DecodeButtons(d.bits) = {} /\ \A a \in Axes : NearCenter(Reading(d)[a])

(* Mutant of Restarted: the sum is kept when the series is broken.          *)
RestartedSum(p) == [p EXCEPT !.samples = 0]

Restarted(p) == [p EXCEPT !.samples = 0, !.sum = [a \in Axes |-> 0]]

Calibrated(p, d) ==
    LET sum == [a \in Axes |-> p.sum[a] + Reading(d)[a]]
        n   == p.samples + 1
        q   == [p EXCEPT !.samples = n, !.sum = sum]
    IN  IF p.calibrated THEN p
        ELSE IF ~Resting(d) THEN Restarted(p)
        ELSE IF n < Count THEN q
        ELSE [q EXCEPT !.calibrated = TRUE,
                       !.center = [a \in Axes |-> sum[a] \div n]]

(* pro2_parse_fd2: the state d is parsed to, the calibration being p.       *)
Parsed(p, d) ==
    [buttons |-> DecodeButtons(d.bits),
     axes |-> IF p.calibrated
                THEN [a \in Axes |-> Normalize(Reading(d)[a], p.center[a], deadzone)]
                ELSE Centered,
     motion |-> IF d.size = "full" THEN d.motion ELSE state.motion]

(* A state is submitted: the host goes on to build the reports.  A copy     *)
(* that has begun may hold what was submitted before.                       *)
Submit(s) ==
    /\ state' = s
    /\ recent' = s.buttons \cup (IF copy = NoCopy THEN DecodeButtons(last) ELSE recent)
    /\ build' = [id |-> 5, stage |-> "clear"]

HostIdle == build.stage = "idle"

-----------------------------------------------------------------------------
(* setup_task initializes parser and state, and declares the link ready.  A *)
(* notification left over can make it set up a link that is in use.         *)
SetUp ==
    /\ link \in {"down", "ready"} /\ HostIdle
    /\ link' = IF link = "down" THEN "up" ELSE link
    /\ parser' = NewParser /\ state' = Neutral
    /\ UNCHANGED <<deadzone, last, recent, build, latest, copy>>

Ready ==
    /\ link = "up" /\ HostIdle
    /\ link' = "ready"
    /\ UNCHANGED <<deadzone, parser, state, last, recent, build, latest, copy>>

(* fd2_notify; before the link is ready a report changes nothing here.      *)
Fd2Notify(d) ==
    /\ link = "ready" /\ HostIdle /\ d.size # "short"
    /\ parser' = Calibrated(parser, d)
    /\ Submit(Parsed(parser', d))
    /\ last' = d.bits
    /\ UNCHANGED <<link, deadzone, latest, copy>>

(* Mutant of Disconnected: the state is not reset before it is submitted.   *)
DisconnectedAsIs ==
    /\ link # "down" /\ HostIdle
    /\ link' = "down" /\ last' = {}
    /\ Submit(state)
    /\ UNCHANGED <<deadzone, parser, latest, copy>>

(* disconnected_cb.                                                         *)
Disconnected ==
    /\ link # "down" /\ HostIdle
    /\ link' = "down" /\ last' = {}
    /\ Submit(Neutral)
    /\ UNCHANGED <<deadzone, parser, latest, copy>>

(* pro2_settings_apply_wire, from the configuration page.                   *)
SetDeadzone(d) ==
    /\ d # deadzone /\ deadzone' = d
    /\ UNCHANGED <<link, parser, state, last, recent, build, latest, copy>>

-----------------------------------------------------------------------------
(* usb_nintendo_submit_state builds report 0x05, then 0x09, in place.       *)

At(from, next) == build.stage = from /\ build' = [build EXCEPT !.stage = next]

Store(report) == /\ latest' = [latest EXCEPT ![build.id] = report]
                 /\ UNCHANGED <<link, deadzone, parser, state, last, recent, copy>>

(* Mutant of Clear: the old report is not cleared, bits are added to it.    *)
ClearNot == At("clear", "center") /\ Store(latest[build.id])

Clear == At("clear", "center") /\ Store(Empty)

CenterSticks ==
    /\ At("center", "buttons")
    /\ Store([latest[build.id] EXCEPT !.left = Center(build.id),
                                      !.right = Center(build.id)])

SetBits ==
    /\ At("buttons", "axes")
    /\ Store([latest[build.id] EXCEPT !.bits = @ \cup Bits(build.id, state)])

(* The sticks and the motion; then it is the other report's turn.           *)
SetAxes ==
    /\ build.stage = "axes"
    /\ build' = IF build.id = 5 THEN [id |-> 9, stage |-> "clear"]
                                ELSE [id |-> 5, stage |-> "idle"]
    /\ Store([Made(build.id, state) EXCEPT !.bits = latest[build.id].bits])

BuildStep == Clear \/ CenterSticks \/ SetBits \/ SetAxes

-----------------------------------------------------------------------------
(* try_send_input copies a report to hid_in: usb_input_task from its first  *)
(* byte to its last, the Bluetooth host coming between, or the interrupt    *)
(* handler, at any moment, at once.                                         *)
Decoded(id, bits) ==
    IF id = 9 THEN {GenericOrder[i + 1] : i \in bits} ELSE DecodeButtons(bits)

CopyBegins(id) ==
    /\ HostIdle /\ copy = NoCopy
    /\ copy' = [id |-> id, old |-> latest[id].bits]
    /\ recent' = DecodeButtons(last)
    /\ UNCHANGED <<link, deadzone, parser, state, last, build, latest>>

CopyEnds ==
    /\ HostIdle /\ copy # NoCopy
    /\ copy' = NoCopy
    /\ UNCHANGED <<link, deadzone, parser, state, last, recent, build, latest>>

(* What the task's copy holds, the bytes below k copied before the host     *)
(* came, if it did.                                                         *)
TaskCopies(k) ==
    Decoded(copy.id, {b \in copy.old : b < 8 * k}
                       \cup {b \in latest[copy.id].bits : b >= 8 * k})

InterruptCopies(id) == Decoded(id, latest[id].bits)

-----------------------------------------------------------------------------
InputNext ==
    \/ SetUp
    \/ Ready
    \/ \E d \in Inputs : Fd2Notify(d)
    \/ Disconnected
    \/ \E d \in Deadzones : SetDeadzone(d)
    \/ BuildStep
    \/ \E id \in {5, 9} : CopyBegins(id)
    \/ CopyEnds

InputSpec == InputInit /\ [][InputNext]_inputVars

-----------------------------------------------------------------------------
(* No button reaches the host that the controller did not report: one in a  *)
(* copy was pressed in a state submitted while the copy was made, or in the *)
(* one before.  The reports are rebuilt in place, cleared first, while the  *)
(* interrupt handler and the preempted task read them.                      *)
NoPhantom ==
    /\ \A id \in {5, 9} : InterruptCopies(id) \subseteq recent
    /\ HostIdle /\ copy # NoCopy => \A k \in 0..4 : TaskCopies(k) \subseteq recent

(* A lost link releases every button and centres the sticks, in both        *)
(* reports, and nothing changes that before the next link is ready          *)
(* (disconnected_cb).                                                       *)
LostIsNeutral ==
    link # "ready" /\ HostIdle =>
        \A id \in {5, 9} : latest[id] = Made(id, Neutral)

(* Values of an axis at which normalize_axis turns.                         *)
Probes(c) ==
    {0, AxisMax} \cup
    UNION {{c - o, c + o} : o \in {0, deadzone, deadzone + 1, 800,
                                   PhysicalRange - 1, PhysicalRange}}

(* Sticks a calibration accepted work: at rest they are centred, both ends  *)
(* are reached within the controller's range, and pushing further never     *)
(* takes the reported value back, whatever reports were averaged and        *)
(* whatever dead zone the page has set since (update_calibration,           *)
(* normalize_axis).                                                         *)
SticksAreSane ==
    parser.calibrated =>
        \A a \in Axes :
            LET c == parser.center[a]
                N(v) == Normalize(v, c, deadzone)
            IN  /\ NearCenter(c)
                /\ N(c - deadzone) = AxisCenter /\ N(c + deadzone) = AxisCenter
                /\ N(c - PhysicalRange) = 0 /\ N(c + PhysicalRange) = AxisMax
                /\ \A v, w \in Probes(c) : v <= w => N(v) <= N(w)

(* The bits the controller means nothing by.                                *)
Known == {Fd2Bit[b] : b \in Buttons}

(* The host's own driver sees the buttons in the bits the controller sent   *)
(* them in, a generic gamepad the same buttons, and both the same sticks,   *)
(* y upwards in the generic report (decode_buttons and the tables of the    *)
(* two report makers).                                                      *)
ReportsAgree ==
    HostIdle =>
        /\ latest[5].bits = last \cap Known
        /\ Decoded(9, latest[9].bits) = DecodeButtons(last)
        /\ \A s \in {"left", "right"} :
             LET n == Unpack12(latest[5][s])
                 g == Unpack12(latest[9][s])
             IN  g.x = n.x /\ g.y = AxisMax - n.y
=============================================================================
