-------------------------- MODULE InputPath_proofs --------------------------
(***************************************************************************)
(* Proofs about InputPath for any reports of the controller, any dead      *)
(* zones and any length of a calibration.                                  *)
(***************************************************************************)
EXTENDS InputPath, TLAPS

(* A report with the buttons b and centred sticks.                           *)
Bare(id, b) == [bits |-> b, left |-> Center(id), right |-> Center(id),
                         motion |-> NoMotion]

(* What the report in the making holds, at each stage.                       *)
Building ==
    /\ build \in [id : {5, 9}, stage : Stages]
    /\ latest = [id \in {5, 9} |-> latest[id]]
    /\ build.stage = "center"  => latest[build.id] = Empty
    /\ build.stage = "buttons" => latest[build.id] = Bare(build.id, {})
    /\ build.stage = "axes" =>
         latest[build.id] = Bare(build.id, Bits(build.id, state))

(* Without a link in use the state is neutral, and so is what was built     *)
(* from it.                                                                 *)
NeutralBelow ==
    link # "ready" =>
        /\ state = Neutral
        /\ build.stage = "idle" \/ build.id = 9 => latest[5] = Made(5, Neutral)
        /\ build.stage = "idle" => latest[9] = Made(9, Neutral)

PathInv == Building /\ NeutralBelow

LEMMA PathInit == InputInit => PathInv
  BY DEF InputInit, PathInv, Building, NeutralBelow, Stages

(* What a step of the building changes.                                      *)
LEMMA ClearMakes ==
    ASSUME PathInv, Clear
    PROVE  /\ build' = [id |-> build.id, stage |-> "center"]
           /\ latest' = [latest EXCEPT ![build.id] = Empty]
  BY DEF PathInv, Building, Clear, At, Store

LEMMA CenterMakes ==
    ASSUME PathInv, CenterSticks
    PROVE  /\ build' = [id |-> build.id, stage |-> "buttons"]
           /\ latest' = [latest EXCEPT ![build.id] = Bare(build.id, {})]
  <1>1. build' = [id |-> build.id, stage |-> "buttons"]
    BY DEF PathInv, Building, CenterSticks, At
  <1>2. latest[build.id] = Empty
    BY DEF PathInv, Building, CenterSticks, At
  <1>3. [Empty EXCEPT !.left = Center(build.id), !.right = Center(build.id)]
          = Bare(build.id, {})
    <2> DEFINE c == Center(build.id)
               r == [Empty EXCEPT !.left = c, !.right = c]
    <2>1. r = [f \in DOMAIN Empty |-> IF f \in {"left", "right"} THEN c ELSE Empty[f]]
      BY DEF Empty
    <2>2. DOMAIN Empty = {"bits", "left", "right", "motion"}
      BY DEF Empty
    <2>3. /\ DOMAIN r = {"bits", "left", "right", "motion"}
          /\ r.bits = {} /\ r.left = c /\ r.right = c /\ r.motion = NoMotion
      BY <2>1, <2>2 DEF Empty
    <2> QED
      BY <2>1, <2>2, <2>3 DEF Bare
  <1> QED
    BY <1>1, <1>2, <1>3 DEF CenterSticks, Store

LEMMA BitsMakes ==
    ASSUME PathInv, SetBits
    PROVE  /\ build' = [id |-> build.id, stage |-> "axes"]
           /\ latest' =
                [latest EXCEPT ![build.id] = Bare(build.id, Bits(build.id, state))]
  <1>1. build' = [id |-> build.id, stage |-> "axes"]
    BY DEF PathInv, Building, SetBits, At
  <1>2. latest[build.id] = Bare(build.id, {})
    BY DEF PathInv, Building, SetBits, At
  <1>3. \A b : [Bare(build.id, {}) EXCEPT !.bits = @ \cup b] = Bare(build.id, b)
    BY DEF Bare
  <1> QED
    BY <1>1, <1>2, <1>3 DEF SetBits, Store

LEMMA AxesMakes ==
    ASSUME PathInv, SetAxes
    PROVE  latest' = [latest EXCEPT ![build.id] = Made(build.id, state)]
  <1>1. latest[build.id] = Bare(build.id, Bits(build.id, state))
    BY DEF PathInv, Building, SetAxes
  <1>2. \A b : Bare(build.id, b).bits = b
    BY DEF Bare
  <1>3. [Made(build.id, state) EXCEPT !.bits = Bits(build.id, state)]
          = Made(build.id, state)
    BY DEF Made
  <1> QED
    BY <1>1, <1>2, <1>3 DEF SetAxes, Store

LEMMA PathNext == PathInv /\ [InputNext]_inputVars => PathInv'
  <1> SUFFICES ASSUME PathInv, [InputNext]_inputVars PROVE PathInv'
    OBVIOUS
  <1> USE DEF PathInv, Building, NeutralBelow, HostIdle, Stages
  <1>1. CASE SetUp
    BY <1>1 DEF SetUp
  <1>2. CASE Ready
    BY <1>2 DEF Ready
  <1>3. ASSUME NEW d \in Inputs, Fd2Notify(d) PROVE PathInv'
    BY <1>3 DEF Fd2Notify, Submit
  <1>4. CASE Disconnected
    BY <1>4 DEF Disconnected, Submit
  <1>5. ASSUME NEW d \in Deadzones, SetDeadzone(d) PROVE PathInv'
    BY <1>5 DEF SetDeadzone
  <1>6. CASE Clear
    <2>1. UNCHANGED <<state, link>> /\ build.stage = "clear"
      BY <1>6 DEF Clear, Store, At
    <2>2. build'.id = build.id /\ build'.stage = "center"
      BY <1>6, ClearMakes
    <2>3. latest'[build'.id] = Empty
      BY <1>6, <2>2, ClearMakes
    <2> QED
      BY <1>6, <2>1, <2>2, <2>3, ClearMakes DEF Empty
  <1>7. CASE CenterSticks
    <2>1. UNCHANGED <<state, link>> /\ build.stage = "center"
      BY <1>7 DEF CenterSticks, Store, At
    <2>2. build'.id = build.id /\ build'.stage = "buttons"
      BY <1>7, CenterMakes
    <2>3. latest'[build'.id] = Bare(build'.id, {})
      BY <1>7, <2>2, CenterMakes
    <2> QED
      BY <1>7, <2>1, <2>2, <2>3, CenterMakes
  <1>8. CASE SetBits
    <2>1. UNCHANGED <<state, link>> /\ build.stage = "buttons"
      BY <1>8 DEF SetBits, Store, At
    <2>2. build.id \in {5, 9} /\ latest = [id \in {5, 9} |-> latest[id]]
      OBVIOUS
    <2>3. build'.id = build.id /\ build'.stage = "axes"
      BY <1>8, BitsMakes
    <2>4. latest'[build'.id] = Bare(build'.id, Bits(build'.id, state'))
      BY <1>8, <2>1, <2>2, <2>3, BitsMakes
    <2> QED
      BY <1>8, <2>1, <2>2, <2>4, BitsMakes DEF Bits
  <1>9. CASE SetAxes
    BY <1>9, AxesMakes DEF SetAxes, Store
  <1>10. CASE \/ \E id \in {5, 9} : CopyBegins(id)
              \/ CopyEnds
              \/ UNCHANGED inputVars
    BY <1>10 DEF CopyBegins, CopyEnds, inputVars
  <1> QED
    BY <1>1, <1>2, <1>3, <1>4, <1>5, <1>6, <1>7, <1>8, <1>9, <1>10
       DEF InputNext, BuildStep

(* Whatever the controller sent last, a lost link leaves both reports       *)
(* neutral until the next one is ready (disconnected_cb, setup_task).       *)
THEOREM LostReleases == InputSpec => []LostIsNeutral
  <1>1. PathInv => LostIsNeutral
    BY DEF PathInv, NeutralBelow, LostIsNeutral, HostIdle
  <1> QED
    BY PathInit, PathNext, <1>1, PTL DEF InputSpec

-----------------------------------------------------------------------------
(* Integer division.                                                        *)

LEMMA DivIs ==
    ASSUME NEW a \in Int, NEW b \in Int, NEW q \in Int,
           b > 0, q * b <= a, a < q * b + b
    PROVE  a \div b = q
  OBVIOUS

LEMMA DivMono ==
    ASSUME NEW a \in Int, NEW c \in Int, NEW b \in Int, b > 0, a <= c
    PROVE  a \div b \in Int /\ c \div b \in Int /\ a \div b <= c \div b
  OBVIOUS

LEMMA DivBetween ==
    ASSUME NEW a \in Int, NEW b \in Int, b > 0,
           NEW lo \in Int, NEW hi \in Int, lo * b <= a, a <= hi * b
    PROVE  a \div b \in lo..hi
  OBVIOUS

-----------------------------------------------------------------------------
(* normalize_axis with a dead zone that the settings accept.                *)

LEMMA ScaledInOrder ==
    ASSUME NEW dz \in Int, 0 <= dz, dz <= 512, NEW t \in {2047, 2048},
           NEW m \in Int, NEW n \in Int, dz <= m, m <= n
    PROVE  /\ Scaled(m, dz, t) \in Int /\ Scaled(n, dz, t) \in Int
           /\ 0 <= Scaled(m, dz, t) /\ Scaled(m, dz, t) <= Scaled(n, dz, t)
  <1> DEFINE u == 1600 - dz
             A(k) == (k - dz) * t + u \div 2
  <1>1. u \in Int /\ u > 0 /\ u \div 2 \in Int /\ u \div 2 >= 0
    OBVIOUS
  <1>2. A(m) \in Int /\ A(n) \in Int /\ 0 <= A(m) /\ A(m) <= A(n)
    <2>1. CASE t = 2047
      BY <1>1, <2>1
    <2>2. CASE t = 2048
      BY <1>1, <2>2
    <2> QED
      BY <2>1, <2>2
  <1>3. Scaled(m, dz, t) = A(m) \div u /\ Scaled(n, dz, t) = A(n) \div u
    BY DEF Scaled, PhysicalRange
  <1> HIDE DEF u, A
  <1>4. A(m) \div u \in Int /\ A(n) \div u \in Int /\ A(m) \div u <= A(n) \div u
    BY <1>1, <1>2, DivMono
  <1>5. 0 \div u = 0 /\ 0 \div u <= A(m) \div u
    BY <1>1, <1>2, DivMono, DivIs
  <1> QED
    BY <1>3, <1>4, <1>5

LEMMA ScaledAtEnd ==
    ASSUME NEW dz \in Int, 0 <= dz, dz <= 512, NEW t \in {2047, 2048}
    PROVE  Scaled(1600, dz, t) = t
  <1> DEFINE u == 1600 - dz
             h == u \div 2
  <1>1. u \in Int /\ u > 0 /\ h \in Int /\ 0 <= h /\ h < u
    OBVIOUS
  <1>2. Scaled(1600, dz, t) = (u * t + h) \div u
    BY DEF Scaled, PhysicalRange
  <1> HIDE DEF u, h
  <1>3. u * t = t * u /\ t * u \in Int
    BY <1>1
  <1>4. (t * u + h) \div u = t
    BY <1>1, <1>3, DivIs
  <1> QED
    BY <1>2, <1>3, <1>4

LEMMA ClippedInOrder ==
    ASSUME NEW dz \in Int, 0 <= dz, dz <= 512, NEW t \in {2047, 2048},
           NEW m \in Int, NEW n \in Int, dz <= m, m <= n
    PROVE  /\ Clipped(Scaled(m, dz, t), t) \in Int
           /\ Clipped(Scaled(n, dz, t), t) \in Int
           /\ 0 <= Clipped(Scaled(m, dz, t), t)
           /\ Clipped(Scaled(m, dz, t), t) <= Clipped(Scaled(n, dz, t), t)
  <1>1. /\ Scaled(m, dz, t) \in Int /\ Scaled(n, dz, t) \in Int
        /\ 0 <= Scaled(m, dz, t) /\ Scaled(m, dz, t) <= Scaled(n, dz, t)
    BY ScaledInOrder
  <1> QED
    BY <1>1 DEF Clipped

(* The axis, as SticksAreSane asks for it.                                   *)
LEMMA NormalizeEnds ==
    ASSUME NEW dz \in Int, 0 <= dz, dz <= 512, NEW c \in Int
    PROVE  /\ Normalize(c - dz, c, dz) = 2048 /\ Normalize(c + dz, c, dz) = 2048
           /\ Normalize(c - 1600, c, dz) = 0 /\ Normalize(c + 1600, c, dz) = 4095
  <1> USE DEF AxisCenter, AxisMax
  <1>1. Normalize(c - dz, c, dz) = 2048 /\ Normalize(c + dz, c, dz) = 2048
    BY DEF Normalize
  <1>2. Normalize(c - 1600, c, dz) = 0
    <2>1. c - 1600 - c = -1600 /\ c - (c - 1600) = 1600 /\ -1600 < -dz
      OBVIOUS
    <2>2. Normalize(c - 1600, c, dz) = 2048 - Clipped(Scaled(1600, dz, 2048), 2048)
      BY <2>1 DEF Normalize
    <2> QED
      BY <2>2, ScaledAtEnd DEF Clipped
  <1>3. Normalize(c + 1600, c, dz) = 4095
    <2>1. c + 1600 - c = 1600 /\ ~(1600 < -dz) /\ 1600 > dz
      OBVIOUS
    <2>2. Normalize(c + 1600, c, dz) = 2048 + Clipped(Scaled(1600, dz, 2047), 2047)
      BY <2>1 DEF Normalize
    <2> QED
      BY <2>2, ScaledAtEnd DEF Clipped
  <1> QED
    BY <1>1, <1>2, <1>3

LEMMA NormalizeInOrder ==
    ASSUME NEW dz \in Int, 0 <= dz, dz <= 512, NEW c \in Int,
           NEW v \in Int, NEW w \in Int, v <= w
    PROVE  Normalize(v, c, dz) <= Normalize(w, c, dz)
  <1> USE DEF AxisCenter, AxisMax
  <1> DEFINE Low(x)  == Clipped(Scaled(c - x, dz, 2048), 2048)
             High(x) == Clipped(Scaled(x - c, dz, 2047), 2047)
  <1>1. \A x \in Int :
          Normalize(x, c, dz) = IF x - c < -dz THEN 2048 - Low(x)
                                ELSE IF x - c > dz THEN 2048 + High(x) ELSE 2048
    BY DEF Normalize
  <1>2. ASSUME NEW x \in Int, NEW y \in Int, x <= y, y - c < -dz
        PROVE  /\ Low(x) \in Int /\ Low(y) \in Int
               /\ 0 <= Low(y) /\ Low(y) <= Low(x)
    <2> DEFINE m == c - y
               n == c - x
    <2>1. m \in Int /\ n \in Int /\ dz <= m /\ m <= n
      BY <1>2
    <2>2. 2048 \in {2047, 2048}
      OBVIOUS
    <2> HIDE DEF m, n
    <2>3. /\ Clipped(Scaled(m, dz, 2048), 2048) \in Int
          /\ Clipped(Scaled(n, dz, 2048), 2048) \in Int
          /\ 0 <= Clipped(Scaled(m, dz, 2048), 2048)
          /\ Clipped(Scaled(m, dz, 2048), 2048) <= Clipped(Scaled(n, dz, 2048), 2048)
      BY <2>1, <2>2, ClippedInOrder
    <2> QED
      BY <2>3 DEF m, n
  <1>3. ASSUME NEW x \in Int, NEW y \in Int, x <= y, x - c > dz
        PROVE  /\ High(x) \in Int /\ High(y) \in Int
               /\ 0 <= High(x) /\ High(x) <= High(y)
    <2> DEFINE m == x - c
               n == y - c
    <2>1. m \in Int /\ n \in Int /\ dz <= m /\ m <= n
      BY <1>3
    <2>2. 2047 \in {2047, 2048}
      OBVIOUS
    <2> HIDE DEF m, n
    <2>3. /\ Clipped(Scaled(m, dz, 2047), 2047) \in Int
          /\ Clipped(Scaled(n, dz, 2047), 2047) \in Int
          /\ 0 <= Clipped(Scaled(m, dz, 2047), 2047)
          /\ Clipped(Scaled(m, dz, 2047), 2047) <= Clipped(Scaled(n, dz, 2047), 2047)
      BY <2>1, <2>2, ClippedInOrder
    <2> QED
      BY <2>3 DEF m, n
  <1> HIDE DEF Low, High
  <1> QED
    BY <1>1, <1>2, <1>3

-----------------------------------------------------------------------------
ParserType == [calibrated : BOOLEAN, samples : Nat,
               sum : [Axes -> Int], center : [Axes -> Int]]

(* The calibration: while it runs, the sum of its samples is the sum of     *)
(* that many readings near the middle.                                      *)
CalibrationInv ==
    /\ deadzone \in Deadzones
    /\ parser \in ParserType
    /\ ~parser.calibrated =>
         \A a \in Axes : /\ 1792 * parser.samples <= parser.sum[a]
                         /\ parser.sum[a] <= 2304 * parser.samples
    /\ parser.calibrated => \A a \in Axes : parser.center[a] \in 1792..2304

LEMMA NewParserFine ==
    ASSUME deadzone \in Deadzones, parser = NewParser PROVE CalibrationInv
  BY DEF CalibrationInv, ParserType, NewParser, Centered, AxisCenter

LEMMA OneMore ==
    ASSUME NEW k \in Nat, NEW v \in Int, NEW r \in Int, 1792 <= r, r <= 2304,
           1792 * k <= v, v <= 2304 * k
    PROVE  1792 * (k + 1) <= v + r /\ v + r <= 2304 * (k + 1)
  OBVIOUS

LEMMA ReadingTyped ==
    ASSUME NEW d \in Inputs PROVE \A a \in Axes : Reading(d)[a] \in Int
  <1>1. \A i \in 1..3 : d.left[i] \in 0..255 /\ d.right[i] \in 0..255
    BY InputAssumption
  <1>2. ASSUME NEW p, \A i \in 1..3 : p[i] \in 0..255
        PROVE  Unpack12(p).x \in Int /\ Unpack12(p).y \in Int
    <2>1. p[1] \in Int /\ p[2] \in Int /\ p[3] \in Int
      BY <1>2
    <2>2. /\ Unpack12(p).x = p[1] + (p[2] % 16) * 256
          /\ Unpack12(p).y = (p[2] \div 16) + p[3] * 16
      BY DEF Unpack12
    <2> QED
      BY <2>1, <2>2
  <1>3. /\ Reading(d)["lx"] = Unpack12(d.left).x
        /\ Reading(d)["ly"] = Unpack12(d.left).y
        /\ Reading(d)["rx"] = Unpack12(d.right).x
        /\ Reading(d)["ry"] = Unpack12(d.right).y
    BY DEF Reading
  <1> QED
    BY <1>1, <1>2, <1>3 DEF Axes

LEMMA CalibratedFine ==
    ASSUME CalibrationInv, NEW d \in Inputs, parser' = Calibrated(parser, d),
           deadzone' \in Deadzones
    PROVE  CalibrationInv'
  <1> DEFINE r == Reading(d)
             n == parser.samples + 1
             sum == [a \in Axes |-> parser.sum[a] + r[a]]
  <1>0. parser \in ParserType
    BY DEF CalibrationInv
  <1>1. CASE parser.calibrated
    BY <1>1 DEF Calibrated, CalibrationInv
  <1>2. CASE ~parser.calibrated /\ ~Resting(d)
    <2> HIDE DEF r, n, sum
    <2>1. parser' = [parser EXCEPT !.samples = 0, !.sum = [a \in Axes |-> 0]]
      BY <1>2 DEF Calibrated, Restarted
    <2>2. 0 \in Nat /\ [a \in Axes |-> 0] \in [Axes -> Int]
      OBVIOUS
    <2>3. PICK s \in [Axes -> Int] : s = [a \in Axes |-> 0]
      BY <2>2
    <2>4. parser' = [parser EXCEPT !.samples = 0, !.sum = s]
      BY <2>1, <2>3
    <2>5. PICK z \in Nat : z = 0
      OBVIOUS
    <2>6. parser' = [parser EXCEPT !.samples = z, !.sum = s]
      BY <2>4, <2>5
    <2>7. ~parser.calibrated
      BY <1>2
    <2>8. /\ parser' \in ParserType
          /\ ~parser'.calibrated /\ parser'.samples = z /\ parser'.sum = s
      BY <1>0, <2>6, <2>7 DEF ParserType
    <2> QED
      BY <2>3, <2>5, <2>8 DEF CalibrationInv
  <1>3. CASE ~parser.calibrated /\ Resting(d)
    <2>1. \A a \in Axes : r[a] \in Int
      BY ReadingTyped
    <2>2. \A a \in Axes : r[a] \in 1792..2304
      BY <1>3, <2>1 DEF Resting, NearCenter, AxisCenter, CenterMaxDelta
    <2>3. /\ n \in Nat /\ n > 0 /\ sum \in [Axes -> Int]
          /\ \A a \in Axes : 1792 * n <= sum[a] /\ sum[a] <= 2304 * n
      <3> HIDE DEF r
      <3>1. \A a \in Axes : parser.sum[a] \in Int /\ parser.samples \in Nat
        BY DEF CalibrationInv, ParserType
      <3>2. \A a \in Axes : sum[a] = parser.sum[a] + r[a] /\ sum[a] \in Int
        BY <2>2, <3>1
      <3>3. \A a \in Axes : /\ 1792 * parser.samples <= parser.sum[a]
                            /\ parser.sum[a] <= 2304 * parser.samples
        BY <1>3 DEF CalibrationInv
      <3>4. n \in Nat /\ n > 0 /\ n = parser.samples + 1
        BY DEF CalibrationInv, ParserType
      <3>5. sum \in [Axes -> Int]
        BY <3>2
      <3> HIDE DEF n, sum
      <3>6. ASSUME NEW a \in Axes
            PROVE  1792 * n <= sum[a] /\ sum[a] <= 2304 * n
        <4>1. /\ r[a] \in 1792..2304 /\ sum[a] = parser.sum[a] + r[a]
              /\ parser.sum[a] \in Int /\ parser.samples \in Nat
              /\ 1792 * parser.samples <= parser.sum[a]
              /\ parser.sum[a] <= 2304 * parser.samples
          BY <2>2, <3>1, <3>2, <3>3
        <4>2. parser.samples + 1 = n /\ parser.sum[a] + r[a] = sum[a]
          BY <4>1, <3>4
        <4>3. /\ 1792 * (parser.samples + 1) <= parser.sum[a] + r[a]
              /\ parser.sum[a] + r[a] <= 2304 * (parser.samples + 1)
          <5>1. /\ r[a] \in Int /\ 1792 <= r[a] /\ r[a] <= 2304
            BY <4>1
          <5> QED
            BY <4>1, <5>1, OneMore
        <4> QED
          BY <4>2, <4>3
      <3> QED
        BY <3>4, <3>5, <3>6
    <2> HIDE DEF r, n, sum
    <2>4. CASE parser' = [parser EXCEPT !.samples = n, !.sum = sum]
      <3>1. PICK k \in Nat, s \in [Axes -> Int] : k = n /\ s = sum
        BY <2>3
      <3>2. parser' = [parser EXCEPT !.samples = k, !.sum = s]
        BY <2>4, <3>1
      <3>3. /\ parser' \in ParserType
            /\ ~parser'.calibrated /\ parser'.samples = k /\ parser'.sum = s
        BY <1>0, <1>3, <3>2 DEF ParserType
      <3> QED
        BY <2>3, <3>1, <3>3 DEF CalibrationInv
    <2>5. CASE parser' = [[parser EXCEPT !.samples = n, !.sum = sum]
                            EXCEPT !.calibrated = TRUE,
                                   !.center = [a \in Axes |-> sum[a] \div n]]
      <3>1. \A a \in Axes : sum[a] \div n \in 1792..2304
        BY <2>3, DivBetween
      <3>2. [a \in Axes |-> sum[a] \div n] \in [Axes -> Int]
        BY <3>1
      <3> DEFINE mean == [a \in Axes |-> sum[a] \div n]
      <3>3. \A a \in Axes : mean[a] \in 1792..2304
        BY <3>1
      <3> HIDE DEF mean
      <3>4. /\ parser' \in ParserType
            /\ parser'.calibrated = TRUE /\ parser'.center = mean
        <4>0. mean \in [Axes -> Int]
          BY <3>2 DEF mean
        <4>1. PICK k \in Nat, s, m \in [Axes -> Int] : k = n /\ s = sum /\ m = mean
          BY <2>3, <4>0
        <4>2. parser' = [parser EXCEPT !.samples = k, !.sum = s,
                                       !.calibrated = TRUE, !.center = m]
          BY <2>5, <4>1 DEF mean
        <4>3. /\ parser' \in ParserType
              /\ parser'.calibrated = TRUE /\ parser'.center = m
          BY <1>0, <4>2 DEF ParserType
        <4> QED
          BY <4>1, <4>3
      <3> QED
        BY <3>3, <3>4 DEF CalibrationInv
    <2> QED
      BY <1>3, <2>4, <2>5 DEF Calibrated, r, n, sum
  <1> QED
    BY <1>1, <1>2, <1>3

LEMMA CalibrationNext ==
    CalibrationInv /\ [InputNext]_inputVars => CalibrationInv'
  <1> SUFFICES ASSUME CalibrationInv, [InputNext]_inputVars PROVE CalibrationInv'
    OBVIOUS
  <1>1. CASE SetUp
    BY <1>1, NewParserFine DEF SetUp, CalibrationInv, ParserType, NewParser, Centered, AxisCenter
  <1>2. ASSUME NEW d \in Inputs, Fd2Notify(d) PROVE CalibrationInv'
    <2>1. parser' = Calibrated(parser, d) /\ deadzone' = deadzone
      BY <1>2, Zenon DEF Fd2Notify
    <2>2. deadzone' \in Deadzones
      BY <2>1 DEF CalibrationInv
    <2> QED
      BY <2>1, <2>2, CalibratedFine, Zenon
  <1>3. ASSUME NEW d \in Deadzones, SetDeadzone(d) PROVE CalibrationInv'
    BY <1>3 DEF SetDeadzone, CalibrationInv
  <1>4. UNCHANGED <<parser, deadzone>> => CalibrationInv'
    BY DEF CalibrationInv
  <1>5. CASE Ready \/ Disconnected \/ BuildStep \/ CopyEnds \/ UNCHANGED inputVars
             \/ \E id \in {5, 9} : CopyBegins(id)
    BY <1>4, <1>5 DEF Ready, Disconnected, BuildStep, Clear, CenterSticks, SetBits,
                      SetAxes, Store, CopyEnds, CopyBegins, inputVars
  <1> QED
    BY <1>1, <1>2, <1>3, <1>5 DEF InputNext

(* Whatever reports were averaged, however many, and whatever dead zone is  *)
(* set: a calibrated stick is centred at rest, reaches both ends within the *)
(* controller's range and never goes back (update_calibration,              *)
(* normalize_axis).                                                         *)
THEOREM SticksSane == InputSpec => []SticksAreSane
  <1>1. InputInit => CalibrationInv
    BY NewParserFine DEF InputInit
  <1>2. CalibrationInv => SticksAreSane
    <2> SUFFICES ASSUME CalibrationInv, parser.calibrated, NEW a \in Axes
                 PROVE  LET c == parser.center[a]
                            N(v) == Normalize(v, c, deadzone)
                        IN  /\ NearCenter(c)
                            /\ N(c - deadzone) = AxisCenter
                            /\ N(c + deadzone) = AxisCenter
                            /\ N(c - PhysicalRange) = 0
                            /\ N(c + PhysicalRange) = AxisMax
                            /\ \A v, w \in Probes(c) : v <= w => N(v) <= N(w)
      BY DEF SticksAreSane
    <2>1. /\ parser.center[a] \in 1792..2304
          /\ deadzone \in Int /\ 0 <= deadzone /\ deadzone <= 512
      BY InputAssumption DEF CalibrationInv
    <2>2. NearCenter(parser.center[a])
      BY <2>1 DEF NearCenter, AxisCenter, CenterMaxDelta
    <2>3. Probes(parser.center[a]) \subseteq Int
      <3> DEFINE c == parser.center[a]
                 O == {0, deadzone, deadzone + 1, 800, PhysicalRange - 1, PhysicalRange}
      <3>0. c \in Int /\ O \subseteq Int
        BY <2>1 DEF PhysicalRange
      <3>1. \A o \in Int : {c - o, c + o} \subseteq Int
        BY <3>0
      <3>2. Probes(c) = {0, AxisMax} \cup UNION {{c - o, c + o} : o \in O}
        BY DEF Probes
      <3> HIDE DEF c, O
      <3> QED
        BY <3>0, <3>1, <3>2 DEF AxisMax, c
    <2> DEFINE c == parser.center[a]
    <2>4. c \in Int
      BY <2>1
    <2> HIDE DEF c
    <2>5. /\ Normalize(c - deadzone, c, deadzone) = 2048
          /\ Normalize(c + deadzone, c, deadzone) = 2048
          /\ Normalize(c - 1600, c, deadzone) = 0
          /\ Normalize(c + 1600, c, deadzone) = 4095
          /\ \A v, w \in Int :
               v <= w => Normalize(v, c, deadzone) <= Normalize(w, c, deadzone)
      <3>1. deadzone \in Int /\ 0 <= deadzone /\ deadzone <= 512
        BY <2>1
      <3> QED
        <4>1. PICK z, k \in Int : z = deadzone /\ k = c
          BY <2>4, <3>1
        <4>2. 0 <= z /\ z <= 512
          BY <3>1, <4>1
        <4>3. /\ Normalize(k - z, k, z) = 2048 /\ Normalize(k + z, k, z) = 2048
              /\ Normalize(k - 1600, k, z) = 0 /\ Normalize(k + 1600, k, z) = 4095
          BY <4>2, NormalizeEnds
        <4>4. ASSUME NEW v \in Int, NEW w \in Int, v <= w
              PROVE  Normalize(v, k, z) <= Normalize(w, k, z)
          BY <4>2, <4>4, NormalizeInOrder
        <4> QED
          BY <4>1, <4>3, <4>4
    <2>6. \A v, w \in Probes(c) :
             v <= w => Normalize(v, c, deadzone) <= Normalize(w, c, deadzone)
      <3>1. Probes(c) \subseteq Int
        BY <2>3 DEF c
      <3> QED
        BY <2>5, <3>1
    <2> QED
      BY <2>2, <2>5, <2>6 DEF AxisCenter, AxisMax, PhysicalRange, c
  <1> QED
    BY <1>1, <1>2, CalibrationNext, PTL DEF InputSpec

-----------------------------------------------------------------------------
(* The tables and the packing of the two reports.                           *)

(* What a stick of a report reads as.                                       *)
LEMMA StickReads ==
    ASSUME NEW x \in 0..AxisMax, NEW y \in 0..AxisMax, NEW id \in {5, 9}
    PROVE  Unpack12(Stick(id, x, y)) = [x |-> x, y |-> Y(id, y)]
  <1> DEFINE v    == Y(id, y)
             low  == x % 256
             mid  == ((x \div 256) % 16) + (v % 16) * 16
             high == (v \div 16) % 256
  <1>1. v \in 0..4095 /\ x \in 0..4095
    BY DEF Y, AxisMax
  <1>2. Stick(id, x, y) = <<low, mid, high>>
    BY DEF Stick, Pack12
  <1> HIDE DEF v
  <1>3. low + (mid % 16) * 256 = x /\ (mid \div 16) + high * 16 = v
    BY <1>1
  <1> HIDE DEF low, mid, high
  <1> QED
    BY <1>2, <1>3 DEF Unpack12, v

(* Report 0x05 has each button at the bit the controller sent it in.        *)
LEMMA SameBit ==
    \A b \in Buttons : /\ 8 * NativeByte[b] + NativeMask[b] = Fd2Bit[b]
                       /\ Fd2Bit[b] \in 0..25
  BY DEF Buttons, NativeByte, NativeMask, Fd2Bit

LEMMA NativeIsSent ==
    ASSUME NEW bits PROVE NativeBits(DecodeButtons(bits)) = bits \cap Known
  BY SameBit DEF NativeBits, DecodeButtons, Known

(* Report 0x09 has every button once.                                       *)
LEMMA OrderCovers ==
    /\ DOMAIN GenericOrder = 1..21
    /\ \A i \in 1..21 : GenericOrder[i] \in Buttons
    /\ \A b \in Buttons : \E i \in 1..21 : GenericOrder[i] = b
  BY DEF Buttons, Fd2Bit, GenericOrder

LEMMA GenericIsDecoded ==
    ASSUME NEW B \in SUBSET Buttons PROVE Decoded(9, GenericBits(B)) = B
  <1> DEFINE J == {j \in 1..21 : GenericOrder[j] \in B}
             M == GenericBits(B)
  <1>1. M = {i - 1 : i \in J}
    BY OrderCovers DEF GenericBits
  <1>2. Decoded(9, M) = {GenericOrder[i + 1] : i \in M}
    BY DEF Decoded
  <1> HIDE DEF M
  <1>3. \A j \in J : (j - 1) + 1 = j /\ j - 1 \in M
    BY <1>1
  <1>4. \A i \in M : i + 1 \in J
    BY <1>1
  <1>5. \A b \in B : \E j \in J : GenericOrder[j] = b
    BY OrderCovers
  <1>6. ASSUME NEW b \in B PROVE b \in Decoded(9, M)
    <2>1. PICK j \in J : GenericOrder[j] = b
      BY <1>5
    <2>2. PICK i \in M : i + 1 = j
      BY <1>3
    <2> QED
      BY <1>2, <2>1, <2>2
  <1>7. Decoded(9, M) \subseteq B
    BY <1>2, <1>4
  <1> QED
    BY <1>6, <1>7 DEF M

LEMMA DecodeNative ==
    ASSUME NEW bits PROVE Decoded(5, bits \cap Known) = DecodeButtons(bits)
  BY DEF Decoded, DecodeButtons, Known

(* Both reports of a state, read back.                                      *)
LEMMA BitsDecode ==
    ASSUME NEW bits, NEW id \in {5, 9}, NEW s, s.buttons = DecodeButtons(bits)
    PROVE  Decoded(id, Bits(id, s)) = DecodeButtons(bits)
  <1>1. DecodeButtons(bits) \in SUBSET Buttons
    BY DEF DecodeButtons
  <1>2. CASE id = 5
    BY <1>2, NativeIsSent, DecodeNative DEF Bits
  <1>3. CASE id = 9
    BY <1>1, <1>3, GenericIsDecoded DEF Bits
  <1> QED
    BY <1>2, <1>3

LEMMA BitsFit ==
    ASSUME NEW s, s.buttons \subseteq Buttons, NEW id \in {5, 9}
    PROVE  Bits(id, s) \subseteq 0..25
  <1>1. NativeBits(s.buttons) \subseteq 0..25
    BY SameBit DEF NativeBits
  <1>2. GenericBits(s.buttons) \subseteq 0..25
    BY OrderCovers DEF GenericBits
  <1> QED
    BY <1>1, <1>2 DEF Bits

(* The sticks of both reports of a state: the same, y turned over.          *)
SameSticks(native, generic) ==
    \A s \in {"left", "right"} :
        /\ Unpack12(generic[s]).x = Unpack12(native[s]).x
        /\ Unpack12(generic[s]).y = AxisMax - Unpack12(native[s]).y

LEMMA SticksMade ==
    ASSUME NEW s, \A a \in Axes : s.axes[a] \in 0..AxisMax
    PROVE  SameSticks(Made(5, s), Made(9, s))
  <1>1. ASSUME NEW x \in 0..AxisMax, NEW y \in 0..AxisMax
        PROVE  /\ Unpack12(Stick(9, x, y)).x = Unpack12(Stick(5, x, y)).x
               /\ Unpack12(Stick(9, x, y)).y = AxisMax - Unpack12(Stick(5, x, y)).y
    <2>1. /\ Unpack12(Stick(5, x, y)) = [x |-> x, y |-> Y(5, y)]
          /\ Unpack12(Stick(9, x, y)) = [x |-> x, y |-> Y(9, y)]
      BY StickReads
    <2>2. Y(5, y) = y /\ Y(9, y) = AxisMax - y
      BY DEF Y
    <2> QED
      BY <2>1, <2>2
  <1>2. \A id \in {5, 9} :
           /\ Made(id, s)["left"] = Stick(id, s.axes["lx"], s.axes["ly"])
           /\ Made(id, s)["right"] = Stick(id, s.axes["rx"], s.axes["ry"])
    BY DEF Made
  <1>3. /\ s.axes["lx"] \in 0..AxisMax /\ s.axes["ly"] \in 0..AxisMax
        /\ s.axes["rx"] \in 0..AxisMax /\ s.axes["ry"] \in 0..AxisMax
    BY DEF Axes
  <1>4. PICK lx, ly, rx, ry \in 0..AxisMax :
          /\ lx = s.axes["lx"] /\ ly = s.axes["ly"]
          /\ rx = s.axes["rx"] /\ ry = s.axes["ry"]
    BY <1>3
  <1> QED
    BY <1>1, <1>2, <1>4 DEF SameSticks

-----------------------------------------------------------------------------
(* What the parser makes of a report, and how far the calibration is.       *)

ParserFits ==
    /\ parser.samples \in 0..Count
    /\ ~parser.calibrated => parser.samples < Count /\ parser.center = Centered
    /\ state.buttons \subseteq Buttons
    /\ \A a \in Axes : state.axes[a] \in 0..AxisMax

(* A submitted state is what the buttons sent last say, report 0x05 has it  *)
(* when report 0x09 is made, and then both have it.                         *)
Submitted ==
    /\ build.stage # "idle" => state.buttons = DecodeButtons(last)
    /\ build.id = 9 => build.stage # "idle" /\ latest[5] = Made(5, state)
    /\ HostIdle => /\ latest[5].bits = last \cap Known
                   /\ latest[9].bits = GenericBits(DecodeButtons(last))
                   /\ SameSticks(latest[5], latest[9])

(* What may still be read of a report is of recent states.                  *)
OfRecent ==
    /\ DecodeButtons(last) \subseteq recent
    /\ \A id \in {5, 9} : Decoded(id, latest[id].bits) \subseteq recent
    /\ copy = NoCopy \/ /\ copy.id \in {5, 9}
                        /\ Decoded(copy.id, copy.old) \subseteq recent

(* Every bit of a report is that of a button.                               *)
BitsTyped ==
    /\ \A id \in {5, 9} : latest[id].bits \subseteq 0..25
    /\ copy.id \in {0, 5, 9} /\ copy.old \subseteq 0..25
    /\ recent \subseteq Buttons
    /\ link \in {"down", "up", "ready"}
    /\ last \in {d.bits : d \in Inputs} \cup {{}}
LEMMA ClippedFits ==
    ASSUME NEW dz \in Int, 0 <= dz, dz <= 512, NEW t \in {2047, 2048},
           NEW m \in Int, dz <= m
    PROVE  /\ Clipped(Scaled(m, dz, t), t) \in Int
           /\ 0 <= Clipped(Scaled(m, dz, t), t) /\ Clipped(Scaled(m, dz, t), t) <= t
  <1>1. Scaled(m, dz, t) \in Int /\ 0 <= Scaled(m, dz, t)
    BY ScaledInOrder
  <1> QED
    BY <1>1 DEF Clipped

LEMMA NormalizeFits ==
    ASSUME NEW dz \in Int, 0 <= dz, dz <= 512, NEW c \in Int, NEW v \in Int
    PROVE  Normalize(v, c, dz) \in 0..AxisMax
  <1> USE DEF AxisCenter, AxisMax
  <1>1. CASE v - c < -dz
    <2> DEFINE m == c - v
               low == Clipped(Scaled(m, dz, 2048), 2048)
    <2>1. m \in Int /\ dz <= m /\ 2048 \in {2047, 2048}
      BY <1>1
    <2>2. Normalize(v, c, dz) = 2048 - low
      BY <1>1 DEF Normalize
    <2> HIDE DEF m
    <2>3. low \in Int /\ 0 <= low /\ low <= 2048
      BY <2>1, ClippedFits
    <2> HIDE DEF low
    <2> QED
      BY <2>2, <2>3
  <1>2. CASE v - c > dz
    <2> DEFINE m == v - c
               high == Clipped(Scaled(m, dz, 2047), 2047)
    <2>1. m \in Int /\ dz <= m /\ 2047 \in {2047, 2048}
      BY <1>2
    <2>2. Normalize(v, c, dz) = 2048 + high
      BY <1>2 DEF Normalize
    <2> HIDE DEF m
    <2>3. high \in Int /\ 0 <= high /\ high <= 2047
      BY <2>1, ClippedFits
    <2> HIDE DEF high
    <2> QED
      BY <2>2, <2>3
  <1>3. CASE ~(v - c < -dz) /\ ~(v - c > dz)
    BY <1>3 DEF Normalize
  <1> QED
    BY <1>1, <1>2, <1>3

(* The series of a calibration is never as long as Count, and the centre is *)
(* the middle until it is accepted.                                         *)
LEMMA SeriesFits ==
    ASSUME CalibrationInv, ParserFits, NEW d \in Inputs,
           parser' = Calibrated(parser, d)
    PROVE  /\ parser'.samples \in 0..Count
           /\ ~parser'.calibrated => parser'.samples < Count /\ parser'.center = Centered
  <1>0. /\ parser \in ParserType /\ parser.samples \in 0..Count
        /\ ~parser.calibrated => parser.samples < Count /\ parser.center = Centered
        /\ Count \in Nat /\ Count > 0
    BY InputAssumption DEF ParserFits, CalibrationInv
  <1>1. CASE parser.calibrated
    BY <1>0, <1>1 DEF Calibrated
  <1>2. CASE ~parser.calibrated /\ ~Resting(d)
    BY <1>0, <1>2 DEF Calibrated, Restarted, ParserType
  <1>3. CASE ~parser.calibrated /\ Resting(d)
    <2> DEFINE n   == parser.samples + 1
               sum == [a \in Axes |-> parser.sum[a] + Reading(d)[a]]
               q   == [parser EXCEPT !.samples = n, !.sum = sum]
    <2>1. n \in 0..Count
      BY <1>0, <1>3
    <2> HIDE DEF n, sum
    <2>2. /\ q.samples = n /\ q.center = parser.center
          /\ q.calibrated = parser.calibrated
      BY <1>0 DEF ParserType
    <2>3. parser' = IF n < Count THEN q
                    ELSE [q EXCEPT !.calibrated = TRUE,
                                   !.center = [a \in Axes |-> sum[a] \div n]]
      BY <1>3 DEF Calibrated, n, sum
    <2>4. CASE n < Count
      BY <1>0, <1>3, <2>1, <2>2, <2>3, <2>4
    <2>5. CASE ~(n < Count)
      <3>1. parser' = [parser EXCEPT !.samples = n, !.sum = sum,
                         !.calibrated = TRUE, !.center = [a \in Axes |-> sum[a] \div n]]
        BY <2>3, <2>5
      <3>2. parser'.samples = n /\ parser'.calibrated = TRUE
        BY <1>0, <3>1 DEF ParserType
      <3> QED
        BY <2>1, <3>2
    <2> QED
      BY <2>4, <2>5
  <1> QED
    BY <1>1, <1>2, <1>3

LEMMA ParsedFits ==
    ASSUME deadzone \in Deadzones, NEW d \in Inputs, NEW p, p \in ParserType
    PROVE  /\ Parsed(p, d).buttons = DecodeButtons(d.bits)
           /\ \A a \in Axes : Parsed(p, d).axes[a] \in 0..AxisMax
  <1>1. Parsed(p, d).buttons = DecodeButtons(d.bits)
    BY DEF Parsed
  <1>2. ASSUME NEW a \in Axes PROVE Parsed(p, d).axes[a] \in 0..AxisMax
    <2>1. Parsed(p, d).axes[a] =
            IF p.calibrated THEN Normalize(Reading(d)[a], p.center[a], deadzone)
            ELSE AxisCenter
      BY DEF Parsed, Centered
    <2>2. AxisCenter \in 0..AxisMax
      BY DEF AxisCenter, AxisMax
    <2>3. Reading(d)[a] \in Int /\ p.center[a] \in Int
      BY ReadingTyped DEF ParserType
    <2>4. deadzone \in Int /\ 0 <= deadzone /\ deadzone <= 512
      BY InputAssumption
    <2>5. Normalize(Reading(d)[a], p.center[a], deadzone) \in 0..AxisMax
      BY <2>3, <2>4, NormalizeFits
    <2> QED
      BY <2>1, <2>2, <2>5
  <1> QED
    BY <1>1, <1>2

LEMMA NeutralFits ==
    /\ Neutral.buttons = {} /\ \A a \in Axes : Neutral.axes[a] \in 0..AxisMax
  BY DEF Neutral, Centered, AxisCenter, AxisMax

LEMMA ParserFitsNext ==
    CalibrationInv /\ ParserFits /\ [InputNext]_inputVars => ParserFits'
  <1> SUFFICES ASSUME CalibrationInv, ParserFits, [InputNext]_inputVars
               PROVE  ParserFits'
    OBVIOUS
  <1>0. CalibrationInv'
    BY CalibrationNext
  <1>1. CASE SetUp
    <2>1. parser' = NewParser /\ state' = Neutral
      BY <1>1 DEF SetUp
    <2>2. /\ NewParser.samples = 0 /\ NewParser.center = Centered
          /\ 0 \in 0..Count /\ 0 < Count
      BY InputAssumption DEF NewParser
    <2> QED
      BY <2>1, <2>2, NeutralFits DEF ParserFits
  <1>2. ASSUME NEW d \in Inputs, Fd2Notify(d) PROVE ParserFits'
    <2>1. parser' = Calibrated(parser, d) /\ state' = Parsed(parser', d)
      BY <1>2 DEF Fd2Notify, Submit
    <2>2. deadzone \in Deadzones /\ parser' \in ParserType
      BY <1>0 DEF CalibrationInv
    <2>3. /\ state'.buttons = DecodeButtons(d.bits)
          /\ \A a \in Axes : state'.axes[a] \in 0..AxisMax
      BY <2>1, <2>2, ParsedFits
    <2>4. DecodeButtons(d.bits) \subseteq Buttons
      BY DEF DecodeButtons
    <2> QED
      BY <2>1, <2>3, <2>4, SeriesFits DEF ParserFits
  <1>3. CASE Disconnected
    <2>1. parser' = parser /\ state' = Neutral
      BY <1>3 DEF Disconnected, Submit
    <2> QED
      BY <2>1, NeutralFits DEF ParserFits
  <1>4. UNCHANGED <<parser, state>> => ParserFits'
    BY DEF ParserFits
  <1>5. CASE \/ Ready \/ BuildStep \/ CopyEnds \/ UNCHANGED inputVars
             \/ \E d \in Deadzones : SetDeadzone(d)
             \/ \E id \in {5, 9} : CopyBegins(id)
    BY <1>4, <1>5 DEF Ready, SetDeadzone, BuildStep, Clear, CenterSticks, SetBits,
                      SetAxes, Store, CopyEnds, CopyBegins, inputVars
  <1> QED
    BY <1>1, <1>2, <1>3, <1>5 DEF InputNext
-----------------------------------------------------------------------------
(* From a submitted state to both reports, and to what is copied of them.   *)

LEMMA MadeBits ==
    \A id \in {5, 9} : \A s, b :
        Made(id, s).bits = Bits(id, s) /\ Bare(id, b).bits = b /\ Empty.bits = {}
  BY DEF Made, Bare, Empty

LEMMA SubmittedNext ==
    ParserFits /\ PathInv /\ Submitted /\ [InputNext]_inputVars => Submitted'
  <1> SUFFICES ASSUME ParserFits, PathInv, Submitted, [InputNext]_inputVars
               PROVE  Submitted'
    OBVIOUS
  <1>0. build.id \in {5, 9} /\ latest = [id \in {5, 9} |-> latest[id]]
    BY DEF PathInv, Building
  <1>1. CASE SetUp
    BY <1>1 DEF SetUp, Submitted, HostIdle
  <1>2. ASSUME NEW s, NEW bits, Submit(s), HostIdle, s.buttons = DecodeButtons(bits),
               last' = bits
        PROVE  Submitted'
    BY <1>2 DEF Submit, Submitted, HostIdle
  <1>3. ASSUME NEW d \in Inputs, Fd2Notify(d) PROVE Submitted'
    <2>1. Parsed(parser', d).buttons = DecodeButtons(d.bits)
      BY DEF Parsed
    <2> QED
      BY <1>2, <1>3, <2>1 DEF Fd2Notify
  <1>4. CASE Disconnected
    <2>1. Neutral.buttons = DecodeButtons({})
      BY DEF Neutral, DecodeButtons
    <2> QED
      BY <1>2, <1>4, <2>1 DEF Disconnected
  <1>5. CASE Clear
    <2>1. /\ build.stage = "clear" /\ UNCHANGED <<state, last>>
          /\ build' = [id |-> build.id, stage |-> "center"]
          /\ latest' = [latest EXCEPT ![build.id] = Empty]
      BY <1>5, ClearMakes DEF Clear, At, Store
    <2> QED
      BY <1>0, <2>1 DEF Submitted, HostIdle
  <1>6. CASE CenterSticks
    <2>1. /\ build.stage = "center" /\ UNCHANGED <<state, last>>
          /\ build' = [id |-> build.id, stage |-> "buttons"]
          /\ latest' = [latest EXCEPT ![build.id] = Bare(build.id, {})]
      BY <1>6, CenterMakes DEF CenterSticks, At, Store
    <2> QED
      BY <1>0, <2>1 DEF Submitted, HostIdle
  <1>7. CASE SetBits
    <2>1. /\ build.stage = "buttons" /\ UNCHANGED <<state, last>>
          /\ build' = [id |-> build.id, stage |-> "axes"]
          /\ latest' =
               [latest EXCEPT ![build.id] = Bare(build.id, Bits(build.id, state))]
      BY <1>7, BitsMakes DEF SetBits, At, Store
    <2> QED
      BY <1>0, <2>1 DEF Submitted, HostIdle
  <1>8. CASE SetAxes
    <2>1. /\ build.stage = "axes" /\ UNCHANGED <<state, last>>
          /\ latest' = [latest EXCEPT ![build.id] = Made(build.id, state)]
          /\ build' = IF build.id = 5 THEN [id |-> 9, stage |-> "clear"]
                                      ELSE [id |-> 5, stage |-> "idle"]
      BY <1>8, AxesMakes DEF SetAxes, Store
    <2>2. state.buttons = DecodeButtons(last)
      BY <2>1 DEF Submitted
    <2>3. CASE build.id = 5
      BY <1>0, <2>1, <2>2, <2>3 DEF Submitted, HostIdle
    <2>4. CASE build.id = 9
      <3>1. latest'[5] = Made(5, state) /\ latest'[9] = Made(9, state)
        BY <1>0, <2>1, <2>4 DEF Submitted
      <3>2. /\ Made(5, state).bits = last \cap Known
            /\ Made(9, state).bits = GenericBits(DecodeButtons(last))
        BY <2>2, MadeBits, NativeIsSent DEF Bits
      <3>3. SameSticks(latest'[5], latest'[9])
        BY <3>1, SticksMade DEF ParserFits
      <3>4. build'.id = 5 /\ last' = last
        BY <2>1, <2>4
      <3> QED
        BY <2>1, <2>4, <3>1, <3>2, <3>3 DEF Submitted, HostIdle
    <2> QED
      BY <1>0, <2>3, <2>4
  <1>9. CASE \/ Ready \/ CopyEnds \/ UNCHANGED inputVars
             \/ \E d \in Deadzones : SetDeadzone(d)
             \/ \E id \in {5, 9} : CopyBegins(id)
    <2>1. UNCHANGED <<state, last, build, latest>>
      BY <1>9 DEF Ready, SetDeadzone, CopyEnds, CopyBegins, inputVars
    <2> QED
      BY <2>1 DEF Submitted, HostIdle
  <1> QED
    BY <1>1, <1>3, <1>4, <1>5, <1>6, <1>7, <1>8, <1>9 DEF InputNext, BuildStep

(* What is read of a report while it is made: nothing, or the buttons of    *)
(* the state.                                                               *)
LEMMA ReadDuring ==
    ASSUME PathInv, Submitted, BuildStep
    PROVE  /\ UNCHANGED <<link, last, recent, copy>>
           /\ \A id \in {5, 9} :
                latest'[id].bits \in {latest[id].bits, {}, Bits(id, state)}
           /\ state.buttons = DecodeButtons(last)
  <1>0. build.id \in {5, 9} /\ latest = [id \in {5, 9} |-> latest[id]]
    BY DEF PathInv, Building
  <1>1. UNCHANGED <<link, last, recent, copy>> /\ build.stage # "idle"
    BY DEF BuildStep, Clear, CenterSticks, SetBits, SetAxes, At, Store
  <1>2. \/ latest' = [latest EXCEPT ![build.id] = Empty]
        \/ latest' = [latest EXCEPT ![build.id] = Bare(build.id, {})]
        \/ latest' = [latest EXCEPT ![build.id] = Bare(build.id, Bits(build.id, state))]
        \/ latest' = [latest EXCEPT ![build.id] = Made(build.id, state)]
    BY ClearMakes, CenterMakes, BitsMakes, AxesMakes DEF BuildStep
  <1>3. \E r : /\ latest' = [latest EXCEPT ![build.id] = r]
               /\ r.bits \in {{}, Bits(build.id, state)}
    BY <1>0, <1>2, MadeBits
  <1> QED
    BY <1>0, <1>1, <1>3 DEF Submitted

LEMMA DecodedIsUnion ==
    ASSUME NEW id \in {5, 9}
    PROVE  /\ Decoded(id, {}) = {}
           /\ \A A, B : A \subseteq B => Decoded(id, A) \subseteq Decoded(id, B)
           /\ \A A, B : Decoded(id, A \cup B) = Decoded(id, A) \cup Decoded(id, B)
  BY DEF Decoded, DecodeButtons

LEMMA IdleDecodes ==
    ASSUME Submitted, HostIdle, NEW id \in {5, 9}
    PROVE  Decoded(id, latest[id].bits) = DecodeButtons(last)
  <1>1. DecodeButtons(last) \in SUBSET Buttons
    BY DEF DecodeButtons
  <1> QED
    BY <1>1, DecodeNative, GenericIsDecoded DEF Submitted

LEMMA OfRecentNext ==
    ASSUME PathInv, Submitted, OfRecent, [InputNext]_inputVars
    PROVE  OfRecent'
  <1>1. ASSUME NEW s, NEW bits, Submit(s), HostIdle, s.buttons = DecodeButtons(bits),
               last' = bits, UNCHANGED <<latest, copy>>
        PROVE  OfRecent'
    <2>1. CASE copy = NoCopy
      BY <1>1, <2>1, IdleDecodes DEF Submit, OfRecent
    <2>2. CASE copy # NoCopy
      BY <1>1, <2>2 DEF Submit, OfRecent
    <2> QED
      BY <2>1, <2>2
  <1>2. ASSUME NEW d \in Inputs, Fd2Notify(d) PROVE OfRecent'
    <2>1. Parsed(parser', d).buttons = DecodeButtons(d.bits)
      BY DEF Parsed
    <2> QED
      BY <1>1, <1>2, <2>1 DEF Fd2Notify
  <1>3. CASE Disconnected
    <2>1. Neutral.buttons = DecodeButtons({})
      BY DEF Neutral, DecodeButtons
    <2> QED
      BY <1>1, <1>3, <2>1 DEF Disconnected
  <1>4. CASE BuildStep
    <2>1. \A id \in {5, 9} : Decoded(id, Bits(id, state)) = DecodeButtons(last)
      BY <1>4, ReadDuring, BitsDecode
    <2>2. \A id \in {5, 9} : Decoded(id, {}) = {}
      BY DecodedIsUnion
    <2> QED
      BY <1>4, <2>1, <2>2, ReadDuring DEF OfRecent
  <1>5. ASSUME NEW id \in {5, 9}, CopyBegins(id) PROVE OfRecent'
    <2>1. /\ UNCHANGED <<last, latest>> /\ recent' = DecodeButtons(last)
          /\ copy'.id = id /\ copy'.old = latest[id].bits
      BY <1>5 DEF CopyBegins
    <2>2. \A i \in {5, 9} : Decoded(i, latest[i].bits) = DecodeButtons(last)
      BY <1>5, IdleDecodes DEF CopyBegins
    <2> QED
      BY <2>1, <2>2 DEF OfRecent
  <1>6. CASE CopyEnds
    BY <1>6 DEF CopyEnds, OfRecent
  <1>7. CASE SetUp \/ Ready \/ UNCHANGED inputVars \/ \E d \in Deadzones : SetDeadzone(d)
    BY <1>7 DEF SetUp, Ready, SetDeadzone, inputVars, OfRecent
  <1> QED
    BY <1>2, <1>3, <1>4, <1>5, <1>6, <1>7 DEF InputNext

LEMMA BitsTypedNext ==
    ASSUME PathInv, ParserFits, Submitted, BitsTyped, [InputNext]_inputVars
    PROVE  BitsTyped'
  <1>0. /\ DecodeButtons(last) \subseteq Buttons
        /\ \A bits : DecodeButtons(bits) \subseteq Buttons
    BY DEF DecodeButtons
  <1>1. ASSUME NEW d \in Inputs, Fd2Notify(d) PROVE BitsTyped'
    <2>1. Parsed(parser', d).buttons = DecodeButtons(d.bits)
      BY DEF Parsed
    <2> QED
      BY <1>0, <1>1, <2>1 DEF Fd2Notify, Submit, BitsTyped
  <1>2. CASE Disconnected
    BY <1>0, <1>2, NeutralFits DEF Disconnected, Submit, BitsTyped
  <1>3. CASE BuildStep
    <2>1. \A id \in {5, 9} : Bits(id, state) \subseteq 0..25
      BY BitsFit DEF ParserFits
    <2> QED
      BY <1>3, <2>1, ReadDuring DEF BitsTyped
  <1>4. ASSUME NEW id \in {5, 9}, CopyBegins(id) PROVE BitsTyped'
    BY <1>0, <1>4 DEF CopyBegins, BitsTyped
  <1>5. CASE CopyEnds
    BY <1>5 DEF CopyEnds, NoCopy, BitsTyped
  <1>6. CASE SetUp \/ Ready \/ UNCHANGED inputVars \/ \E d \in Deadzones : SetDeadzone(d)
    BY <1>6 DEF SetUp, Ready, SetDeadzone, inputVars, BitsTyped
  <1> QED
    BY <1>1, <1>2, <1>3, <1>4, <1>5, <1>6 DEF InputNext

-----------------------------------------------------------------------------
ReportInv ==
    PathInv /\ CalibrationInv /\ ParserFits /\ Submitted /\ OfRecent /\ BitsTyped

LEMMA ReportInit == InputInit => ReportInv
  <1> SUFFICES ASSUME InputInit PROVE ReportInv
    OBVIOUS
  <1>1. PathInv /\ CalibrationInv
    BY PathInit, NewParserFine DEF InputInit
  <1>2. ParserFits
    <2>1. parser = NewParser /\ state = Neutral
      BY DEF InputInit
    <2>2. /\ NewParser.samples = 0 /\ NewParser.center = Centered
          /\ 0 \in 0..Count /\ 0 < Count
      BY InputAssumption DEF NewParser
    <2> QED
      BY <2>1, <2>2, NeutralFits DEF ParserFits
  <1>3. /\ last = {} /\ recent = {} /\ build.id = 5 /\ build.stage = "idle"
        /\ latest[5] = Made(5, Neutral) /\ latest[9] = Made(9, Neutral)
        /\ copy = NoCopy /\ link = "down"
    BY DEF InputInit
  <1>4. /\ Neutral.buttons = DecodeButtons({}) /\ DecodeButtons({}) = {}
        /\ {} \cap Known = {}
    BY DEF Neutral, DecodeButtons
  <1>5. Submitted
    <2>1. /\ Made(5, Neutral).bits = {} \cap Known
          /\ Made(9, Neutral).bits = GenericBits(DecodeButtons({}))
      BY <1>4, MadeBits, NativeIsSent DEF Bits
    <2>2. SameSticks(latest[5], latest[9])
      BY <1>3, NeutralFits, SticksMade
    <2> QED
      BY <1>3, <2>1, <2>2 DEF Submitted
  <1>6. OfRecent
    <2>1. \A id \in {5, 9} : Decoded(id, latest[id].bits) = {}
      BY <1>3, <1>4, <1>5, IdleDecodes DEF HostIdle
    <2> QED
      BY <1>3, <1>4, <2>1 DEF OfRecent
  <1>7. BitsTyped
    <2>1. \A id \in {5, 9} : latest[id].bits \subseteq 0..25
      BY <1>3, MadeBits, BitsFit, NeutralFits
    <2> QED
      BY <1>3, <2>1 DEF BitsTyped, NoCopy
  <1> QED
    BY <1>1, <1>2, <1>5, <1>6, <1>7 DEF ReportInv

LEMMA ReportNext == ReportInv /\ [InputNext]_inputVars => ReportInv'
  BY PathNext, CalibrationNext, ParserFitsNext, SubmittedNext, OfRecentNext,
     BitsTypedNext DEF ReportInv

(* Every value stays in its range; the reported axes, which the code        *)
(* computes, fit in twelve bits, and a series is never longer than Count.   *)
THEOREM InputTypeCorrect == InputSpec => []InputTypeOK
  <1>1. ReportInv => InputTypeOK
    <2> SUFFICES ASSUME ReportInv PROVE InputTypeOK
      OBVIOUS
    <2>1. \A a \in Axes : parser.center[a] \in 0..AxisMax
      <3>1. CASE parser.calibrated
        <4>1. CalibrationInv
          BY Zenon DEF ReportInv
        <4>2. \A a \in Axes : parser.center[a] \in 1792..2304
          BY <3>1, <4>1 DEF CalibrationInv
        <4> HIDE DEF ReportInv
        <4> QED
          BY <4>2 DEF AxisMax
      <3>2. CASE ~parser.calibrated
        <4>1. \A a \in Axes : parser.center[a] = AxisCenter
          BY <3>2 DEF ReportInv, ParserFits, Centered
        <4>2. AxisCenter \in 0..AxisMax
          BY DEF AxisCenter, AxisMax
        <4> QED
          BY <4>1, <4>2
      <3> QED
        BY <3>1, <3>2
    <2> QED
      BY <2>1 DEF ReportInv, InputTypeOK, PathInv, Building, CalibrationInv,
                  ParserFits, BitsTyped
  <1> QED
    BY ReportInit, ReportNext, <1>1, PTL DEF InputSpec

(* Between two reports of the controller, both USB reports show the same    *)
(* buttons as the controller sent and the same sticks, whatever was sent    *)
(* and however far the calibration is (pro2_make_usb_report_05 and _09).    *)
THEOREM BothReportsAgree == InputSpec => []ReportsAgree
  <1>1. ReportInv => ReportsAgree
    <2> SUFFICES ASSUME ReportInv, HostIdle
                 PROVE  /\ latest[5].bits = last \cap Known
                        /\ Decoded(9, latest[9].bits) = DecodeButtons(last)
                        /\ \A s \in {"left", "right"} :
                             LET n == Unpack12(latest[5][s])
                                 g == Unpack12(latest[9][s])
                             IN  g.x = n.x /\ g.y = AxisMax - n.y
      BY DEF ReportsAgree
    <2> QED
      BY IdleDecodes DEF ReportInv, Submitted, SameSticks
  <1> QED
    BY ReportInit, ReportNext, <1>1, PTL DEF InputSpec

(* No copy, of the interrupt handler while a report is rebuilt or of the    *)
(* preempted task, holds a button of no recent state, at whatever byte the  *)
(* Bluetooth host came between (try_send_input).                            *)
THEOREM NeverPhantom == InputSpec => []NoPhantom
  <1>1. ReportInv => NoPhantom
    <2> SUFFICES ASSUME ReportInv PROVE NoPhantom
      OBVIOUS
    <2>1. \A id \in {5, 9} : InterruptCopies(id) \subseteq recent
      BY DEF ReportInv, OfRecent, InterruptCopies
    <2>2. ASSUME copy # NoCopy, NEW k \in 0..4 PROVE TaskCopies(k) \subseteq recent
      <3> DEFINE low  == {b \in copy.old : b < 8 * k}
                 high == {b \in latest[copy.id].bits : b >= 8 * k}
      <3>1. copy.id \in {5, 9} /\ Decoded(copy.id, copy.old) \subseteq recent
        BY <2>2 DEF ReportInv, OfRecent
      <3>2. Decoded(copy.id, latest[copy.id].bits) \subseteq recent
        BY <3>1 DEF ReportInv, OfRecent
      <3>3. low \subseteq copy.old /\ high \subseteq latest[copy.id].bits
        OBVIOUS
      <3>4. TaskCopies(k) = Decoded(copy.id, low \cup high)
        BY DEF TaskCopies
      <3> HIDE DEF low, high
      <3> QED
        <4>1. /\ Decoded(copy.id, low) \subseteq recent
              /\ Decoded(copy.id, high) \subseteq recent
          BY <3>1, <3>2, <3>3, DecodedIsUnion
        <4>2. Decoded(copy.id, low \cup high)
                = Decoded(copy.id, low) \cup Decoded(copy.id, high)
          BY <3>1, DecodedIsUnion
        <4> QED
          BY <3>4, <4>1, <4>2
    <2> QED
      BY <2>1, <2>2 DEF NoPhantom
  <1> QED
    BY ReportInit, ReportNext, <1>1, PTL DEF InputSpec
=============================================================================
