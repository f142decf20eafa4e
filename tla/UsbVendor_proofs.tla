-------------------------- MODULE UsbVendor_proofs --------------------------
(***************************************************************************)
(* Proofs about UsbVendor: type correctness, the serialization of the two  *)
(* endpoints, that no command ever waits, and that the port implements     *)
(* VendorPort, for any set of commands; and about the lengths of replies   *)
(* in VendorProtocol.                                                      *)
(***************************************************************************)
EXTENDS UsbVendor, VendorProtocol, TLAPS

(* What the flags of the firmware mean.  When vendor_busy is set a chunk is *)
(* in flight.  A suspend clears it under the chunk, and the OUT transfer    *)
(* that Resume then arms may later run beside a chunk, but only the last.   *)
BusyIsTrue ==
    port.busy => /\ port.inFlight # 0 /\ bus = "configured" /\ ~suspended
                 /\ port.outArmed => broken /\ port.offset = port.len

ArmedIsTrue == port.armed => port.outArmed

InFlightIsKnown ==
    ~broken /\ port.inFlight # 0
        => /\ port.busy /\ port.offset = port.inFlight
           /\ port.command \in Commands
           /\ port.len = ReplyLen[port.command]

(* The first chunk of a reply is sent as soon as there is a reply.          *)
OffsetIsKnown ==
    port.offset = port.len \/ (port.offset = 1 /\ port.len = 2)

ConfiguredIsTrue == Active => port.configured

ClosedIsEmpty ==
    bus = "default" => ~port.outArmed /\ port.inFlight = 0

IInv ==
    /\ TypeOK /\ NothingWaits
    /\ BusyIsTrue /\ ArmedIsTrue /\ InFlightIsKnown /\ OffsetIsKnown
    /\ ConfiguredIsTrue /\ ClosedIsEmpty

-----------------------------------------------------------------------------
(* The functions from port to port, field by field.                         *)

(* A reply has at most two chunks.                                          *)
LEMMA ReplyLenType == \A c \in Commands : ReplyLen[c] \in 0..2
  BY DEF ReplyLen

(* Arming the OUT endpoint of a configured port: it happens exactly when    *)
(* vendor_busy and vendor_out_armed are clear, and changes nothing else.    *)
LEMMA ArmOutEffect ==
  ASSUME NEW p \in Ports, p.configured
  PROVE  /\ ArmOut(p, TRUE) \in Ports
         /\ ArmOut(p, TRUE).configured
         /\ ArmOut(p, TRUE).busy = p.busy
         /\ ArmOut(p, TRUE).armed = (p.armed \/ ~p.busy)
         /\ ArmOut(p, TRUE).command = p.command
         /\ ArmOut(p, TRUE).len = p.len
         /\ ArmOut(p, TRUE).offset = p.offset
         /\ ArmOut(p, TRUE).pending = p.pending
         /\ ArmOut(p, TRUE).outArmed = (p.outArmed \/ (~p.busy /\ ~p.armed))
         /\ ArmOut(p, TRUE).inFlight = p.inFlight
<1> DEFINE q == [p EXCEPT !.armed = TRUE, !.outArmed = TRUE]
<1>1. CASE p.busy \/ p.armed
  <2>1. ArmOut(p, TRUE) = p
    BY <1>1 DEF ArmOut
  <2> QED BY <1>1, <2>1 DEF Ports
<1>2. CASE ~p.busy /\ ~p.armed
  <2>1. ArmOut(p, TRUE) = q
    BY <1>2 DEF ArmOut
  <2>2. q \in Ports
    BY DEF Ports
  <2>3. q.armed = TRUE /\ q.outArmed = TRUE
    BY DEF Ports
  <2>4. /\ q.configured = p.configured /\ q.busy = p.busy
        /\ q.command = p.command /\ q.len = p.len /\ q.offset = p.offset
        /\ q.pending = p.pending /\ q.inFlight = p.inFlight
    BY DEF Ports
  <2> HIDE DEF q
  <2> QED BY <1>2, <2>1, <2>2, <2>3, <2>4 DEF Ports
<1> QED BY <1>1, <1>2 DEF Ports

(* Sending a chunk when the last one is done: either the reply is at its    *)
(* end, or its next chunk is put in flight.                                 *)
LEMMA TrySendEffect ==
  ASSUME NEW p \in Ports, ~p.busy, p.configured, p.offset <= p.len
  PROVE  \/ p.offset = p.len /\ TrySend(p) = p
         \/ /\ p.offset < p.len
            /\ TrySend(p) \in Ports
            /\ TrySend(p).configured /\ TrySend(p).busy
            /\ TrySend(p).armed = p.armed
            /\ TrySend(p).command = p.command
            /\ TrySend(p).len = p.len
            /\ TrySend(p).offset = p.offset + 1
            /\ TrySend(p).pending = p.pending
            /\ TrySend(p).outArmed = p.outArmed
            /\ TrySend(p).inFlight = p.offset + 1
<1> DEFINE q == [p EXCEPT !.offset = @ + 1, !.busy = TRUE,
                          !.inFlight = p.offset + 1]
<1>1. p.len \in 0..2 /\ p.offset \in 0..2
  BY DEF Ports
<1>2. CASE p.offset = p.len
  <2>1. p.offset >= p.len
    BY <1>1, <1>2
  <2> QED BY <1>2, <2>1 DEF TrySend
<1>3. CASE p.offset < p.len
  <2>1. ~(p.offset >= p.len) /\ p.offset + 1 \in 0..2
    BY <1>1, <1>3
  <2>2. TrySend(p) = q
    BY <2>1, Zenon DEF TrySend
  <2>3. q \in Ports
    BY <2>1 DEF Ports
  <2>4. q.busy = TRUE /\ q.offset = p.offset + 1 /\ q.inFlight = p.offset + 1
    BY DEF Ports
  <2>5. /\ q.configured = p.configured /\ q.armed = p.armed
        /\ q.command = p.command /\ q.len = p.len
        /\ q.pending = p.pending /\ q.outArmed = p.outArmed
    BY DEF Ports
  <2> HIDE DEF q
  <2> QED BY <1>3, <2>2, <2>3, <2>4, <2>5
<1> QED BY <1>1, <1>2, <1>3

(* A reply of which the last chunk was sent frees the port.                 *)
LEMMA FreedEffect ==
  ASSUME NEW p \in Ports, NEW c \in Commands, p.busy => p.offset = p.len
  PROVE  /\ Freed(c, p) \in Ports
         /\ ~Freed(c, p).busy
         /\ Freed(c, p).configured = p.configured
         /\ Freed(c, p).armed = p.armed
         /\ Freed(c, p).pending = p.pending
         /\ Freed(c, p).outArmed = p.outArmed
         /\ Freed(c, p).inFlight = p.inFlight
<1> DEFINE q == [p EXCEPT !.busy = FALSE]
<1>1. CASE ~p.busy
  <2>1. Freed(c, p) = p
    BY <1>1, Zenon DEF Freed
  <2> QED BY <1>1, <2>1
<1>2. CASE p.busy
  <2>1. p.busy /\ p.offset >= p.len
    BY <1>2 DEF Ports
  <2>2. Freed(c, p) = q
    BY <2>1, Zenon DEF Freed
  <2>3. q \in Ports
    BY DEF Ports
  <2>4. /\ q.busy = FALSE /\ q.configured = p.configured /\ q.armed = p.armed
        /\ q.pending = p.pending /\ q.outArmed = p.outArmed
        /\ q.inFlight = p.inFlight
    BY DEF Ports
  <2> HIDE DEF q
  <2> QED BY <2>2, <2>3, <2>4
<1> QED BY <1>1, <1>2

(* The reply of command c is put in the place of the one before.            *)
Begun(c, p) == [p EXCEPT !.command = c, !.len = ReplyLen[c], !.offset = 0]

LEMMA BegunEffect ==
  ASSUME NEW p \in Ports, NEW c \in Commands
  PROVE  /\ Begun(c, p) \in Ports
         /\ Begun(c, p).configured = p.configured
         /\ Begun(c, p).busy = p.busy
         /\ Begun(c, p).armed = p.armed
         /\ Begun(c, p).command = c
         /\ Begun(c, p).len = ReplyLen[c]
         /\ Begun(c, p).offset = 0
         /\ Begun(c, p).pending = p.pending
         /\ Begun(c, p).outArmed = p.outArmed
         /\ Begun(c, p).inFlight = p.inFlight
<1> DEFINE q == [p EXCEPT !.command = c, !.len = ReplyLen[c], !.offset = 0]
<1>1. ReplyLen[c] \in 0..2 /\ 0 \in 0..2
  BY ReplyLenType
<1>2. q \in Ports
  BY <1>1 DEF Ports
<1>3. q.command = c /\ q.len = ReplyLen[c] /\ q.offset = 0
  BY DEF Ports
<1>4. /\ q.configured = p.configured /\ q.busy = p.busy /\ q.armed = p.armed
      /\ q.pending = p.pending /\ q.outArmed = p.outArmed
      /\ q.inFlight = p.inFlight
  BY DEF Ports
<1>5. Begun(c, p) = q
  BY DEF Begun
<1> HIDE DEF q
<1> QED BY <1>2, <1>3, <1>4, <1>5

(* A command that comes when no OUT transfer is armed and no chunk of an    *)
(* older reply is still to be sent is answered at once: its first chunk is  *)
(* put in flight, or it has no reply.                                       *)
LEMMA ProcessEffect ==
  ASSUME NEW p \in Ports, NEW c \in Commands,
         p.configured, p.busy => p.offset = p.len
  PROVE  /\ Process(c, p) \in Ports
         /\ Process(c, p).configured
         /\ Process(c, p).armed = p.armed
         /\ Process(c, p).command = c
         /\ Process(c, p).len = ReplyLen[c]
         /\ Process(c, p).pending = p.pending
         /\ Process(c, p).outArmed = p.outArmed
         /\ \/ /\ ReplyLen[c] = 0 /\ ~Process(c, p).busy
               /\ Process(c, p).offset = 0
               /\ Process(c, p).inFlight = p.inFlight
            \/ /\ ReplyLen[c] \in 1..2 /\ Process(c, p).busy
               /\ Process(c, p).offset = 1
               /\ Process(c, p).inFlight = 1
<1> DEFINE q == Freed(c, p)
           b == Begun(c, q)
<1>1. /\ q \in Ports /\ ~q.busy /\ q.configured
      /\ q.armed = p.armed /\ q.pending = p.pending
      /\ q.outArmed = p.outArmed /\ q.inFlight = p.inFlight
  BY FreedEffect
<1>2. Process(c, p) = TrySend(b)
  BY <1>1, Zenon DEF Process, Begun
<1> HIDE DEF q
<1>3. /\ b \in Ports /\ b.configured = q.configured /\ b.busy = q.busy
      /\ b.armed = q.armed /\ b.command = c
      /\ b.len = ReplyLen[c] /\ b.offset = 0
      /\ b.pending = q.pending /\ b.outArmed = q.outArmed
      /\ b.inFlight = q.inFlight
  BY <1>1, BegunEffect
<1> HIDE DEF b
<1>4. ReplyLen[c] \in 0..2
  BY ReplyLenType
<1>5. /\ b \in Ports /\ ~b.busy /\ b.configured /\ b.offset <= b.len
  BY <1>1, <1>3, <1>4
<1>6. CASE ReplyLen[c] = 0
  <2>1. TrySend(b) = b
    BY <1>3, <1>5, <1>6, TrySendEffect
  <2> QED BY <1>1, <1>2, <1>3, <1>5, <1>6, <2>1
<1>7. CASE ReplyLen[c] # 0
  <2>1. b.offset # b.len
    BY <1>3, <1>7
  <2>2. /\ TrySend(b) \in Ports
        /\ TrySend(b).configured /\ TrySend(b).busy
        /\ TrySend(b).armed = b.armed /\ TrySend(b).command = b.command
        /\ TrySend(b).len = b.len /\ TrySend(b).offset = b.offset + 1
        /\ TrySend(b).pending = b.pending /\ TrySend(b).outArmed = b.outArmed
        /\ TrySend(b).inFlight = b.offset + 1
    BY <1>5, <2>1, TrySendEffect
  <2>3. ReplyLen[c] \in 1..2
    BY <1>4, <1>7
  <2> QED BY <1>1, <1>2, <1>3, <2>2, <2>3
<1> QED BY <1>6, <1>7

-----------------------------------------------------------------------------
(* What each callback does to the port.                                     *)

(* After a command: its reply is begun and no OUT transfer armed, or it has *)
(* none and the next OUT transfer is armed.                                 *)
LEMMA OutCbEffect ==
  ASSUME IInv, NEW c \in Commands, OutCb(c)
  PROVE  /\ port' \in Ports /\ port'.configured
         /\ port'.pending = NoCommand /\ port'.command = c
         /\ port'.len = ReplyLen[c]
         /\ \/ /\ ReplyLen[c] = 0 /\ ~port'.busy /\ port'.offset = 0
               /\ port'.armed /\ port'.outArmed
               /\ port'.inFlight = port.inFlight
            \/ /\ ReplyLen[c] \in 1..2 /\ port'.busy /\ port'.offset = 1
               /\ ~port'.armed /\ ~port'.outArmed /\ port'.inFlight = 1
<1> DEFINE start == [port EXCEPT !.outArmed = FALSE, !.armed = FALSE]
           done  == Process(c, start)
<1>1. /\ port \in Ports /\ port.configured /\ port.pending = NoCommand
      /\ port.busy => port.offset = port.len
  BY DEF OutCb, BusyIsTrue, ConfiguredIsTrue, IInv, TypeOK, NothingWaits
<1>2. port' = ArmOut(done, TRUE)
  BY DEF OutCb
<1>3. start \in Ports
  BY <1>1 DEF Ports
<1>4. start.armed = FALSE /\ start.outArmed = FALSE
  BY <1>1 DEF Ports
<1>5. /\ start.configured = port.configured /\ start.busy = port.busy
      /\ start.len = port.len /\ start.offset = port.offset
      /\ start.pending = port.pending /\ start.inFlight = port.inFlight
  BY <1>1 DEF Ports
<1> HIDE DEF start
<1>6. start.configured /\ (start.busy => start.offset = start.len)
  BY <1>1, <1>5
<1>7. /\ done \in Ports /\ done.configured
      /\ done.armed = start.armed /\ done.outArmed = start.outArmed
      /\ done.command = c /\ done.len = ReplyLen[c]
      /\ done.pending = start.pending
      /\ \/ /\ ReplyLen[c] = 0 /\ ~done.busy /\ done.offset = 0
            /\ done.inFlight = start.inFlight
         \/ /\ ReplyLen[c] \in 1..2 /\ done.busy /\ done.offset = 1
            /\ done.inFlight = 1
  BY <1>3, <1>6, ProcessEffect
<1> HIDE DEF done
<1>8. /\ port' \in Ports /\ port'.configured /\ port'.busy = done.busy
      /\ port'.armed = (done.armed \/ ~done.busy)
      /\ port'.command = done.command /\ port'.len = done.len
      /\ port'.offset = done.offset /\ port'.pending = done.pending
      /\ port'.outArmed = (done.outArmed \/ (~done.busy /\ ~done.armed))
      /\ port'.inFlight = done.inFlight
  BY <1>2, <1>7, ArmOutEffect
<1> QED BY <1>1, <1>4, <1>5, <1>7, <1>8

(* After a chunk was read: the reply was sent to its end and the next OUT   *)
(* transfer is armed, or its second chunk is in flight.                     *)
LEMMA InCbEffect ==
  ASSUME IInv, InCb
  PROVE  /\ port' \in Ports /\ port'.configured
         /\ port'.pending = NoCommand /\ port'.command = port.command
         /\ port'.len = port.len
         /\ \/ /\ port.offset = port.len /\ ~port'.busy
               /\ port'.offset = port.offset
               /\ port'.armed /\ port'.outArmed /\ port'.inFlight = 0
            \/ /\ port.offset = 1 /\ port.len = 2
               /\ port'.busy /\ port'.offset = 2 /\ port'.inFlight = 2
               /\ port'.armed = port.armed /\ port'.outArmed = port.outArmed
<1> DEFINE start == [port EXCEPT !.inFlight = 0, !.busy = FALSE]
           sent  == TrySend(start)
<1>1. /\ port \in Ports /\ port.configured /\ port.pending = NoCommand
      /\ port.armed => port.outArmed
      /\ port.offset = port.len \/ (port.offset = 1 /\ port.len = 2)
  BY DEF InCb, ArmedIsTrue, OffsetIsKnown, ConfiguredIsTrue, IInv, TypeOK,
         NothingWaits
<1>2. port' = ArmOut(ProcessPending(sent), TRUE)
  BY DEF InCb
<1>3. start \in Ports
  <2>1. 0 \in 0..2
    OBVIOUS
  <2> QED BY <1>1, <2>1 DEF Ports
<1>4. start.inFlight = 0 /\ start.busy = FALSE
  BY <1>1 DEF Ports
<1>5. /\ start.configured = port.configured /\ start.armed = port.armed
      /\ start.command = port.command
      /\ start.len = port.len /\ start.offset = port.offset
      /\ start.pending = port.pending /\ start.outArmed = port.outArmed
  BY <1>1 DEF Ports
<1> HIDE DEF start
<1>6. start.configured /\ ~start.busy /\ start.offset <= start.len
  <2>1. port.offset <= port.len
    BY <1>1 DEF Ports
  <2> QED BY <1>1, <1>4, <1>5, <2>1
<1>7. /\ sent \in Ports /\ sent.configured /\ sent.pending = NoCommand
      /\ sent.armed = port.armed /\ sent.outArmed = port.outArmed
      /\ sent.command = port.command /\ sent.len = port.len
      /\ \/ /\ port.offset = port.len /\ ~sent.busy
            /\ sent.offset = port.offset /\ sent.inFlight = 0
         \/ /\ port.offset = 1 /\ port.len = 2 /\ sent.busy
            /\ sent.offset = 2 /\ sent.inFlight = 2
  <2>1. CASE port.offset = port.len
    <3>1. start.offset = start.len /\ ~(start.offset < start.len)
      BY <1>3, <1>5, <2>1 DEF Ports
    <3>2. sent = start
      BY <1>3, <1>6, <3>1, TrySendEffect
    <3> QED BY <1>1, <1>3, <1>4, <1>5, <2>1, <3>2
  <2>2. CASE port.offset = 1 /\ port.len = 2
    <3>1. start.offset = 1 /\ start.len = 2
      BY <1>5, <2>2
    <3> QED BY <1>1, <1>3, <1>5, <1>6, <2>2, <3>1, TrySendEffect
  <2> QED BY <1>1, <2>1, <2>2
<1> HIDE DEF sent
<1>8. ProcessPending(sent) = sent
  BY <1>7 DEF ProcessPending
<1>9. /\ port' \in Ports /\ port'.configured /\ port'.busy = sent.busy
      /\ port'.armed = (sent.armed \/ ~sent.busy)
      /\ port'.command = sent.command /\ port'.len = sent.len
      /\ port'.offset = sent.offset /\ port'.pending = sent.pending
      /\ port'.outArmed = (sent.outArmed \/ (~sent.busy /\ ~sent.armed))
      /\ port'.inFlight = sent.inFlight
  <2>1. sent \in Ports /\ sent.configured /\ port' = ArmOut(sent, TRUE)
    BY <1>2, <1>7, <1>8
  <2> QED BY <2>1, ArmOutEffect
<1>10. CASE ~sent.busy
  BY <1>1, <1>7, <1>9, <1>10
<1>11. CASE sent.busy
  <2>1. port.armed \in BOOLEAN /\ port.outArmed \in BOOLEAN
    BY <1>1 DEF Ports
  <2>2. (port'.armed = port.armed) /\ (port'.outArmed = port.outArmed)
    BY <1>7, <1>9, <1>11, <2>1
  <2> QED BY <1>7, <1>9, <1>11, <2>2
<1> QED BY <1>10, <1>11

(* A configuration starts the port anew.                                    *)
LEMMA ConfiguredEffect ==
  ASSUME Configured
  PROVE  /\ port' \in Ports /\ port'.configured /\ ~port'.busy
         /\ port'.armed /\ port'.outArmed /\ port'.command = NoCommand
         /\ port'.len = 0 /\ port'.offset = 0 /\ port'.pending = NoCommand
         /\ port'.inFlight = 0
<1> DEFINE new == [NewPort EXCEPT !.configured = TRUE]
<1>1. port' = ArmOut(new, TRUE)
  BY DEF Configured
<1>2. /\ new \in Ports /\ new.configured /\ ~new.busy /\ ~new.armed
      /\ new.command = NoCommand /\ new.len = 0 /\ new.offset = 0
      /\ new.pending = NoCommand /\ ~new.outArmed /\ new.inFlight = 0
  <2> DEFINE p == NewPort
  <2>1. p \in Ports
    BY DEF NewPort, Ports
  <2>2. /\ ~p.busy /\ ~p.armed /\ p.command = NoCommand /\ p.len = 0
        /\ p.offset = 0 /\ p.pending = NoCommand /\ ~p.outArmed
        /\ p.inFlight = 0
    BY DEF NewPort
  <2> HIDE DEF p
  <2>3. new = [p EXCEPT !.configured = TRUE]
    BY DEF p
  <2>4. new \in Ports /\ new.configured = TRUE
    BY <2>1, <2>3 DEF Ports
  <2>5. /\ new.busy = p.busy /\ new.armed = p.armed
        /\ new.command = p.command /\ new.len = p.len
        /\ new.offset = p.offset /\ new.pending = p.pending
        /\ new.outArmed = p.outArmed /\ new.inFlight = p.inFlight
    BY <2>1, <2>3 DEF Ports
  <2> HIDE DEF new
  <2> QED BY <2>2, <2>4, <2>5
<1> HIDE DEF new
<1> QED BY <1>1, <1>2, ArmOutEffect

(* A reset or disconnect stops both endpoints.                              *)
LEMMA ResetEffect ==
  ASSUME TypeOK, Reset
  PROVE  /\ port' \in Ports /\ ~port'.configured /\ ~port'.busy
         /\ ~port'.armed /\ ~port'.outArmed /\ port'.inFlight = 0
         /\ port'.len = port.len /\ port'.offset = port.offset
         /\ port'.pending = port.pending
<1> DEFINE new == [port EXCEPT !.configured = FALSE, !.busy = FALSE,
                     !.armed = FALSE, !.outArmed = FALSE, !.inFlight = 0]
<1>1. port \in Ports /\ port' = new
  BY DEF Reset, TypeOK
<1>2. new \in Ports
  <2>1. 0 \in 0..2
    OBVIOUS
  <2> QED BY <1>1, <2>1 DEF Ports
<1>3. /\ new.configured = FALSE /\ new.busy = FALSE /\ new.armed = FALSE
      /\ new.outArmed = FALSE /\ new.inFlight = 0
  BY <1>1 DEF Ports
<1>4. /\ new.len = port.len /\ new.offset = port.offset
      /\ new.pending = port.pending
  BY <1>1 DEF Ports
<1> HIDE DEF new
<1> QED BY <1>1, <1>2, <1>3, <1>4

(* A suspend clears the flags and leaves the endpoints as they are.         *)
LEMMA SuspendEffect ==
  ASSUME TypeOK, Suspend
  PROVE  /\ port' \in Ports /\ ~port'.configured /\ ~port'.busy
         /\ ~port'.armed /\ port'.outArmed = port.outArmed
         /\ port'.inFlight = port.inFlight
         /\ port'.command = port.command
         /\ port'.len = port.len /\ port'.offset = port.offset
         /\ port'.pending = port.pending
<1> DEFINE new == [port EXCEPT !.configured = FALSE, !.busy = FALSE,
                               !.armed = FALSE]
<1>1. port \in Ports /\ port' = new
  BY DEF Suspend, TypeOK
<1>2. new \in Ports
  BY <1>1 DEF Ports
<1>3. new.configured = FALSE /\ new.busy = FALSE /\ new.armed = FALSE
  BY <1>1 DEF Ports
<1>4. /\ new.outArmed = port.outArmed /\ new.inFlight = port.inFlight
      /\ new.command = port.command /\ new.len = port.len
      /\ new.offset = port.offset /\ new.pending = port.pending
  BY <1>1 DEF Ports
<1> HIDE DEF new
<1> QED BY <1>1, <1>2, <1>3, <1>4

(* A resume arms the OUT endpoint of a configured device.                   *)
LEMMA ResumeEffect ==
  ASSUME IInv, Resume
  PROVE  /\ port' \in Ports /\ port'.configured /\ ~port'.busy
         /\ port'.inFlight = port.inFlight
         /\ port'.command = port.command
         /\ port'.len = port.len /\ port'.offset = port.offset
         /\ port'.pending = port.pending
         /\ port'.armed => port'.outArmed
         /\ bus = "default" => port'.outArmed = port.outArmed
         /\ bus = "configured" => port'.outArmed
<1> DEFINE new == [port EXCEPT !.configured = TRUE]
<1>1. /\ port \in Ports /\ ~port.busy
      /\ port' = ArmOut(new, bus = "configured")
      /\ port.armed => port.outArmed
  BY DEF Resume, TypeOK, IInv, BusyIsTrue, ArmedIsTrue
<1>2. new \in Ports
  BY <1>1 DEF Ports
<1>3. /\ new.configured = TRUE /\ new.busy = port.busy
      /\ new.armed = port.armed /\ new.outArmed = port.outArmed
      /\ new.inFlight = port.inFlight /\ new.command = port.command
      /\ new.len = port.len /\ new.offset = port.offset
      /\ new.pending = port.pending
  BY <1>1 DEF Ports
<1> HIDE DEF new
<1>4. CASE bus = "configured"
  <2>1. port' = ArmOut(new, TRUE)
    BY <1>1, <1>4
  <2>2. /\ port' \in Ports /\ port'.configured /\ port'.busy = new.busy
        /\ port'.armed = (new.armed \/ ~new.busy)
        /\ port'.command = new.command /\ port'.len = new.len
        /\ port'.offset = new.offset /\ port'.pending = new.pending
        /\ port'.outArmed = (new.outArmed \/ (~new.busy /\ ~new.armed))
        /\ port'.inFlight = new.inFlight
    BY <1>2, <1>3, <2>1, ArmOutEffect
  <2>3. port'.armed => port'.outArmed
    BY <1>1, <1>3, <2>2
  <2>4. port'.outArmed
    BY <1>1, <1>3, <2>2
  <2> QED BY <1>1, <1>3, <1>4, <2>2, <2>3, <2>4
<1>5. CASE bus # "configured"
  <2>1. port' = new
    BY <1>1, <1>5 DEF ArmOut
  <2> QED BY <1>1, <1>2, <1>3, <1>5, <2>1
<1> QED BY <1>4, <1>5

-----------------------------------------------------------------------------
(* The facts that make IInv an inductive invariant.                         *)

LEMMA InitIInv == Init => IInv
<1> SUFFICES ASSUME Init PROVE IInv
  OBVIOUS
<1>1. port = NewPort /\ NewPort \in Ports
  BY DEF Init, NewPort, Ports
<1>2. /\ ~port.configured /\ ~port.busy /\ ~port.armed /\ ~port.outArmed
      /\ port.len = 0 /\ port.offset = 0 /\ port.pending = NoCommand
      /\ port.inFlight = 0
  BY <1>1 DEF NewPort
<1>3. TypeOK
  BY <1>1 DEF Init, TypeOK
<1>4. NothingWaits /\ OffsetIsKnown
  BY <1>2 DEF NothingWaits, OffsetIsKnown
<1>5. BusyIsTrue /\ ArmedIsTrue /\ InFlightIsKnown /\ ClosedIsEmpty
  BY <1>2 DEF BusyIsTrue, ArmedIsTrue, InFlightIsKnown, ClosedIsEmpty
<1>6. ConfiguredIsTrue
  BY <1>2 DEF Init, ConfiguredIsTrue, Active
<1> QED
  BY <1>3, <1>4, <1>5, <1>6 DEF IInv

LEMMA OutCbIInv ==
  ASSUME IInv, NEW c \in Commands, OutCb(c)
  PROVE  IInv'
<1>1. /\ bus = "configured" /\ ~suspended /\ port.outArmed
      /\ UNCHANGED <<bus, suspended, hostReads, broken>>
  BY DEF OutCb, Active
<1>2. port.inFlight = 0 \/ broken
  BY <1>1 DEF IInv, BusyIsTrue, InFlightIsKnown
<1>3. TypeOK' /\ NothingWaits'
  BY <1>1, OutCbEffect DEF TypeOK, NothingWaits, IInv
<1>4. BusyIsTrue' /\ ArmedIsTrue'
  BY <1>1, OutCbEffect DEF BusyIsTrue, ArmedIsTrue
<1>5. InFlightIsKnown'
  BY <1>1, <1>2, OutCbEffect DEF InFlightIsKnown
<1>6. OffsetIsKnown'
  BY OutCbEffect DEF OffsetIsKnown
<1>7. ConfiguredIsTrue' /\ ClosedIsEmpty'
  BY <1>1, OutCbEffect DEF ConfiguredIsTrue, ClosedIsEmpty, Active
<1> QED BY <1>3, <1>4, <1>5, <1>6, <1>7 DEF IInv

LEMMA InCbIInv ==
  ASSUME IInv, InCb
  PROVE  IInv'
<1>1. /\ bus = "configured" /\ ~suspended /\ port.inFlight # 0
      /\ UNCHANGED <<bus, suspended, hostReads, broken>>
  BY DEF InCb, Active
<1>2. ~broken => /\ ~port.outArmed /\ port.command \in Commands
                 /\ port.len = ReplyLen[port.command]
  BY <1>1 DEF IInv, BusyIsTrue, InFlightIsKnown
<1>3. port.armed => port.outArmed
  BY DEF IInv, ArmedIsTrue
<1>4. TypeOK' /\ NothingWaits'
  BY <1>1, InCbEffect DEF TypeOK, NothingWaits, IInv
<1>5. BusyIsTrue' /\ ArmedIsTrue'
  BY <1>1, <1>2, <1>3, InCbEffect DEF BusyIsTrue, ArmedIsTrue
<1>6. InFlightIsKnown'
  BY <1>1, <1>2, InCbEffect DEF InFlightIsKnown
<1>7. OffsetIsKnown'
  BY InCbEffect DEF OffsetIsKnown
<1>8. ConfiguredIsTrue' /\ ClosedIsEmpty'
  BY <1>1, InCbEffect DEF ConfiguredIsTrue, ClosedIsEmpty, Active
<1> QED BY <1>4, <1>5, <1>6, <1>7, <1>8 DEF IInv

LEMMA ConfiguredIInv ==
  ASSUME IInv, Configured
  PROVE  IInv'
<1>1. bus' = "configured" /\ UNCHANGED <<suspended, hostReads>> /\ ~broken'
      /\ broken' \in BOOLEAN
  BY DEF Configured
<1>2. TypeOK' /\ NothingWaits'
  BY <1>1, ConfiguredEffect DEF TypeOK, NothingWaits, IInv
<1>3. BusyIsTrue' /\ ArmedIsTrue' /\ InFlightIsKnown' /\ OffsetIsKnown'
  BY ConfiguredEffect DEF BusyIsTrue, ArmedIsTrue, InFlightIsKnown,
                          OffsetIsKnown
<1>4. ConfiguredIsTrue' /\ ClosedIsEmpty'
  BY <1>1, ConfiguredEffect DEF ConfiguredIsTrue, ClosedIsEmpty, Active
<1> QED BY <1>2, <1>3, <1>4 DEF IInv

LEMMA ResetIInv ==
  ASSUME IInv, Reset
  PROVE  IInv'
<1>1. /\ bus' = "default" /\ suspended' = FALSE /\ broken' = FALSE
      /\ UNCHANGED hostReads /\ TypeOK
  BY DEF Reset, IInv
<1>2. TypeOK' /\ NothingWaits'
  BY <1>1, ResetEffect DEF TypeOK, NothingWaits, IInv
<1>3. BusyIsTrue' /\ ArmedIsTrue' /\ InFlightIsKnown'
  BY <1>1, ResetEffect DEF BusyIsTrue, ArmedIsTrue, InFlightIsKnown
<1>4. OffsetIsKnown'
  BY <1>1, ResetEffect DEF OffsetIsKnown, IInv
<1>5. ConfiguredIsTrue' /\ ClosedIsEmpty'
  BY <1>1, ResetEffect DEF ConfiguredIsTrue, ClosedIsEmpty, Active
<1> QED BY <1>2, <1>3, <1>4, <1>5 DEF IInv

LEMMA SuspendIInv ==
  ASSUME IInv, Suspend
  PROVE  IInv'
<1>1. /\ suspended' = TRUE /\ broken' = (broken \/ port.inFlight # 0)
      /\ UNCHANGED <<bus, hostReads>> /\ TypeOK
  BY DEF Suspend, IInv
<1>2. TypeOK' /\ NothingWaits'
  BY <1>1, SuspendEffect DEF TypeOK, NothingWaits, IInv
<1>3. BusyIsTrue' /\ ArmedIsTrue' /\ InFlightIsKnown'
  BY <1>1, SuspendEffect DEF BusyIsTrue, ArmedIsTrue, InFlightIsKnown
<1>4. OffsetIsKnown'
  BY <1>1, SuspendEffect DEF OffsetIsKnown, IInv
<1>5. ConfiguredIsTrue' /\ ClosedIsEmpty'
  BY <1>1, SuspendEffect DEF ConfiguredIsTrue, ClosedIsEmpty, Active, IInv
<1> QED BY <1>2, <1>3, <1>4, <1>5 DEF IInv

LEMMA ResumeIInv ==
  ASSUME IInv, Resume
  PROVE  IInv'
<1>1. /\ suspended /\ suspended' = FALSE
      /\ UNCHANGED <<bus, hostReads, broken>> /\ TypeOK
  BY DEF Resume, IInv
<1>2. port.inFlight = 0 \/ broken
  BY <1>1 DEF IInv, BusyIsTrue, InFlightIsKnown
<1>3. TypeOK' /\ NothingWaits'
  BY <1>1, ResumeEffect DEF TypeOK, NothingWaits, IInv
<1>4. BusyIsTrue' /\ ArmedIsTrue' /\ InFlightIsKnown'
  BY <1>1, <1>2, ResumeEffect DEF BusyIsTrue, ArmedIsTrue, InFlightIsKnown
<1>5. OffsetIsKnown'
  BY <1>1, ResumeEffect DEF OffsetIsKnown, IInv
<1>6. ConfiguredIsTrue' /\ ClosedIsEmpty'
  BY <1>1, ResumeEffect DEF ConfiguredIsTrue, ClosedIsEmpty, Active, IInv
<1> QED BY <1>3, <1>4, <1>5, <1>6 DEF IInv

LEMMA NextIInv == IInv /\ [Next]_vars => IInv'
<1> SUFFICES ASSUME IInv, [Next]_vars PROVE IInv'
  OBVIOUS
<1>1. ASSUME NEW c \in Commands, OutCb(c) PROVE IInv'
  BY <1>1, OutCbIInv
<1>2. CASE InCb
  BY <1>2, InCbIInv
<1>3. CASE Configured
  BY <1>3, ConfiguredIInv
<1>4. CASE Reset
  BY <1>4, ResetIInv
<1>5. CASE Suspend
  BY <1>5, SuspendIInv
<1>6. CASE Resume
  BY <1>6, ResumeIInv
<1>7. CASE HostOpensOrCloses
  BY <1>7 DEF HostOpensOrCloses, IInv, TypeOK, NothingWaits, BusyIsTrue,
              ArmedIsTrue, InFlightIsKnown, OffsetIsKnown, ConfiguredIsTrue,
              ClosedIsEmpty, Active
<1>8. CASE UNCHANGED vars
  BY <1>8 DEF vars, IInv, TypeOK, NothingWaits, BusyIsTrue, ArmedIsTrue,
              InFlightIsKnown, OffsetIsKnown, ConfiguredIsTrue,
              ClosedIsEmpty, Active
<1> QED BY <1>1, <1>2, <1>3, <1>4, <1>5, <1>6, <1>7, <1>8 DEF Next

LEMMA SpecIInv == Spec => []IInv
  BY InitIInv, NextIInv, PTL DEF Spec

(* The flags, buffers and endpoints of the vendor interface stay in their   *)
(* types, for any commands: no offset runs past the reply buffer.           *)
THEOREM TypeCorrect == Spec => []TypeOK
<1>1. IInv => TypeOK
  BY DEF IInv
<1> QED BY <1>1, SpecIInv, PTL

(* Endpoint 2 never receives and sends at once, unless a suspend hit a      *)
(* chunk in flight since the device was configured.                         *)
THEOREM Serialized == Spec => []EP2Serialized
<1>1. IInv => EP2Serialized
  BY DEF IInv, EP2Serialized, BusyIsTrue, InFlightIsKnown
<1> QED BY <1>1, SpecIInv, PTL

LEMMA NextListens == IInv /\ OnlyAChunkWaits /\ [Next]_vars => OnlyAChunkWaits'
<1> SUFFICES ASSUME IInv, OnlyAChunkWaits, [Next]_vars
             PROVE  OnlyAChunkWaits'
  OBVIOUS
<1>1. ASSUME NEW c \in Commands, OutCb(c) PROVE OnlyAChunkWaits'
  BY <1>1, OutCbEffect DEF OnlyAChunkWaits
<1>2. CASE InCb
  BY <1>2, InCbEffect DEF OnlyAChunkWaits
<1>3. CASE Configured
  BY <1>3, ConfiguredEffect DEF OnlyAChunkWaits
<1>4. CASE Reset
  BY <1>4 DEF OnlyAChunkWaits, Active, Reset
<1>5. CASE Suspend
  BY <1>5 DEF OnlyAChunkWaits, Active, Suspend
<1>6. CASE Resume
  BY <1>6, ResumeEffect DEF OnlyAChunkWaits, Active, Resume
<1>7. CASE HostOpensOrCloses \/ UNCHANGED vars
  BY <1>7 DEF OnlyAChunkWaits, Active, HostOpensOrCloses, vars
<1> QED BY <1>1, <1>2, <1>3, <1>4, <1>5, <1>6, <1>7 DEF Next

(* The port that receives nothing has a chunk the host has yet to fetch,    *)
(* whatever the host, the bus and the replies did (arm_vendor_out).         *)
THEOREM Listens == Spec => []OnlyAChunkWaits
<1>1. Init => OnlyAChunkWaits
  BY DEF Init, OnlyAChunkWaits, Active
<1> QED BY <1>1, NextListens, SpecIInv, PTL DEF Spec

(* process_vendor_command never has to queue or drop a command.             *)
THEOREM NeverWaits == Spec => []NothingWaits
<1>1. IInv => NothingWaits
  BY DEF IInv
<1> QED BY <1>1, SpecIInv, PTL

-----------------------------------------------------------------------------
(* The port implements VendorPort: one lemma per action.                    *)

LEMMA InitRefines == Init => Promise!Init
<1> SUFFICES ASSUME Init PROVE Promise!Init
  OBVIOUS
<1>1. bus = "default" /\ broken = FALSE
  BY DEF Init
<1> QED BY <1>1 DEF Promise!Init

LEMMA OutCbRefines ==
  ASSUME IInv, NEW c \in Commands, OutCb(c)
  PROVE  Promise!Take(c) \/ UNCHANGED Promise!vars
<1>1. /\ bus = "configured" /\ UNCHANGED <<bus, broken>> /\ port.outArmed
  BY DEF OutCb, Active
<1>2. CASE broken
  BY <1>1, <1>2 DEF Promise!vars
<1>3. CASE ~broken
  <2>1. port.inFlight = 0
    BY <1>1, <1>3 DEF IInv, BusyIsTrue, InFlightIsKnown
  <2>2. CASE ReplyLen[c] = 0
    <3>1. port'.command = c /\ port'.inFlight = 0
      BY <2>1, <2>2, OutCbEffect
    <3> QED BY <1>1, <1>3, <2>1, <2>2, <3>1 DEF Promise!Take
  <2>3. CASE ReplyLen[c] # 0
    <3>1. /\ port'.command = c /\ port'.inFlight = 1
          /\ port'.len = ReplyLen[c] /\ ReplyLen[c] \in 1..2
      BY <2>3, OutCbEffect
    <3>2. port'.len - port'.inFlight + 1 = ReplyLen[c]
      BY <3>1
    <3> QED BY <1>1, <1>3, <2>1, <2>3, <3>1, <3>2 DEF Promise!Take
  <2> QED BY <2>2, <2>3
<1> QED BY <1>2, <1>3

LEMMA InCbRefines ==
  ASSUME IInv, InCb
  PROVE  Promise!HandOver \/ UNCHANGED Promise!vars
<1>1. /\ bus = "configured" /\ UNCHANGED <<bus, broken>> /\ port.inFlight # 0
  BY DEF InCb, Active
<1>2. CASE broken
  BY <1>1, <1>2 DEF Promise!vars
<1>3. CASE ~broken
  <2>1. port.offset = port.inFlight /\ port.inFlight \in 0..2
    BY <1>1, <1>3 DEF IInv, InFlightIsKnown, TypeOK, Ports
  <2>2. port'.command = port.command
    BY InCbEffect
  <2>3. CASE port.offset = port.len
    <3>1. port'.inFlight = 0
      BY <2>1, <2>3, InCbEffect
    <3>2. port.len - port.inFlight + 1 = 1
      BY <2>1, <2>3
    <3> QED BY <1>1, <1>3, <2>2, <3>1, <3>2 DEF Promise!HandOver
  <2>4. CASE port.offset # port.len
    <3>1. port.inFlight = 1 /\ port.len = 2
      BY <2>1, <2>4, InCbEffect
    <3>2. port'.inFlight = 2 /\ port'.len = 2
      BY <2>4, InCbEffect
    <3>3. /\ port.len - port.inFlight + 1 = 2
          /\ port'.len - port'.inFlight + 1 = 1
      BY <3>1, <3>2
    <3> QED BY <1>1, <1>3, <2>2, <3>2, <3>3 DEF Promise!HandOver
  <2> QED BY <2>3, <2>4
<1> QED BY <1>2, <1>3

LEMMA ConfiguredRefines ==
  ASSUME Configured
  PROVE  Promise!Open
<1>1. bus = "default" /\ bus' = "configured" /\ ~broken'
  BY DEF Configured
<1>2. port'.command = NoCommand /\ port'.inFlight = 0
  BY ConfiguredEffect
<1> QED BY <1>1, <1>2 DEF Promise!Open

LEMMA ResetRefines ==
  ASSUME Reset
  PROVE  Promise!Close
<1>1. bus' = "default"
  BY DEF Reset
<1> QED BY <1>1 DEF Promise!Close

LEMMA SuspendRefines ==
  ASSUME IInv, Suspend
  PROVE  Promise!Break \/ UNCHANGED Promise!vars
<1>1. /\ bus' = bus /\ broken' = (broken \/ port.inFlight # 0)
      /\ bus \in {"default", "configured"} /\ broken \in BOOLEAN
  BY DEF Suspend, IInv, TypeOK
<1>2. /\ port'.inFlight = port.inFlight /\ port'.command = port.command
      /\ port'.len = port.len
  BY SuspendEffect DEF IInv
<1>3. CASE bus = "configured" /\ ~broken /\ port.inFlight # 0
  BY <1>1, <1>3 DEF Promise!Break
<1>4. CASE bus # "configured"
  BY <1>1, <1>4 DEF Promise!vars
<1>5. CASE broken
  BY <1>1, <1>5 DEF Promise!vars
<1>6. CASE ~broken /\ port.inFlight = 0
  BY <1>1, <1>2, <1>6 DEF Promise!vars
<1> QED BY <1>3, <1>4, <1>5, <1>6

LEMMA ResumeRefines ==
  ASSUME IInv, Resume
  PROVE  UNCHANGED Promise!vars
<1>1. UNCHANGED <<bus, broken>>
  BY DEF Resume
<1>2. /\ port'.inFlight = port.inFlight /\ port'.command = port.command
      /\ port'.len = port.len
  BY ResumeEffect
<1> QED BY <1>1, <1>2 DEF Promise!vars

LEMMA NextRefines == IInv /\ [Next]_vars => [Promise!Next]_(Promise!vars)
<1> SUFFICES ASSUME IInv, [Next]_vars PROVE [Promise!Next]_(Promise!vars)
  OBVIOUS
<1>1. ASSUME NEW c \in Commands, OutCb(c)
      PROVE  [Promise!Next]_(Promise!vars)
  BY <1>1, OutCbRefines DEF Promise!Next
<1>2. CASE InCb
  BY <1>2, InCbRefines DEF Promise!Next
<1>3. CASE Configured
  BY <1>3, ConfiguredRefines DEF Promise!Next
<1>4. CASE Reset
  BY <1>4, ResetRefines DEF Promise!Next
<1>5. CASE Suspend
  BY <1>5, SuspendRefines DEF Promise!Next
<1>6. CASE Resume
  BY <1>6, ResumeRefines
<1>7. CASE HostOpensOrCloses
  BY <1>7 DEF HostOpensOrCloses, Promise!vars
<1>8. CASE UNCHANGED vars
  BY <1>8 DEF vars, Promise!vars
<1> QED BY <1>1, <1>2, <1>3, <1>4, <1>5, <1>6, <1>7, <1>8 DEF Next

(* For any commands, the callbacks of the vendor interface implement the    *)
(* promise of VendorPort: replies are handed over whole, in order, to the   *)
(* command they answer, and no command is taken in between.                 *)
THEOREM Implements == Spec => KeepsPromise
  BY InitRefines, NextRefines, SpecIInv, PTL DEF Spec, KeepsPromise, Promise!Spec

-----------------------------------------------------------------------------
(* What the commands are.                                                   *)

(* The longest answer fills the buffer to its last byte and none is refused *)
(* for want of room, whatever address is read (flash_length, the tests of   *)
(* reply_max).                                                              *)
THEOREM AnswerFits == \A c \in Packets : WholeAnswer(c) \in 0..ReplyMax
<1> SUFFICES ASSUME NEW c \in Packets PROVE WholeAnswer(c) \in 0..ReplyMax
  OBVIOUS
<1>1. FlashLength(c.address) \in {16, 24, 32, 64}
  BY DEF FlashLength
<1>2. WholeAnswer(c) \in {16 + FlashLength(c.address), 0, 8, 9, 12, 16, 17, 25, 37}
  BY DEF WholeAnswer
<1> QED
  BY <1>1, <1>2 DEF ReplyMax

(* Every reply goes out in at most two packets: what UsbVendor takes for    *)
(* granted of the commands (try_send_vendor).                               *)
THEOREM ReplyInTwoPackets == \A c \in Packets : Chunks(c) \in 0..2
<1> SUFFICES ASSUME NEW c \in Packets PROVE Chunks(c) \in 0..2
  OBVIOUS
<1>1. ReplyLength(c) \in 0..ReplyMax
  BY AnswerFits DEF ReplyLength, ReplyMax, DiagnosticSize
<1> QED
  BY <1>1 DEF Chunks, ReplyMax, PacketSize
=============================================================================
