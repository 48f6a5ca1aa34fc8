------------------------- MODULE VideoStreamProofs -------------------------
(***************************************************************************)
(* Proofs about VideoStream, for packets, units, boxes and sequence        *)
(* numbers of any size that fits the assumptions: type correctness, that a *)
(* viewer never puts together a unit that was not encoded, that one that   *)
(* lost nothing gets each unit, and that it shows the last unit's boxes.   *)
(*                                                                         *)
(* None of these is inductive by itself.  A part in a viewer's hands is the*)
(* beginning of the unit because the encoder stands at byte At(i) when it  *)
(* sends packet i (Place), and because a viewer always notices a gap:      *)
(* expect and lost add up to mSeq modulo SeqMod (Tracking), and lost is    *)
(* less than the modulus.  PartFits, HasAll and ShowsLast say what the     *)
(* viewer has got between two packets of one unit.                         *)
(***************************************************************************)
EXTENDS VideoStream, TLAPS

\* Where the packet after i full packets starts in the frame.
At(i) == 5 + i * MaxPkt

\* A unit handleFrame cuts well, in more than one packet.
Fine == ~Small /\ ~TooShort(enc.size)

Parts == [open : BOOLEAN, lo : Nat, hi : Nat, joined : BOOLEAN]
Nals == [lo : Nat, hi : Nat, intact : BOOLEAN]
Viewers == [on : BOOLEAN, expect : 0 .. SeqMod - 1, lost : 0 .. MaxLost, part : Parts, got : Nals,
            shown : 0 .. ExtBoxes, whole : BOOLEAN, missed : BOOLEAN]

\* The types of all there is.
Types ==
    /\ box_count \in 0 .. MaxFaces /\ box_count_obj \in 0 .. MaxObjs
    /\ enc \in [pc : {"idle", "send", "done"}, type : NalTypes, size : {n \in Nat : n > 4},
                count : 0 .. MaxFaces + MaxObjs, i : Nat, pos : Nat]
    /\ clean_flag \in BOOLEAN /\ mMarker \in BOOLEAN /\ mExtension \in BOOLEAN
    /\ mSeq \in 0 .. SeqMod - 1 /\ mTimestamp \in 0 .. StampMod - 1
    /\ params \in 0 .. StampMod
    /\ viewer \in Viewers

\* The encoder's place in the frame, and what it has set by then.
Place ==
    /\ enc.i \in 0 .. pktNum + 1 /\ (enc.i = 0 => enc.pos = 0)
    /\ enc.pc = "send" /\ enc.i > 0 =>
         /\ ~Small /\ ~mExtension /\ enc.pos = At(enc.i)
         /\ pktNum > 0 => enc.i <= pktNum
         /\ enc.i = pktNum /\ remainPktSize = 0 /\ pktNum > 1 => mMarker
    /\ enc.pc = "done" =>
         /\ ~mExtension
         /\ enc.type = "slice" /\ ~TooShort(enc.size) /\ ~NeverEnded(enc.size) => mMarker
    /\ params \in {mTimestamp, NoStamp}

\* The viewer knows how many packets it has lost in a row.
Tracking ==
    /\ ~viewer.on => viewer = Away
    /\ viewer.on => \/ mSeq = viewer.expect + viewer.lost
                    \/ mSeq + SeqMod = viewer.expect + viewer.lost

\* A part the viewer will go on with is the unit's from its first byte to where the encoder is.
PartFits ==
    /\ viewer.on /\ viewer.part.open /\ viewer.lost = 0 /\ enc.pc = "send" /\ enc.i > 0 /\ Fine
         => viewer.part.joined /\ viewer.part.lo = 5 /\ viewer.part.hi = enc.pos
    /\ enc.pc = "idle" => viewer.got = NoNal

\* A viewer that has got all packets so far has the part, and after the last the unit.
HasAll ==
    /\ viewer.whole => viewer.on
    /\ viewer.whole /\ enc.pc = "send" /\ enc.i > 0 /\ Fine /\ ~NeverEnded(enc.size) =>
         /\ viewer.lost = 0
         /\ IF enc.i = pktNum /\ remainPktSize = 0 THEN viewer.got # NoNal ELSE viewer.part.open
    /\ viewer.whole /\ enc.pc = "done" /\ ~TooShort(enc.size) /\ ~NeverEnded(enc.size) => viewer.got # NoNal

\* What a viewer that missed no side data shows, before and after the unit's side data.
ShowsLast ==
    viewer.on /\ ~viewer.missed =>
      /\ enc.pc = "idle" /\ ~clean_flag => viewer.shown = 0
      /\ enc.pc # "idle" /\ ~mExtension => viewer.shown = enc.count

IInv == Types /\ Place /\ Tracking /\ PartFits /\ HasAll /\ UnitsIntact /\ ShowsLast

-----------------------------------------------------------------------------
(* Where a unit is cut *)

LEMMA Division ==
    ASSUME NEW a \in Nat, NEW b \in Nat \ {0}
    PROVE  /\ a \div b \in Nat /\ a % b \in 0 .. b - 1
           /\ a = (a \div b) * b + (a % b)
OBVIOUS

LEMMA PacketStarts ==
    /\ At(0) = 5 /\ At(1) = 5 + MaxPkt
    /\ \A i \in Nat : At(i) \in Nat /\ At(i + 1) = At(i) + MaxPkt
BY PacketAssumption DEF At

\* The full packets and the rest make up the unit, and the five sizes are the ones without two.
LEMMA Cut ==
    ASSUME enc.size \in Nat, enc.size > 4
    PROVE  /\ pktNum \in Nat /\ remainPktSize \in 0 .. MaxPkt - 1
           /\ At(pktNum) + remainPktSize = enc.size
           /\ ~Small => (pktNum = 0 <=> TooShort(enc.size))
           /\ ~Small /\ pktNum = 0 => remainPktSize > 0
           /\ NeverEnded(enc.size) <=> pktNum = 1 /\ remainPktSize = 0
<1> DEFINE a == enc.size - 5
<1>1. a \in Nat /\ MaxPkt \in Nat \ {0} /\ MaxPkt > 4
  BY PacketAssumption
<1>2. /\ a \div MaxPkt \in Nat /\ a % MaxPkt \in 0 .. MaxPkt - 1
      /\ a = (a \div MaxPkt) * MaxPkt + (a % MaxPkt)
  BY <1>1, Division
<1>3. pktNum = a \div MaxPkt /\ remainPktSize = a % MaxPkt
  BY DEF pktNum, remainPktSize
<1> DEFINE q == pktNum
           r == remainPktSize
<1> HIDE DEF a, q, r
<1>4. q \in Nat /\ r \in 0 .. MaxPkt - 1 /\ a = q * MaxPkt + r
  BY <1>2, <1>3 DEF q, r
<1>5. At(q) + r = a + 5
  BY <1>1, <1>4 DEF At
<1>6. q = 0 <=> a < MaxPkt
  BY <1>1, <1>4
<1>7. q = 1 /\ r = 0 <=> a = MaxPkt
  BY <1>1, <1>4
<1> QED BY <1>1, <1>4, <1>5, <1>6, <1>7, PacketAssumption DEF q, r, a, Small, TooShort, NeverEnded

LEMMA Wrap ==
    ASSUME NEW x \in 0 .. SeqMod - 1
    PROVE  /\ (x + 1) % SeqMod \in 0 .. SeqMod - 1
           /\ x = SeqMod - 1 => (x + 1) % SeqMod = 0
           /\ x # SeqMod - 1 => (x + 1) % SeqMod = x + 1
<1>1. SeqMod \in Nat /\ SeqMod > 1
  BY WrapAssumption
<1> QED BY <1>1

LEMMA WrapStamp ==
    ASSUME NEW x \in 0 .. StampMod - 1
    PROVE  (x + 1) % StampMod \in 0 .. StampMod - 1
<1>1. StampMod \in Nat /\ StampMod > 0
  BY WrapAssumption
<1> QED BY <1>1
-----------------------------------------------------------------------------
(* What a packet does to the viewer *)

\* The parts of a unit: a whole one, a first, a middle and a last.
LEMMA Assembled ==
    ASSUME NEW part \in Parts, NEW got \in Nals, NEW p,
           p.fu \in BOOLEAN, p.s \in BOOLEAN, p.e \in BOOLEAN, p.lo \in Nat, p.hi \in Nat,
           ~(p.s /\ p.e),
           NEW a, a = Assemble(part, got, p)
    PROVE  /\ a.part \in Parts /\ a.got \in Nals
           /\ ~p.fu => a.part = NoPart /\ a.got = [lo |-> p.lo, hi |-> p.hi, intact |-> TRUE]
           /\ p.fu /\ p.s => /\ a.got = got
                             /\ a.part = [open |-> TRUE, lo |-> p.lo, hi |-> p.hi, joined |-> TRUE]
           /\ p.fu /\ ~p.s /\ ~part.open => a.part = NoPart /\ a.got = got
           /\ p.fu /\ ~p.s /\ part.open /\ ~p.e =>
                /\ a.got = got
                /\ a.part.open /\ a.part.lo = part.lo /\ a.part.hi = p.hi
                /\ part.joined /\ part.hi = p.lo => a.part.joined
           /\ p.fu /\ ~p.s /\ part.open /\ p.e =>
                /\ a.part = NoPart
                /\ a.got.lo = part.lo /\ a.got.hi = p.hi
                /\ part.joined /\ part.hi = p.lo => a.got.intact
<1>0. NoPart \in Parts
  BY DEF NoPart, Parts
<1>1. CASE ~p.fu
  <2>1. a = [part |-> NoPart, got |-> [lo |-> p.lo, hi |-> p.hi, intact |-> TRUE]]
    BY <1>1 DEF Assemble
  <2> QED BY <1>0, <1>1, <2>1 DEF Nals
<1>2. CASE p.fu /\ p.s
  <2> DEFINE now == [open |-> TRUE, lo |-> p.lo, hi |-> p.hi, joined |-> TRUE]
  <2>1. now \in Parts /\ now.open
    BY DEF Parts
  <2>2. a = [part |-> now, got |-> got]
    BY <1>2 DEF Assemble
  <2> QED BY <1>2, <2>1, <2>2
<1>3. CASE p.fu /\ ~p.s
  <2> DEFINE now == [part EXCEPT !.joined = @ /\ part.hi = p.lo, !.hi = p.hi]
  <2>1. /\ now \in Parts /\ now.open = part.open /\ now.lo = part.lo /\ now.hi = p.hi
        /\ part.joined /\ part.hi = p.lo => now.joined
    BY DEF Parts
  <2>2. a = CASE ~now.open -> [part |-> NoPart, got |-> got]
              [] now.open /\ p.e -> [part |-> NoPart, got |-> [lo |-> now.lo, hi |-> now.hi, intact |-> now.joined]]
              [] OTHER -> [part |-> now, got |-> got]
    BY <1>3 DEF Assemble
  <2> HIDE DEF now
  <2>3. CASE ~part.open
    <3>1. a = [part |-> NoPart, got |-> got]
      BY <2>1, <2>2, <2>3
    <3> QED BY <1>0, <1>3, <2>3, <3>1
  <2>4. CASE part.open /\ p.e
    <3>1. a = [part |-> NoPart, got |-> [lo |-> now.lo, hi |-> now.hi, intact |-> now.joined]]
      BY <2>1, <2>2, <2>4
    <3>2. now.joined \in BOOLEAN /\ now.lo \in Nat /\ now.hi \in Nat
      BY <2>1 DEF Parts
    <3>3. a.part \in Parts /\ a.part = NoPart /\ a.got \in Nals
      BY <1>0, <2>1, <3>1, <3>2 DEF Nals
    <3>4. a.got.lo = part.lo /\ a.got.hi = p.hi /\ a.got.intact = now.joined
      BY <2>1, <3>1
    <3>5. part.joined /\ part.hi = p.lo => a.got.intact
      BY <2>1, <3>4, Zenon
    <3> QED BY <1>3, <2>4, <3>3, <3>4, <3>5, Zenon
  <2>5. CASE part.open /\ ~p.e
    <3>1. a = [part |-> now, got |-> got]
      BY <2>1, <2>2, <2>5
    <3>2. a.part = now /\ a.got = got
      BY <3>1
    <3> QED BY <1>3, <2>1, <2>5, <3>2, Zenon
  <2> QED BY <2>3, <2>4, <2>5
<1> QED BY <1>1, <1>2, <1>3

\* The sequence number is the expected one only if nothing was lost.
LEMMA Expected ==
    ASSUME Types, Tracking, viewer.on
    PROVE  mSeq = viewer.expect <=> viewer.lost = 0
<1>1. viewer.expect \in 0 .. SeqMod - 1 /\ viewer.lost \in 0 .. MaxLost /\ mSeq \in 0 .. SeqMod - 1
  BY DEF Types, Viewers
<1>2. SeqMod \in Nat /\ MaxLost \in Nat /\ SeqMod > MaxLost + 1
  BY WrapAssumption
<1>3. mSeq = viewer.expect + viewer.lost \/ mSeq + SeqMod = viewer.expect + viewer.lost
  BY DEF Tracking
<1> QED BY <1>1, <1>2, <1>3

\* The boxes in a packet are all the boxes of the unit.
LEMMA AllBoxes ==
    ASSUME Types
    PROVE  /\ Boxes.sent = mExtension
           /\ mExtension => Boxes.count = enc.count
           /\ enc.count \in 0 .. ExtBoxes
<1>1. enc.count \in 0 .. MaxFaces + MaxObjs /\ mExtension \in BOOLEAN
  BY DEF Types
<1>2. enc.count \in 0 .. ExtBoxes
  BY <1>1, BoxAssumption
<1>3. Kept(enc.count, ExtBoxes) = enc.count
  BY <1>2, BoxAssumption DEF Kept
<1> QED BY <1>1, <1>2, <1>3 DEF Boxes, NoBoxes

\* A viewer that gets a packet: all that changes.
LEMMA Received ==
    ASSUME Types, Tracking, viewer.on, NEW p,
           p.fu \in BOOLEAN, p.s \in BOOLEAN, p.e \in BOOLEAN, p.lo \in Nat, p.hi \in Nat,
           ~(p.s /\ p.e), p.seq = mSeq, p.boxes = Boxes,
           NEW v, v = Gets(p)
    PROVE  /\ v \in Viewers /\ v.on /\ v.whole = viewer.whole /\ v.lost = 0
           /\ v.expect = (mSeq + 1) % SeqMod
           /\ ~v.missed => IF mExtension THEN v.shown = enc.count
                           ELSE ~viewer.missed /\ v.shown = viewer.shown
           /\ ~p.fu => v.part = NoPart /\ v.got = [lo |-> p.lo, hi |-> p.hi, intact |-> TRUE]
           /\ p.fu /\ p.s => /\ v.got = viewer.got
                             /\ v.part = [open |-> TRUE, lo |-> p.lo, hi |-> p.hi, joined |-> TRUE]
           /\ p.fu /\ ~p.s /\ (viewer.lost # 0 \/ ~viewer.part.open) => v.part = NoPart /\ v.got = viewer.got
           /\ p.fu /\ ~p.s /\ viewer.lost = 0 /\ viewer.part.open /\ ~p.e =>
                /\ v.got = viewer.got
                /\ v.part.open /\ v.part.lo = viewer.part.lo /\ v.part.hi = p.hi
                /\ viewer.part.joined /\ viewer.part.hi = p.lo => v.part.joined
           /\ p.fu /\ ~p.s /\ viewer.lost = 0 /\ viewer.part.open /\ p.e =>
                /\ v.part = NoPart
                /\ v.got.lo = viewer.part.lo /\ v.got.hi = p.hi
                /\ viewer.part.joined /\ viewer.part.hi = p.lo => v.got.intact
<1> DEFINE part == IF p.seq = viewer.expect THEN viewer.part ELSE NoPart
           a == Assemble(part, viewer.got, p)
<1>1. viewer \in Viewers
  BY DEF Types
<1>2. part = IF viewer.lost = 0 THEN viewer.part ELSE NoPart
  BY Expected
<1>3. part \in Parts /\ viewer.got \in Nals /\ NoPart.open = FALSE
  BY <1>1, <1>2 DEF Viewers, NoPart, Parts
<1> HIDE DEF part
<1>4. PICK c : c = a
  OBVIOUS
<1>5. v = [viewer EXCEPT !.expect = (p.seq + 1) % SeqMod, !.lost = 0,
                         !.part = c.part, !.got = c.got,
                         !.shown = IF p.boxes.sent THEN p.boxes.count ELSE @,
                         !.missed = @ /\ ~p.boxes.sent]
  BY <1>4 DEF Gets, part
<1>6. /\ c.part \in Parts /\ c.got \in Nals
      /\ ~p.fu => c.part = NoPart /\ c.got = [lo |-> p.lo, hi |-> p.hi, intact |-> TRUE]
      /\ p.fu /\ p.s => /\ c.got = viewer.got
                        /\ c.part = [open |-> TRUE, lo |-> p.lo, hi |-> p.hi, joined |-> TRUE]
      /\ p.fu /\ ~p.s /\ ~part.open => c.part = NoPart /\ c.got = viewer.got
      /\ p.fu /\ ~p.s /\ part.open /\ ~p.e =>
           /\ c.got = viewer.got
           /\ c.part.open /\ c.part.lo = part.lo /\ c.part.hi = p.hi
           /\ part.joined /\ part.hi = p.lo => c.part.joined
      /\ p.fu /\ ~p.s /\ part.open /\ p.e =>
           /\ c.part = NoPart
           /\ c.got.lo = part.lo /\ c.got.hi = p.hi
           /\ part.joined /\ part.hi = p.lo => c.got.intact
  BY <1>3, <1>4, Assembled
<1>7. /\ v.on = viewer.on /\ v.whole = viewer.whole /\ v.lost = 0 /\ v.part = c.part /\ v.got = c.got
      /\ v.expect = (mSeq + 1) % SeqMod
      /\ v.shown = (IF p.boxes.sent THEN p.boxes.count ELSE viewer.shown)
      /\ v.missed = (viewer.missed /\ ~p.boxes.sent)
  BY <1>1, <1>5 DEF Viewers
<1>8. v \in Viewers
  <2>1. (mSeq + 1) % SeqMod \in 0 .. SeqMod - 1
    BY Wrap DEF Types
  <2>2. p.boxes.sent => p.boxes.count \in 0 .. ExtBoxes
    BY AllBoxes
  <2>3. v.shown \in 0 .. ExtBoxes
    BY <1>1, <1>7, <2>2 DEF Viewers
  <2>4. 0 \in 0 .. MaxLost
    BY WrapAssumption
  <2>5. v.missed \in BOOLEAN
    BY <1>7
  <2>6. v = [on |-> v.on, expect |-> v.expect, lost |-> v.lost, part |-> v.part, got |-> v.got,
             shown |-> v.shown, whole |-> v.whole, missed |-> v.missed]
    BY <1>1, <1>5 DEF Viewers
  <2>7. v.on \in BOOLEAN /\ v.whole \in BOOLEAN
    BY <1>1, <1>7 DEF Viewers
  <2> QED BY <1>6, <1>7, <2>1, <2>3, <2>4, <2>5, <2>6, <2>7 DEF Viewers
<1>9. ~v.missed => IF mExtension THEN v.shown = enc.count
                   ELSE ~viewer.missed /\ v.shown = viewer.shown
  <2>1. mExtension \in BOOLEAN
    BY DEF Types
  <2>2. CASE mExtension
    <3>1. p.boxes.sent /\ p.boxes.count = enc.count
      BY <2>2, AllBoxes, Zenon
    <3>2. v.shown = enc.count
      BY <1>7, <3>1
    <3> QED BY <2>2, <3>2, Zenon
  <2>3. CASE ~mExtension
    <3>1. ~p.boxes.sent
      BY <2>3, AllBoxes, Zenon
    <3>2. v.shown = viewer.shown
      BY <1>7, <3>1
    <3>3. viewer.missed => v.missed
      BY <1>7, <3>1
    <3> QED BY <2>3, <3>2, <3>3, Zenon
  <2> QED BY <2>2, <2>3
<1>10. CASE viewer.lost = 0
  <2>1. part = viewer.part
    BY <1>2, <1>10
  <2> QED BY <1>6, <1>7, <1>8, <1>9, <1>10, <2>1, Zenon
<1>11. CASE viewer.lost # 0
  <2>1. ~part.open
    BY <1>2, <1>3, <1>11
  <2> QED BY <1>6, <1>7, <1>8, <1>9, <1>11, <2>1, Zenon
<1> QED BY <1>10, <1>11

\* A viewer that loses a packet: it has what it had, and knows.
LEMMA Lost ==
    ASSUME Types, viewer.on, viewer.lost < MaxLost, NEW p, p.boxes = Boxes, NEW v, v = Loses(p)
    PROVE  /\ v \in Viewers /\ v.on /\ ~v.whole /\ v.lost = viewer.lost + 1 /\ v.lost # 0
           /\ v.expect = viewer.expect /\ v.part = viewer.part /\ v.got = viewer.got
           /\ v.shown = viewer.shown
           /\ ~v.missed => ~viewer.missed /\ ~mExtension
<1>1. viewer \in Viewers /\ mExtension \in BOOLEAN
  BY DEF Types
<1>2. v = [viewer EXCEPT !.lost = @ + 1, !.whole = FALSE, !.missed = @ \/ p.boxes.sent]
  BY DEF Loses
<1>3. p.boxes.sent = mExtension
  BY AllBoxes
<1>4. viewer.lost + 1 \in 0 .. MaxLost /\ viewer.lost + 1 # 0
  BY <1>1, WrapAssumption DEF Viewers
<1>5. /\ v.on = viewer.on /\ v.whole = FALSE /\ v.lost = viewer.lost + 1 /\ v.expect = viewer.expect
      /\ v.part = viewer.part /\ v.got = viewer.got /\ v.shown = viewer.shown
  BY <1>1, <1>2 DEF Viewers
<1>6. v.missed = (viewer.missed \/ mExtension)
  BY <1>1, <1>2, <1>3 DEF Viewers
<1>7. v \in Viewers
  BY <1>1, <1>2, <1>3, <1>4 DEF Viewers
<1>8. ~v.missed => ~viewer.missed /\ ~mExtension
  BY <1>6, Zenon
<1> QED BY <1>4, <1>5, <1>7, <1>8, Zenon
-----------------------------------------------------------------------------
(* What a packet does to all *)

\* The packet is lost, or taken by the viewer.
Skipped ==
    /\ viewer.on /\ viewer'.on /\ viewer'.lost # 0 /\ ~viewer'.whole
    /\ viewer'.part = viewer.part /\ viewer'.got = viewer.got

Taken(fu, s, e, lo, hi) ==
    /\ viewer.on /\ viewer'.on /\ viewer'.lost = 0 /\ viewer'.whole = viewer.whole
    /\ ~fu => viewer'.part = NoPart /\ viewer'.got = [lo |-> lo, hi |-> hi, intact |-> TRUE]
    /\ fu /\ s => /\ viewer'.got = viewer.got
                  /\ viewer'.part = [open |-> TRUE, lo |-> lo, hi |-> hi, joined |-> TRUE]
    /\ fu /\ ~s /\ (viewer.lost # 0 \/ ~viewer.part.open) => viewer'.part = NoPart /\ viewer'.got = viewer.got
    /\ fu /\ ~s /\ viewer.lost = 0 /\ viewer.part.open /\ ~e =>
         /\ viewer'.got = viewer.got
         /\ viewer'.part.open /\ viewer'.part.lo = viewer.part.lo /\ viewer'.part.hi = hi
         /\ viewer.part.joined /\ viewer.part.hi = lo => viewer'.part.joined
    /\ fu /\ ~s /\ viewer.lost = 0 /\ viewer.part.open /\ e =>
         /\ viewer'.part = NoPart
         /\ viewer'.got.lo = viewer.part.lo /\ viewer'.got.hi = hi
         /\ viewer.part.joined /\ viewer.part.hi = lo => viewer'.got.intact

LEMMA AwayIsViewer == Away \in Viewers /\ ~Away.on /\ Away.got = NoNal /\ ~Away.part.open /\ ~Away.whole
<1>1. 0 \in 0 .. SeqMod - 1 /\ 0 \in 0 .. MaxLost /\ 0 \in 0 .. ExtBoxes
  BY WrapAssumption, BoxAssumption
<1>2. NoPart \in Parts /\ NoNal \in Nals /\ ~NoPart.open
  BY DEF NoPart, NoNal, Parts, Nals
<1> QED BY <1>1, <1>2 DEF Away, Viewers

LEMMA Sent ==
    ASSUME Types, Tracking, NEW fu \in BOOLEAN, NEW s \in BOOLEAN, NEW e \in BOOLEAN, NEW marker \in BOOLEAN,
           NEW lo \in Nat, NEW hi \in Nat, ~(s /\ e), sendRtpPacket(fu, s, e, marker, lo, hi)
    PROVE  /\ mMarker' = marker /\ mSeq' \in 0 .. SeqMod - 1 /\ ~mExtension' /\ mExtension' \in BOOLEAN
           /\ UNCHANGED <<box_count, box_count_obj, clean_flag, mTimestamp, params>>
           /\ viewer' \in Viewers /\ Tracking'
           /\ (~viewer.on /\ viewer' = viewer) \/ Skipped \/ Taken(fu, s, e, lo, hi)
           /\ viewer'.on /\ ~viewer'.missed => IF mExtension THEN viewer'.shown = enc.count
                                               ELSE ~viewer.missed /\ viewer'.shown = viewer.shown
<1> DEFINE p == [fu |-> fu, s |-> s, e |-> e, marker |-> marker, seq |-> mSeq,
                 boxes |-> Boxes, lo |-> lo, hi |-> hi]
<1>1. /\ mMarker' = marker /\ mSeq' = (mSeq + 1) % SeqMod /\ mExtension' = FALSE
      /\ UNCHANGED <<box_count, box_count_obj, clean_flag, mTimestamp, params>>
      /\ Reception(p)
  BY DEF sendRtpPacket
<1>2. mSeq' \in 0 .. SeqMod - 1
  BY <1>1, Wrap DEF Types
<1>3. p.fu = fu /\ p.s = s /\ p.e = e /\ p.lo = lo /\ p.hi = hi /\ p.seq = mSeq /\ p.boxes = Boxes
  OBVIOUS
<1> HIDE DEF p
<1>4. CASE ~viewer.on /\ viewer' = viewer
  <2>1. viewer' \in Viewers /\ ~viewer'.on
    BY <1>4 DEF Types
  <2>2. Tracking'
    BY <1>4 DEF Tracking
  <2> QED BY <1>1, <1>2, <1>4, <2>1, <2>2
<1>5. CASE viewer.on /\ viewer' = Gets(p)
  <2>1. PICK v : v = viewer'
    OBVIOUS
  <2>2. /\ v \in Viewers /\ v.on /\ v.whole = viewer.whole /\ v.lost = 0
        /\ v.expect = (mSeq + 1) % SeqMod
        /\ ~v.missed => IF mExtension THEN v.shown = enc.count
                        ELSE ~viewer.missed /\ v.shown = viewer.shown
        /\ ~fu => v.part = NoPart /\ v.got = [lo |-> lo, hi |-> hi, intact |-> TRUE]
        /\ fu /\ s => /\ v.got = viewer.got
                      /\ v.part = [open |-> TRUE, lo |-> lo, hi |-> hi, joined |-> TRUE]
        /\ fu /\ ~s /\ (viewer.lost # 0 \/ ~viewer.part.open) => v.part = NoPart /\ v.got = viewer.got
        /\ fu /\ ~s /\ viewer.lost = 0 /\ viewer.part.open /\ ~e =>
             /\ v.got = viewer.got
             /\ v.part.open /\ v.part.lo = viewer.part.lo /\ v.part.hi = hi
             /\ viewer.part.joined /\ viewer.part.hi = lo => v.part.joined
        /\ fu /\ ~s /\ viewer.lost = 0 /\ viewer.part.open /\ e =>
             /\ v.part = NoPart
             /\ v.got.lo = viewer.part.lo /\ v.got.hi = hi
             /\ viewer.part.joined /\ viewer.part.hi = lo => v.got.intact
    <3>1. v = Gets(p)
      BY <1>5, <2>1
    <3> QED BY <1>3, <1>5, <3>1, Received
  <2>3. Taken(fu, s, e, lo, hi)
    BY <1>5, <2>1, <2>2 DEF Taken
  <2>4. Tracking'
    <3>1. mSeq' = v.expect + v.lost
      BY <1>1, <1>2, <2>2
    <3> QED BY <2>1, <2>2, <3>1 DEF Tracking
  <2> QED BY <1>1, <1>2, <2>1, <2>2, <2>3, <2>4
<1>6. CASE viewer.on /\ viewer.lost < MaxLost /\ viewer' = Loses(p)
  <2>1. PICK v : v = viewer'
    OBVIOUS
  <2>2. /\ v \in Viewers /\ v.on /\ ~v.whole /\ v.lost = viewer.lost + 1 /\ v.lost # 0
        /\ v.expect = viewer.expect /\ v.part = viewer.part /\ v.got = viewer.got
        /\ v.shown = viewer.shown
        /\ ~v.missed => ~viewer.missed /\ ~mExtension
    <3>1. v = Loses(p)
      BY <1>6, <2>1
    <3> QED BY <1>3, <1>6, <3>1, Lost
  <2>3. Skipped
    BY <1>6, <2>1, <2>2 DEF Skipped
  <2>4. Tracking'
    <3>1. viewer.expect \in 0 .. SeqMod - 1 /\ viewer.lost \in 0 .. MaxLost /\ mSeq \in 0 .. SeqMod - 1
      BY DEF Types, Viewers
    <3>2. SeqMod \in Nat /\ MaxLost \in Nat /\ SeqMod > MaxLost + 1
      BY WrapAssumption
    <3>3. mSeq = viewer.expect + viewer.lost \/ mSeq + SeqMod = viewer.expect + viewer.lost
      BY <1>6 DEF Tracking
    <3>4. \/ mSeq = SeqMod - 1 /\ mSeq' = 0
          \/ mSeq # SeqMod - 1 /\ mSeq' = mSeq + 1
      BY <1>1, <3>1, Wrap
    <3>5. mSeq' = v.expect + v.lost \/ mSeq' + SeqMod = v.expect + v.lost
      BY <1>6, <2>2, <3>1, <3>2, <3>3, <3>4
    <3> QED BY <2>1, <2>2, <3>5 DEF Tracking
  <2> QED BY <1>1, <1>2, <2>1, <2>2, <2>3, <2>4
<1> QED BY <1>1, <1>4, <1>5, <1>6 DEF Reception
-----------------------------------------------------------------------------
(* The steps of the encoder *)

\* A packet is sent, and the encoder goes on; what it leaves as it should be.
Sends(pc, i, pos, fu, s, e, marker, lo, hi) ==
    /\ enc.pc = "send"
    /\ enc' = [enc EXCEPT !.pc = pc, !.i = i, !.pos = pos]
    /\ sendRtpPacket(fu, s, e, marker, lo, hi)

Leaves(pc, i, pos, fu, s, e, marker, lo, hi) ==
    /\ Types' /\ Tracking' /\ ShowsLast'
    /\ enc'.pc = pc /\ enc'.type = enc.type /\ enc'.size = enc.size /\ enc'.i = i /\ enc'.pos = pos
    /\ pktNum' = pktNum /\ remainPktSize' = remainPktSize /\ (Small' <=> Small)
    /\ mMarker' = marker /\ ~mExtension' /\ params' \in {mTimestamp', NoStamp}
    /\ (~viewer.on /\ viewer' = viewer) \/ Skipped \/ Taken(fu, s, e, lo, hi)
    /\ viewer'.whole => viewer'.on /\ viewer.whole /\ Taken(fu, s, e, lo, hi)

LEMMA SentKeeps ==
    ASSUME IInv, NEW pc \in {"send", "done"}, NEW i \in Nat, NEW pos \in Nat,
           NEW fu \in BOOLEAN, NEW s \in BOOLEAN, NEW e \in BOOLEAN, NEW marker \in BOOLEAN,
           NEW lo \in Nat, NEW hi \in Nat, ~(s /\ e), Sends(pc, i, pos, fu, s, e, marker, lo, hi)
    PROVE  Leaves(pc, i, pos, fu, s, e, marker, lo, hi)
<1>0. /\ enc.pc = "send" /\ enc' = [enc EXCEPT !.pc = pc, !.i = i, !.pos = pos]
      /\ sendRtpPacket(fu, s, e, marker, lo, hi)
  BY DEF Sends
<1>1. Types /\ Place /\ Tracking /\ HasAll /\ ShowsLast
  BY DEF IInv
<1>2. /\ mMarker' = marker /\ mSeq' \in 0 .. SeqMod - 1 /\ ~mExtension' /\ mExtension' \in BOOLEAN
      /\ UNCHANGED <<box_count, box_count_obj, clean_flag, mTimestamp, params>>
      /\ viewer' \in Viewers /\ Tracking'
      /\ (~viewer.on /\ viewer' = viewer) \/ Skipped \/ Taken(fu, s, e, lo, hi)
      /\ viewer'.on /\ ~viewer'.missed => IF mExtension THEN viewer'.shown = enc.count
                                          ELSE ~viewer.missed /\ viewer'.shown = viewer.shown
  BY <1>0, <1>1, Sent
<1>3. /\ enc'.pc = pc /\ enc'.type = enc.type /\ enc'.size = enc.size /\ enc'.i = i /\ enc'.pos = pos
      /\ enc'.count = enc.count
      /\ enc' \in [pc : {"idle", "send", "done"}, type : NalTypes, size : {n \in Nat : n > 4},
                   count : 0 .. MaxFaces + MaxObjs, i : Nat, pos : Nat]
  BY <1>0, <1>1 DEF Types
<1>4. pktNum' = pktNum /\ remainPktSize' = remainPktSize /\ (Small' <=> Small)
  BY <1>3 DEF pktNum, remainPktSize, Small
<1>5. Types'
  BY <1>1, <1>2, <1>3 DEF Types
<1>6. viewer'.on => viewer.on
  BY <1>2 DEF Skipped, Taken
<1>7. ShowsLast'
  <2>1. enc'.pc # "idle"
    BY <1>3
  <2>2. ASSUME viewer'.on, ~viewer'.missed PROVE viewer'.shown = enc'.count
    <3>1. CASE mExtension
      BY <1>2, <1>3, <2>2, <3>1
    <3>2. CASE ~mExtension
      <4>1. viewer.on /\ ~viewer.missed /\ viewer'.shown = viewer.shown
        BY <1>2, <1>6, <2>2, <3>2
      <4>2. viewer.shown = enc.count
        BY <1>0, <1>1, <3>2, <4>1 DEF ShowsLast
      <4> QED BY <1>3, <4>1, <4>2
    <3> QED BY <3>1, <3>2
  <2> QED BY <2>1, <2>2 DEF ShowsLast
<1>8. viewer'.whole => viewer'.on /\ viewer.whole /\ Taken(fu, s, e, lo, hi)
  <2>1. CASE ~viewer.on /\ viewer' = viewer
    BY <1>1, <2>1, AwayIsViewer DEF Tracking
  <2>2. CASE Skipped
    BY <2>2 DEF Skipped
  <2>3. CASE Taken(fu, s, e, lo, hi)
    BY <2>3 DEF Taken
  <2> QED BY <1>2, <2>1, <2>2, <2>3
<1>9. params' \in {mTimestamp', NoStamp}
  BY <1>1, <1>2 DEF Place
<1> QED BY <1>2, <1>3, <1>4, <1>5, <1>7, <1>8, <1>9 DEF Leaves

LEMMA SizeFits ==
    ASSUME IInv
    PROVE  /\ pktNum \in Nat /\ remainPktSize \in 0 .. MaxPkt - 1
           /\ At(pktNum) + remainPktSize = enc.size
           /\ ~Small => (pktNum = 0 <=> TooShort(enc.size))
           /\ ~Small /\ pktNum = 0 => remainPktSize > 0
           /\ NeverEnded(enc.size) <=> pktNum = 1 /\ remainPktSize = 0
           /\ enc.i \in Nat /\ enc.pos \in Nat /\ enc.size \in Nat
           /\ enc.pc \in {"idle", "send", "done"} /\ mMarker \in BOOLEAN /\ mExtension \in BOOLEAN
<1>1. enc.size \in Nat /\ enc.size > 4 /\ enc.i \in Nat /\ enc.pos \in Nat
  BY DEF IInv, Types
<1> QED BY <1>1, Cut DEF IInv, Types

LEMMA WholeStep == IInv /\ SendWhole => IInv'
<1> SUFFICES ASSUME IInv, SendWhole PROVE IInv'
  OBVIOUS
<1>1. /\ enc.pc = "send" /\ Small
      /\ sendRtpPacket(FALSE, FALSE, FALSE, enc.type = "slice", 4, enc.size)
      /\ enc' = [enc EXCEPT !.pc = "done"]
  BY DEF SendWhole
<1>2. PICK m \in BOOLEAN, z \in Nat, j \in Nat, x \in Nat :
         m = (enc.type = "slice") /\ z = enc.size /\ j = enc.i /\ x = enc.pos
  BY SizeFits
<1>3. Sends("done", j, x, FALSE, FALSE, FALSE, m, 4, z)
  <2>1. enc' = [enc EXCEPT !.pc = "done", !.i = j, !.pos = x]
    BY <1>1, <1>2 DEF IInv, Types
  <2>2. sendRtpPacket(FALSE, FALSE, FALSE, m, 4, z)
    BY <1>1, <1>2 DEF sendRtpPacket
  <2> QED BY <1>1, <2>1, <2>2 DEF Sends
<1>4. Leaves("done", j, x, FALSE, FALSE, FALSE, m, 4, z)
  BY <1>3, SentKeeps
<1>5. Taken(FALSE, FALSE, FALSE, 4, z) => viewer'.got = [lo |-> 4, hi |-> z, intact |-> TRUE]
  BY DEF Taken
<1>6. Place'
  BY <1>2, <1>4 DEF IInv, Place, Leaves
<1>7. PartFits'
  BY <1>4 DEF PartFits, Leaves
<1>8. HasAll'
  <2>1. [lo |-> 4, hi |-> z, intact |-> TRUE] # NoNal
    BY DEF NoNal
  <2>2. viewer'.whole => viewer'.on /\ viewer'.got # NoNal
    BY <1>4, <1>5, <2>1 DEF Leaves
  <2> QED BY <1>4, <2>2 DEF HasAll, Leaves
<1>9. UnitsIntact'
  <2>1. CASE viewer'.got = viewer.got
    BY <1>4, <2>1 DEF IInv, UnitsIntact, Leaves
  <2>2. CASE Taken(FALSE, FALSE, FALSE, 4, z)
    BY <1>2, <1>4, <1>5, <2>2 DEF UnitsIntact, Leaves
  <2> QED BY <1>4, <2>1, <2>2 DEF Skipped, Leaves
<1> QED BY <1>4, <1>6, <1>7, <1>8, <1>9 DEF IInv, Leaves

\* The packet with the start bit, with or without side data.
LEMMA FirstKeeps ==
    ASSUME IInv, ~Small, enc.i = 0, NEW m \in BOOLEAN,
           Sends("send", 1, 5 + MaxPkt, TRUE, TRUE, FALSE, m, 5, 5 + MaxPkt)
    PROVE  IInv'
<1>0. PICK z \in Nat : z = 5 + MaxPkt /\ z = At(1)
  BY PacketAssumption, PacketStarts
<1>1. Sends("send", 1, z, TRUE, TRUE, FALSE, m, 5, z) /\ enc.pc = "send"
  BY <1>0 DEF Sends, sendRtpPacket
<1>2. Leaves("send", 1, z, TRUE, TRUE, FALSE, m, 5, z)
  BY <1>0, <1>1, SentKeeps
<1>3. Taken(TRUE, TRUE, FALSE, 5, z) =>
        /\ viewer'.part = [open |-> TRUE, lo |-> 5, hi |-> z, joined |-> TRUE] /\ viewer'.got = viewer.got
        /\ viewer'.lost = 0
  BY DEF Taken
<1>4. Place'
  <2>1. pktNum \in Nat
    BY SizeFits
  <2> QED BY <1>0, <1>2, <2>1 DEF Place, Leaves
<1>5. PartFits'
  <2>1. CASE ~viewer.on /\ viewer' = viewer
    BY <1>2, <2>1 DEF PartFits, Leaves
  <2>2. CASE Skipped
    BY <1>2, <2>2 DEF PartFits, Leaves, Skipped
  <2>3. CASE Taken(TRUE, TRUE, FALSE, 5, z)
    BY <1>2, <1>3, <2>3 DEF PartFits, Leaves
  <2> QED BY <1>2, <2>1, <2>2, <2>3 DEF Leaves
<1>6. HasAll'
  <2>1. ASSUME viewer'.whole PROVE viewer'.on /\ viewer'.lost = 0 /\ viewer'.part.open
    BY <1>2, <1>3, <2>1 DEF Leaves
  <2>2. NeverEnded(enc'.size) <=> pktNum = 1 /\ remainPktSize = 0
    BY <1>2, SizeFits DEF Leaves
  <2> QED BY <1>2, <2>1, <2>2 DEF HasAll, Leaves
<1>7. UnitsIntact'
  <2>1. viewer'.got = viewer.got
    BY <1>2, <1>3 DEF Leaves, Skipped
  <2> QED BY <1>2, <2>1 DEF IInv, UnitsIntact, Leaves
<1> QED BY <1>2, <1>4, <1>5, <1>6, <1>7 DEF IInv, Leaves

LEMMA FirstExtStep == IInv /\ SendFirstExt => IInv'
<1> SUFFICES ASSUME IInv, SendFirstExt PROVE IInv'
  OBVIOUS
<1>1. PICK m \in BOOLEAN : m = mMarker
  BY SizeFits
<1>2. ~Small /\ enc.i = 0
  BY SizeFits DEF SendFirstExt, IInv, Place
<1>3. Sends("send", 1, 5 + MaxPkt, TRUE, TRUE, FALSE, m, 5, 5 + MaxPkt)
  <2>1. enc.pc = "send" /\ enc' = [enc EXCEPT !.pc = "send", !.i = 1, !.pos = 5 + MaxPkt]
    BY DEF SendFirstExt, IInv, Types
  <2>2. sendRtpPacket(TRUE, TRUE, FALSE, m, 5, 5 + MaxPkt)
    BY <1>1 DEF SendFirstExt, sendRtpPacket
  <2> QED BY <2>1, <2>2 DEF Sends
<1> QED BY <1>1, <1>2, <1>3, FirstKeeps

LEMMA FullStep == IInv /\ SendFull => IInv'
<1> SUFFICES ASSUME IInv, SendFull PROVE IInv'
  OBVIOUS
<1>1. /\ enc.pc = "send" /\ ~Small /\ ~mExtension /\ enc.i < pktNum
      /\ enc' = [enc EXCEPT !.i = enc.i + 1, !.pos = Start(enc.i, enc.pos) + MaxPkt]
      /\ sendRtpPacket(TRUE, enc.i = 0, Ends(enc.i), IF enc.i = 0 THEN mMarker ELSE Ends(enc.i),
                       Start(enc.i, enc.pos), Start(enc.i, enc.pos) + MaxPkt)
  BY DEF SendFull, IInv, Types
<1>2. MaxPkt \in Nat
  BY PacketAssumption
<1>3. CASE enc.i = 0
  <2>1. Start(enc.i, enc.pos) = 5 /\ ~Ends(enc.i)
    BY <1>3 DEF IInv, Place, Start, Ends
  <2>2. PICK m \in BOOLEAN : m = mMarker
    BY SizeFits
  <2>3. Sends("send", 1, 5 + MaxPkt, TRUE, TRUE, FALSE, m, 5, 5 + MaxPkt)
    <3>1. enc' = [enc EXCEPT !.pc = "send", !.i = 1, !.pos = 5 + MaxPkt]
      <4>1. enc.i + 1 = 1 /\ Start(enc.i, enc.pos) + MaxPkt = 5 + MaxPkt
        BY <1>3, <2>1
      <4>2. enc' = [enc EXCEPT !.i = 1, !.pos = 5 + MaxPkt]
        BY <1>1, <4>1, Zenon
      <4> QED BY <1>1, <4>2 DEF IInv, Types
    <3>2. sendRtpPacket(TRUE, TRUE, FALSE, m, 5, 5 + MaxPkt)
      BY <1>1, <1>3, <2>1, <2>2 DEF sendRtpPacket, Ends
    <3> QED BY <1>1, <3>1, <3>2 DEF Sends
  <2> QED BY <1>1, <1>3, <2>3, FirstKeeps
<1>4. CASE enc.i # 0
  <2>1. PICK j \in Nat, z \in Nat, y \in Nat, e \in BOOLEAN :
           /\ j = enc.i + 1 /\ z = enc.pos /\ y = enc.pos + MaxPkt
           /\ e <=> (remainPktSize = 0 /\ enc.i = pktNum - 1)
    <3>1. enc.i + 1 \in Nat /\ enc.pos \in Nat /\ enc.pos + MaxPkt \in Nat
      BY <1>2, SizeFits
    <3> QED BY <3>1
  <2>2. Start(enc.i, enc.pos) = z /\ Start(enc.i, enc.pos) + MaxPkt = y /\ (Ends(enc.i) <=> e)
    BY <1>4, <2>1 DEF Start, Ends
  <2>3. Sends("send", j, y, TRUE, FALSE, e, e, z, y)
    <3>1. enc' = [enc EXCEPT !.pc = "send", !.i = j, !.pos = y]
      BY <1>1, <2>1, <2>2 DEF IInv, Types
    <3>2. sendRtpPacket(TRUE, FALSE, e, e, z, y)
      BY <1>1, <1>4, <2>2 DEF sendRtpPacket, Ends
    <3> QED BY <1>1, <3>1, <3>2 DEF Sends
  <2>4. Leaves("send", j, y, TRUE, FALSE, e, e, z, y)
    BY <2>3, SentKeeps
  <2>5. /\ pktNum \in Nat /\ remainPktSize \in Nat /\ enc.i \in Nat /\ enc.i > 0
        /\ z = At(enc.i) /\ y = At(j) /\ Fine
        /\ At(pktNum) + remainPktSize = enc.size
    <3>1. z = At(enc.i)
      BY <1>1, <1>4, <2>1, SizeFits DEF IInv, Place
    <3>2. y = At(j)
      BY <2>1, <3>1, PacketStarts, SizeFits
    <3> QED BY <1>1, <1>4, <3>1, <3>2, SizeFits DEF Fine
  <2>6. e <=> (j = pktNum /\ remainPktSize = 0)
    <3>1. enc.i = pktNum - 1 <=> j = pktNum
      BY <2>1, <2>5
    <3> QED BY <2>1, <3>1, Zenon
  <2>7. j <= pktNum /\ j > 1
    BY <1>1, <2>1, <2>5
  <2>8. CASE Taken(TRUE, FALSE, e, z, y) /\ viewer.lost = 0 /\ viewer.part.open
    <3>1. viewer.part.joined /\ viewer.part.lo = 5 /\ viewer.part.hi = z
      BY <1>1, <2>1, <2>5, <2>8 DEF IInv, PartFits, Taken
    <3>2. ~e => /\ viewer'.got = viewer.got
                /\ viewer'.part.open /\ viewer'.part.joined /\ viewer'.part.lo = 5 /\ viewer'.part.hi = y
      BY <2>8, <3>1, Zenon DEF Taken
    <3>3. e => viewer'.part = NoPart /\ viewer'.got.lo = 5 /\ viewer'.got.hi = y /\ viewer'.got.intact
      BY <2>8, <3>1, Zenon DEF Taken
    <3>4. e => viewer'.got # NoNal /\ y = enc.size
      <4>1. NoNal.lo # 5
        BY DEF NoNal
      <4> QED BY <2>5, <2>6, <3>3, <4>1
    <3>5. Place' /\ PartFits'
      <4>1. Place'
        <5>1. j \in 0 .. pktNum + 1 /\ j > 0 /\ j # 0
          BY <2>1, <2>5, <2>7
        <5>2. ~Small /\ ~mExtension' /\ y = At(j) /\ (pktNum > 0 => j <= pktNum)
          BY <1>1, <2>4, <2>5, <2>7 DEF Leaves
        <5>3. j = pktNum /\ remainPktSize = 0 => mMarker'
          BY <2>4, <2>6, Zenon DEF Leaves
        <5> QED BY <2>4, <5>1, <5>2, <5>3 DEF Place, Leaves
      <4>2. viewer'.part.open => ~e
        BY <3>3 DEF NoPart
      <4>3. PartFits'
        BY <2>4, <3>2, <4>2 DEF PartFits, Leaves
      <4> QED BY <4>1, <4>3
    <3>6. HasAll'
      <4>1. viewer'.lost = 0 /\ viewer'.on
        BY <2>8 DEF Taken
      <4>2. IF j = pktNum /\ remainPktSize = 0 THEN viewer'.got # NoNal ELSE viewer'.part.open
        BY <2>6, <3>2, <3>4
      <4> QED BY <2>4, <4>1, <4>2 DEF HasAll, Leaves
    <3>7. UnitsIntact'
      <4>1. CASE e
        BY <2>4, <3>3, <3>4, <4>1 DEF UnitsIntact, Leaves
      <4>2. CASE ~e
        BY <2>4, <3>2, <4>2 DEF IInv, UnitsIntact, Leaves
      <4> QED BY <4>1, <4>2
    <3> QED BY <2>4, <3>5, <3>6, <3>7 DEF IInv, Leaves
  <2>9. CASE ~(Taken(TRUE, FALSE, e, z, y) /\ viewer.lost = 0 /\ viewer.part.open)
    <3>1. viewer'.got = viewer.got /\ (viewer'.on /\ viewer'.lost = 0 => ~viewer'.part.open)
      <4>1. CASE ~viewer.on /\ viewer' = viewer
        BY <4>1
      <4>2. CASE Skipped
        BY <4>2 DEF Skipped
      <4>3. CASE Taken(TRUE, FALSE, e, z, y)
        BY <2>9, <4>3 DEF Taken, NoPart
      <4> QED BY <2>4, <4>1, <4>2, <4>3 DEF Leaves
    <3>2. Place'
      <4>1. j \in 0 .. pktNum + 1 /\ j > 0 /\ j # 0
        BY <2>1, <2>5, <2>7
      <4>2. ~Small /\ ~mExtension' /\ y = At(j) /\ (pktNum > 0 => j <= pktNum)
        BY <1>1, <2>4, <2>5, <2>7 DEF Leaves
      <4>3. j = pktNum /\ remainPktSize = 0 => mMarker'
        BY <2>4, <2>6, Zenon DEF Leaves
      <4> QED BY <2>4, <4>1, <4>2, <4>3 DEF Place, Leaves
    <3>3. PartFits'
      BY <2>4, <3>1 DEF PartFits, Leaves
    <3>4. HasAll'
      <4>1. ASSUME viewer'.whole, ~NeverEnded(enc.size) PROVE FALSE
        <5>1. viewer.whole /\ Taken(TRUE, FALSE, e, z, y)
          BY <2>4, <4>1 DEF Leaves
        <5>2. enc.i # pktNum
          BY <1>1, <2>5
        <5>3. viewer.lost = 0 /\ viewer.part.open
          BY <1>1, <2>5, <4>1, <5>1, <5>2 DEF IInv, HasAll
        <5> QED BY <2>9, <5>1, <5>3
      <4>2. viewer'.whole => viewer'.on
        BY <2>4 DEF Leaves
      <4> QED BY <2>4, <4>1, <4>2 DEF HasAll, Leaves
    <3>5. UnitsIntact'
      BY <2>4, <3>1 DEF IInv, UnitsIntact, Leaves
    <3> QED BY <2>4, <3>2, <3>3, <3>4, <3>5 DEF IInv, Leaves
  <2> QED BY <2>8, <2>9
<1> QED BY <1>3, <1>4

LEMMA RestStep == IInv /\ SendRest => IInv'
<1> SUFFICES ASSUME IInv, SendRest PROVE IInv'
  OBVIOUS
<1>1. /\ enc.pc = "send" /\ ~Small /\ ~mExtension /\ enc.i >= pktNum /\ remainPktSize > 0
      /\ sendRtpPacket(TRUE, FALSE, TRUE, TRUE, enc.pos, enc.pos + remainPktSize)
      /\ enc' = [enc EXCEPT !.pc = "done"]
  BY DEF SendRest
<1>2. PICK j \in Nat, z \in Nat, y \in Nat : j = enc.i /\ z = enc.pos /\ y = enc.pos + remainPktSize
  <2>1. MaxPkt \in Nat
    BY PacketAssumption
  <2>2. enc.i \in Nat /\ enc.pos \in Nat /\ enc.pos + remainPktSize \in Nat
    BY <2>1, SizeFits
  <2> QED BY <2>2
<1>3. Sends("done", j, z, TRUE, FALSE, TRUE, TRUE, z, y)
  <2>1. enc' = [enc EXCEPT !.pc = "done", !.i = j, !.pos = z]
    BY <1>1, <1>2 DEF IInv, Types
  <2>2. sendRtpPacket(TRUE, FALSE, TRUE, TRUE, z, y)
    BY <1>1, <1>2 DEF sendRtpPacket
  <2> QED BY <1>1, <2>1, <2>2 DEF Sends
<1>4. Leaves("done", j, z, TRUE, FALSE, TRUE, TRUE, z, y)
  BY <1>3, SentKeeps
<1>5. ASSUME ~TooShort(enc.size) PROVE j = pktNum /\ j > 0 /\ Fine /\ y = enc.size
  <2>1. pktNum \in Nat /\ pktNum # 0 /\ enc.i \in Nat
    BY <1>1, <1>5, SizeFits
  <2>2. enc.i > 0 /\ enc.i <= pktNum /\ enc.pos = At(enc.i)
    BY <1>1, <2>1 DEF IInv, Place
  <2>3. enc.i = pktNum
    BY <1>1, <2>1, <2>2
  <2> QED BY <1>1, <1>2, <1>5, <2>1, <2>2, <2>3, SizeFits DEF Fine
<1>6. CASE Taken(TRUE, FALSE, TRUE, z, y) /\ viewer.lost = 0 /\ viewer.part.open
  <2>1. viewer'.got.lo = viewer.part.lo /\ viewer'.got.hi = y
    BY <1>6 DEF Taken
  <2>2. ~TooShort(enc.size) => /\ viewer'.got.lo = 5 /\ viewer'.got.intact
    <3>1. ~TooShort(enc.size) => viewer.part.joined /\ viewer.part.lo = 5 /\ viewer.part.hi = z
      BY <1>1, <1>2, <1>5, <1>6 DEF IInv, PartFits, Taken
    <3> QED BY <1>6, <2>1, <3>1, Zenon DEF Taken
  <2>3. ~TooShort(enc.size) => viewer'.got # NoNal
    <3>1. NoNal.lo # 5
      BY DEF NoNal
    <3> QED BY <2>2, <3>1
  <2>4. HasAll'
    BY <1>4, <1>6, <2>3 DEF HasAll, Leaves, Taken
  <2>5. UnitsIntact'
    BY <1>4, <1>5, <2>1, <2>2 DEF UnitsIntact, Leaves
  <2>6. Place'
    BY <1>2, <1>4, SizeFits DEF IInv, Place, Leaves
  <2>7. PartFits'
    BY <1>4 DEF PartFits, Leaves
  <2> QED BY <1>4, <2>4, <2>5, <2>6, <2>7 DEF IInv, Leaves
<1>7. CASE ~(Taken(TRUE, FALSE, TRUE, z, y) /\ viewer.lost = 0 /\ viewer.part.open)
  <2>1. viewer'.got = viewer.got
    BY <1>4, <1>7 DEF Leaves, Skipped, Taken
  <2>2. HasAll'
    <3>1. ASSUME viewer'.whole, ~TooShort(enc.size), ~NeverEnded(enc.size) PROVE FALSE
      <4>1. viewer.whole /\ Taken(TRUE, FALSE, TRUE, z, y)
        BY <1>4, <3>1 DEF Leaves
      <4>2. viewer.lost = 0 /\ viewer.part.open
        BY <1>1, <1>2, <1>5, <3>1, <4>1 DEF IInv, HasAll
      <4> QED BY <1>7, <4>1, <4>2
    <3>2. viewer'.whole => viewer'.on
      BY <1>4 DEF Leaves
    <3> QED BY <1>4, <3>1, <3>2 DEF HasAll, Leaves
  <2>3. UnitsIntact'
    BY <1>4, <2>1 DEF IInv, UnitsIntact, Leaves
  <2>4. Place'
    BY <1>2, <1>4, SizeFits DEF IInv, Place, Leaves
  <2>5. PartFits'
    BY <1>4 DEF PartFits, Leaves
  <2> QED BY <1>4, <2>2, <2>3, <2>4, <2>5 DEF IInv, Leaves
<1> QED BY <1>6, <1>7

LEMMA NoRestStep == IInv /\ NoRest => IInv'
<1> SUFFICES ASSUME IInv, NoRest PROVE IInv'
  OBVIOUS
<1>1. /\ enc.pc = "send" /\ ~Small /\ ~mExtension /\ enc.i >= pktNum /\ remainPktSize = 0
      /\ enc' = [enc EXCEPT !.pc = "done"]
      /\ UNCHANGED <<box_count, box_count_obj, clean_flag, mSeq, mTimestamp, mMarker, mExtension, viewer, params>>
  BY DEF NoRest, sinkVars
<1>2. /\ enc'.pc = "done" /\ enc'.type = enc.type /\ enc'.size = enc.size /\ enc'.i = enc.i
      /\ enc'.pos = enc.pos /\ enc'.count = enc.count
      /\ pktNum' = pktNum /\ remainPktSize' = remainPktSize
  BY <1>1 DEF IInv, Types, pktNum, remainPktSize
<1>3. Types'
  BY <1>1 DEF IInv, Types
<1>4. enc.i = pktNum /\ enc.i > 0 /\ Fine
  <2>1. pktNum \in Nat /\ pktNum # 0 /\ enc.i \in Nat
    BY <1>1, SizeFits
  <2>2. enc.i <= pktNum
    BY <1>1, <2>1 DEF IInv, Place
  <2> QED BY <1>1, <2>1, <2>2, SizeFits DEF Fine
<1>5. ~NeverEnded(enc.size) => pktNum > 1
  BY <1>1, <1>4, SizeFits
<1>6. Place'
  BY <1>1, <1>2, <1>4, <1>5 DEF IInv, Place
<1>7. HasAll'
  BY <1>1, <1>2, <1>4 DEF IInv, HasAll
<1>8. Tracking' /\ PartFits' /\ UnitsIntact' /\ ShowsLast'
  BY <1>1, <1>2 DEF IInv, Tracking, PartFits, UnitsIntact, ShowsLast
<1> QED BY <1>3, <1>6, <1>7, <1>8 DEF IInv

\* The number of full packets of an encoded unit.
LEMMA FullPackets ==
    ASSUME NEW z \in Nat, z > 4
    PROVE  (z - 5) \div MaxPkt \in Nat
BY PacketAssumption, Division

LEMMA EndStep == IInv /\ EndCallback => IInv'
<1> SUFFICES ASSUME IInv, EndCallback PROVE IInv'
  OBVIOUS
<1>1. /\ enc.pc = "done" /\ enc' = Idle
      /\ mTimestamp' = IF KeepsStamp THEN mTimestamp ELSE (mTimestamp + 1) % StampMod
      /\ clean_flag' = (enc.count > 0)
      /\ params' = IF Small /\ enc.type = "param" THEN mTimestamp ELSE NoStamp
      /\ viewer' = [viewer EXCEPT !.got = NoNal]
      /\ UNCHANGED <<box_count, box_count_obj, mSeq, mMarker, mExtension>>
  BY DEF EndCallback
<1>2. /\ enc'.pc = "idle" /\ enc'.i = 0 /\ enc'.pos = 0 /\ enc'.size = 5
      /\ enc' \in [pc : {"idle", "send", "done"}, type : NalTypes, size : {n \in Nat : n > 4},
                   count : 0 .. MaxFaces + MaxObjs, i : Nat, pos : Nat]
  BY <1>1, BoxAssumption DEF Idle, NalTypes
<1>3. /\ viewer' \in Viewers /\ viewer'.got = NoNal /\ viewer'.on = viewer.on
      /\ viewer'.expect = viewer.expect /\ viewer'.lost = viewer.lost
      /\ viewer'.whole = viewer.whole /\ viewer'.shown = viewer.shown /\ viewer'.missed = viewer.missed
  BY <1>1 DEF IInv, Types, Viewers, NoNal, Nals
<1>4. Types'
  <2>1. mTimestamp' \in 0 .. StampMod - 1
    BY <1>1, WrapStamp DEF IInv, Types
  <2>2. params' \in 0 .. StampMod
    BY <1>1, WrapAssumption DEF IInv, Types, NoStamp
  <2> QED BY <1>1, <1>2, <1>3, <2>1, <2>2 DEF IInv, Types
<1>5. Place'
  <2>1. pktNum' \in Nat
    <3>1. pktNum' = (enc'.size - 5) \div MaxPkt
      BY DEF pktNum
    <3> QED BY <1>2, <3>1, FullPackets
  <2>2. params' \in {mTimestamp', NoStamp}
    BY <1>1 DEF KeepsStamp
  <2>3. 0 \in 0 .. pktNum' + 1
    <3>1. PICK n \in Nat : n = pktNum'
      BY <2>1
    <3>2. 0 \in 0 .. n + 1
      OBVIOUS
    <3> QED BY <3>1, <3>2
  <2> QED BY <1>2, <2>2, <2>3 DEF Place
<1>6. Tracking'
  <2>1. CASE viewer.on
    BY <1>1, <1>3, <2>1 DEF IInv, Tracking
  <2>2. CASE ~viewer.on
    BY <1>1, <1>3, <2>2, AwayIsViewer DEF IInv, Tracking, Away
  <2> QED BY <2>1, <2>2
<1>7. PartFits' /\ HasAll' /\ UnitsIntact'
  BY <1>2, <1>3 DEF IInv, PartFits, HasAll, UnitsIntact
<1>8. ShowsLast'
  <2>1. enc.count \in Nat /\ mExtension = FALSE
    BY <1>1, BoxAssumption DEF IInv, Types, Place
  <2>2. ~clean_flag' => enc.count = 0
    <3>1. ~clean_flag' => ~(enc.count > 0)
      BY <1>1, Zenon
    <3>2. ~(enc.count > 0) => enc.count = 0
      BY <2>1
    <3> QED BY <3>1, <3>2, Zenon
  <2> QED BY <1>1, <1>2, <1>3, <2>1, <2>2 DEF IInv, ShowsLast
<1> QED BY <1>4, <1>5, <1>6, <1>7, <1>8 DEF IInv

LEMMA CallbackStep ==
    ASSUME IInv, NEW type \in NalTypes, NEW size \in Sizes, venc_h264_callback(type, size)
    PROVE  IInv'
<1>1. PICK count : count = box_count + box_count_obj
  OBVIOUS
<1>2. /\ enc.pc = "idle"
      /\ enc' = [pc |-> "send", type |-> type, size |-> size, count |-> count, i |-> 0, pos |-> 0]
      /\ mExtension' = (count > 0 \/ clean_flag)
      /\ mMarker' = FALSE
      /\ viewer' = [viewer EXCEPT !.part.joined = ~viewer.part.open, !.whole = viewer.on]
      /\ UNCHANGED <<box_count, box_count_obj, clean_flag, mSeq, mTimestamp, params>>
  BY <1>1 DEF venc_h264_callback, WithBoxes
<1>3. size \in Nat /\ size > 4
  BY PacketAssumption
<1>4. count \in 0 .. MaxFaces + MaxObjs /\ count \in Nat
  BY <1>1, BoxAssumption DEF IInv, Types
<1>5. /\ enc' \in [pc : {"idle", "send", "done"}, type : NalTypes, size : {n \in Nat : n > 4},
                   count : 0 .. MaxFaces + MaxObjs, i : Nat, pos : Nat]
      /\ enc'.pc = "send" /\ enc'.i = 0 /\ enc'.pos = 0 /\ enc'.count = count /\ enc'.size = size
  BY <1>2, <1>3, <1>4
<1>6. /\ viewer' \in Viewers /\ viewer'.on = viewer.on /\ viewer'.got = viewer.got
      /\ viewer'.expect = viewer.expect /\ viewer'.lost = viewer.lost /\ viewer'.whole = viewer.on
      /\ viewer'.shown = viewer.shown /\ viewer'.missed = viewer.missed
  BY <1>2 DEF IInv, Types, Viewers, Parts
<1>7. Types'
  <2>1. mExtension' \in BOOLEAN /\ mMarker' \in BOOLEAN
    BY <1>2
  <2> QED BY <1>2, <1>5, <1>6, <2>1 DEF IInv, Types
<1>8. Place'
  <2>1. pktNum' \in Nat
    <3>1. pktNum' = (enc'.size - 5) \div MaxPkt
      BY DEF pktNum
    <3> QED BY <1>3, <1>5, <3>1, FullPackets
  <2> QED BY <1>2, <1>5, <2>1 DEF IInv, Place
<1>9. Tracking'
  <2>1. CASE viewer.on
    BY <1>2, <1>6, <2>1 DEF IInv, Tracking
  <2>2. CASE ~viewer.on
    <3>1. viewer = Away
      BY <2>2 DEF IInv, Tracking
    <3>2. viewer' = Away
      BY <1>2, <3>1 DEF Away, NoPart
    <3> QED BY <1>6, <2>2, <3>2 DEF Tracking
  <2> QED BY <2>1, <2>2
<1>10. PartFits' /\ HasAll' /\ UnitsIntact'
  BY <1>2, <1>5, <1>6 DEF IInv, PartFits, HasAll, UnitsIntact
<1>11. ShowsLast'
  <2>1. ~mExtension' => count = 0 /\ ~clean_flag
    <3>1. ~mExtension' => ~(count > 0) /\ ~clean_flag
      BY <1>2, Zenon
    <3>2. ~(count > 0) => count = 0
      BY <1>4
    <3> QED BY <3>1, <3>2, Zenon
  <2> QED BY <1>2, <1>5, <1>6, <2>1 DEF IInv, ShowsLast
<1> QED BY <1>7, <1>8, <1>9, <1>10, <1>11 DEF IInv
-----------------------------------------------------------------------------
(* The detectors and the viewer *)

LEMMA SaveStep ==
    ASSUME IInv, NEW n \in 0 .. MaxDetected, save_box(n) \/ save_box_obj(n)
    PROVE  IInv'
<1>1. UNCHANGED <<enc, clean_flag, mSeq, mTimestamp, mMarker, mExtension, viewer, params>>
  BY DEF save_box, save_box_obj, sinkVars
<1>2. \A limit \in Nat : Kept(n, limit) \in 0 .. limit
  BY BoxAssumption DEF Kept
<1>3. box_count' \in 0 .. MaxFaces /\ box_count_obj' \in 0 .. MaxObjs
  BY <1>2, BoxAssumption DEF save_box, save_box_obj, IInv, Types
<1>4. Types'
  BY <1>1, <1>3 DEF IInv, Types
<1>5. pktNum' = pktNum /\ remainPktSize' = remainPktSize /\ (Small' <=> Small)
  BY <1>1 DEF pktNum, remainPktSize, Small
<1>6. Place'
  BY <1>1, <1>5 DEF IInv, Place
<1>7. Tracking' /\ ShowsLast' /\ UnitsIntact'
  BY <1>1 DEF IInv, Tracking, ShowsLast, UnitsIntact
<1>8. PartFits' /\ HasAll'
  BY <1>1, <1>5 DEF IInv, PartFits, HasAll, Fine
<1> QED BY <1>4, <1>6, <1>7, <1>8 DEF IInv

LEMMA PlayLeaveStep ==
    ASSUME IInv, Play \/ Leave
    PROVE  IInv'
<1>1. UNCHANGED <<box_count, box_count_obj, enc, clean_flag, mSeq, mTimestamp, mMarker, mExtension, params>>
  BY DEF Play, Leave, sinkVars
<1>2. pktNum' = pktNum /\ remainPktSize' = remainPktSize /\ (Small' <=> Small)
  BY <1>1 DEF pktNum, remainPktSize, Small
<1>3. Place'
  BY <1>1, <1>2 DEF IInv, Place
<1>4. CASE Leave
  <2>1. viewer' = Away
    BY <1>4 DEF Leave
  <2>2. viewer' \in Viewers /\ ~viewer'.on /\ viewer'.got = NoNal /\ ~viewer'.whole
    BY <2>1, AwayIsViewer
  <2>3. Types'
    BY <1>1, <2>2 DEF IInv, Types
  <2>4. Tracking' /\ PartFits' /\ HasAll' /\ UnitsIntact' /\ ShowsLast'
    BY <2>1, <2>2 DEF Tracking, PartFits, HasAll, UnitsIntact, ShowsLast
  <2> QED BY <1>3, <2>3, <2>4 DEF IInv
<1>5. CASE Play
  <2>1. viewer' = [Away EXCEPT !.on = TRUE, !.expect = mSeq, !.missed = enc.pc # "idle"]
    BY <1>5 DEF Play
  <2>2. PICK m \in BOOLEAN, x \in 0 .. SeqMod - 1 : x = mSeq /\ (m <=> enc.pc # "idle")
    BY DEF IInv, Types
  <2>3. viewer' = [on |-> TRUE, expect |-> x, lost |-> 0, part |-> NoPart, got |-> NoNal, shown |-> 0,
                   whole |-> FALSE, missed |-> m]
    BY <2>1, <2>2 DEF Away
  <2>4. NoPart \in Parts /\ NoNal \in Nals /\ ~NoPart.open
    BY DEF NoPart, NoNal, Parts, Nals
  <2>5. 0 \in 0 .. MaxLost /\ 0 \in 0 .. ExtBoxes
    BY WrapAssumption, BoxAssumption
  <2>6. /\ viewer' \in Viewers /\ viewer'.on /\ viewer'.expect = x /\ viewer'.lost = 0 /\ ~viewer'.part.open
        /\ viewer'.got = NoNal /\ viewer'.shown = 0 /\ ~viewer'.whole /\ viewer'.missed = m
    BY <2>3, <2>4, <2>5 DEF Viewers
  <2>7. Types'
    BY <1>1, <2>6 DEF IInv, Types
  <2>8. Tracking'
    <3>1. mSeq' = x + 0
      BY <1>1, <2>2, WrapAssumption
    <3> QED BY <2>6, <3>1 DEF Tracking
  <2>9. PartFits' /\ HasAll' /\ UnitsIntact'
    BY <2>6 DEF PartFits, HasAll, UnitsIntact
  <2>10. ShowsLast'
    BY <1>1, <2>2, <2>6 DEF ShowsLast
  <2> QED BY <1>3, <2>7, <2>8, <2>9, <2>10 DEF IInv
<1> QED BY <1>4, <1>5
-----------------------------------------------------------------------------
(* The theorems *)

LEMMA IInvInit == Init => IInv
<1> SUFFICES ASSUME Init PROVE IInv
  OBVIOUS
<1>1. /\ box_count = 0 /\ box_count_obj = 0 /\ enc = Idle /\ clean_flag = FALSE
      /\ mSeq = 0 /\ mTimestamp = 0 /\ mMarker = FALSE /\ mExtension = TRUE
      /\ viewer = Away /\ params = NoStamp
  BY DEF Init
<1>2. /\ enc.pc = "idle" /\ enc.i = 0 /\ enc.pos = 0 /\ enc.size = 5
      /\ enc \in [pc : {"idle", "send", "done"}, type : NalTypes, size : {n \in Nat : n > 4},
                  count : 0 .. MaxFaces + MaxObjs, i : Nat, pos : Nat]
  BY <1>1, BoxAssumption DEF Idle, NalTypes
<1>3. Types
  <2>1. 0 \in 0 .. MaxFaces /\ 0 \in 0 .. MaxObjs
    BY BoxAssumption
  <2>2. 0 \in 0 .. SeqMod - 1 /\ 0 \in 0 .. StampMod - 1 /\ StampMod \in 0 .. StampMod
    BY WrapAssumption
  <2> QED BY <1>1, <1>2, <2>1, <2>2, AwayIsViewer DEF Types, NoStamp
<1>4. Place
  <2>1. pktNum \in Nat
    BY <1>2, FullPackets DEF pktNum
  <2> QED BY <1>1, <1>2, <2>1 DEF Place
<1>5. Tracking /\ PartFits /\ HasAll /\ UnitsIntact /\ ShowsLast
  BY <1>1, <1>2, AwayIsViewer DEF Tracking, PartFits, HasAll, UnitsIntact, ShowsLast
<1> QED BY <1>3, <1>4, <1>5 DEF IInv

LEMMA IInvStep == IInv /\ [Next]_vars => IInv'
<1> SUFFICES ASSUME IInv, [Next]_vars PROVE IInv'
  OBVIOUS
<1>1. CASE Encoder
  BY <1>1, CallbackStep, WholeStep, FirstExtStep, FullStep, RestStep, NoRestStep, EndStep DEF Encoder
<1>2. CASE Detectors
  BY <1>2, SaveStep DEF Detectors
<1>3. CASE Play \/ Leave
  BY <1>3, PlayLeaveStep
<1>4. CASE vars' = vars
  <2>1. UNCHANGED <<box_count, box_count_obj, enc, clean_flag, mSeq, mTimestamp, mMarker, mExtension, viewer, params>>
    BY <1>4 DEF vars, sinkVars
  <2>2. pktNum' = pktNum /\ remainPktSize' = remainPktSize /\ (Small' <=> Small)
    BY <2>1 DEF pktNum, remainPktSize, Small
  <2>3. Types' /\ Place'
    BY <2>1, <2>2 DEF IInv, Types, Place
  <2>4. Tracking' /\ ShowsLast' /\ UnitsIntact'
    BY <2>1 DEF IInv, Tracking, ShowsLast, UnitsIntact
  <2>5. PartFits' /\ HasAll'
    BY <2>1, <2>2 DEF IInv, PartFits, HasAll, Fine
  <2> QED BY <2>3, <2>4, <2>5 DEF IInv
<1> QED BY <1>1, <1>2, <1>3, <1>4 DEF Next

LEMMA IInvAlways == Spec => []IInv
BY IInvInit, IInvStep, PTL DEF Spec

\* The box counts, handleFrame's packet counter, the sink's fields and the viewer keep their types.
THEOREM TypeCorrect == Spec => []TypeOK
<1>1. IInv => TypeOK
  BY DEF IInv, Types, Place, Viewers, TypeOK
<1> QED BY <1>1, IInvAlways, PTL

\* For every packet size and every set of unit sizes: a unit a viewer puts together is the
\* encoder's from the first byte to the last, whenever it came and whatever it lost.
THEOREM UnitsAlwaysIntact == Spec => []UnitsIntact
<1>1. IInv => UnitsIntact
  BY DEF IInv
<1> QED BY <1>1, IInvAlways, PTL

\* A viewer that gets all packets of a unit that handleFrame cuts well has the unit at its end, a
\* picture with its marker and, with the small parameter sets before it, in one time stamp.
THEOREM UnitsAlwaysArrive == Spec => []UnitsArrive
<1>1. IInv => UnitsArrive
  BY DEF IInv, HasAll, Place, UnitsArrive
<1> QED BY <1>1, IInvAlways, PTL

\* What a viewer shows is what the encoder's callback last counted, unless it missed side data.
THEOREM BoxesAlwaysCurrent == Spec => []BoxesCurrent
<1>1. IInv => BoxesCurrent
  BY DEF IInv, Place, ShowsLast, BoxesCurrent
<1> QED BY <1>1, IInvAlways, PTL
=============================================================================
