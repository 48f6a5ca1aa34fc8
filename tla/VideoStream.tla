---------------------------- MODULE VideoStream ----------------------------
(***************************************************************************)
(* From the encoder to a viewer: the detection threads leave the boxes of  *)
(* the faces and objects they found (save_box, save_box_obj), the          *)
(* encoder's thread sends every NAL unit with the boxes of that moment as  *)
(* side data (venc_h264_callback), and H264RtpSink cuts it into RTP        *)
(* packets, one step per packet, so that a viewer can come, go and lose    *)
(* packets in the middle of a unit.                                        *)
(*                                                                         *)
(* A packet's body is the interval of the frame's bytes it carries; the    *)
(* first four are the start code, the fifth is the NAL header.  Boxes are  *)
(* counted.  The viewer follows RFC 6184 and shows the last boxes sent.    *)
(***************************************************************************)
EXTENDS Naturals, FiniteSets

CONSTANTS MaxPkt,       \* RTP_MAX_PKT_SIZE, 1400
          MaxFaces,     \* 16, where save_box stops
          MaxObjs,      \* 6, where save_box_obj stops
          ExtBoxes,     \* the whole boxes that fit in the 200 bytes of xbuf, 24
          MaxDetected,  \* bound: the boxes of one detection
          Sizes,        \* bound: the sizes of encoded units, start code included
          SeqMod,       \* 2^16
          StampMod,     \* 2^32, in steps of mClockRate / mFps
          MaxLost       \* bound: packets lost one after the other

ASSUME PacketAssumption == MaxPkt \in Nat /\ MaxPkt > 4 /\ Sizes \subseteq Nat /\ \A s \in Sizes : s > 4
ASSUME BoxAssumption == /\ MaxFaces \in Nat /\ MaxObjs \in Nat /\ MaxDetected \in Nat
                        /\ ExtBoxes \in Nat /\ ExtBoxes >= MaxFaces + MaxObjs
ASSUME WrapAssumption == /\ SeqMod \in Nat /\ StampMod \in Nat \ {0} /\ MaxLost \in Nat
                         /\ SeqMod > MaxLost + 1

\* SPS and PPS; 0x65 and 0x61; anything else, such as SEI.
NalTypes == {"param", "slice", "other"}

NoStamp == StampMod
NoBoxes == [sent |-> FALSE, count |-> 0]

VARIABLES box_count, box_count_obj,
          enc,          \* the encoder's thread in venc_h264_callback
          clean_flag,
          mSeq, mTimestamp, mMarker,
          mExtension,   \* with mXdata_size: whether the next packet has side data
          viewer,
          params        \* history: the stamp of the small parameter sets just before, or none

sinkVars == <<mSeq, mTimestamp, mMarker, mExtension>>
vars == <<box_count, box_count_obj, enc, clean_flag, sinkVars, viewer, params>>

Idle == [pc |-> "idle", type |-> "param", size |-> 5, count |-> 0, i |-> 0, pos |-> 0]
NoPart == [open |-> FALSE, lo |-> 0, hi |-> 0, joined |-> TRUE]
NoNal == [lo |-> 0, hi |-> 0, intact |-> TRUE]
Away == [on |-> FALSE, expect |-> 0, lost |-> 0, part |-> NoPart, got |-> NoNal, shown |-> 0,
         whole |-> FALSE, missed |-> FALSE]

Init == /\ box_count = 0 /\ box_count_obj = 0
        /\ enc = Idle /\ clean_flag = FALSE
        /\ mSeq = 0 /\ mTimestamp = 0 /\ mMarker = FALSE /\ mExtension = TRUE
        /\ viewer = Away
        /\ params = NoStamp
-----------------------------------------------------------------------------
(* main.cpp *)

\* Mutant: the loop stops a box late.
Kept_More(n, limit) == IF n <= limit + 1 THEN n ELSE limit + 1

\* The boxes save_box and save_box_obj keep of n.
Kept(n, limit) == IF n <= limit THEN n ELSE limit

save_box(n) == /\ box_count' = Kept(n, MaxFaces)
               /\ UNCHANGED <<box_count_obj, enc, clean_flag, sinkVars, viewer, params>>

save_box_obj(n) == /\ box_count_obj' = Kept(n, MaxObjs)
                   /\ UNCHANGED <<box_count, enc, clean_flag, sinkVars, viewer, params>>

\* Mutant: no side data without boxes.
WithBoxes_NoClean(count) == count > 0

WithBoxes(count) == count > 0 \/ clean_flag

\* venc_h264_callback up to handleFrame: the boxes are counted and copied under data_mutex.
venc_h264_callback(type, size) ==
    /\ enc.pc = "idle"
    /\ LET count == box_count + box_count_obj
       IN  /\ enc' = [pc |-> "send", type |-> type, size |-> size, count |-> count,
                      i |-> 0, pos |-> 0]
           /\ mExtension' = WithBoxes(count)
    /\ mMarker' = FALSE
    /\ viewer' = [viewer EXCEPT !.part.joined = ~viewer.part.open, !.whole = viewer.on]
    /\ UNCHANGED <<box_count, box_count_obj, clean_flag, mSeq, mTimestamp, params>>
-----------------------------------------------------------------------------
(* The viewer, on a packet it gets or loses *)

\* A unit is intact when its parts join up and are of one frame.
Assemble(part, got, p) ==
    IF ~p.fu
    THEN [part |-> NoPart, got |-> [lo |-> p.lo, hi |-> p.hi, intact |-> TRUE]]
    ELSE LET now == IF p.s THEN [open |-> TRUE, lo |-> p.lo, hi |-> p.hi, joined |-> TRUE]
                    ELSE [part EXCEPT !.joined = @ /\ part.hi = p.lo, !.hi = p.hi]
         IN  CASE ~now.open -> [part |-> NoPart, got |-> got]
               [] now.open /\ p.e -> [part |-> NoPart, got |-> [lo |-> now.lo, hi |-> now.hi, intact |-> now.joined]]
               [] OTHER -> [part |-> now, got |-> got]

Gets(p) ==
    LET part == IF p.seq = viewer.expect THEN viewer.part ELSE NoPart
        a == Assemble(part, viewer.got, p)
    IN  [viewer EXCEPT !.expect = (p.seq + 1) % SeqMod, !.lost = 0,
                       !.part = a.part, !.got = a.got,
                       !.shown = IF p.boxes.sent THEN p.boxes.count ELSE @,
                       !.missed = @ /\ ~p.boxes.sent]

Loses(p) == [viewer EXCEPT !.lost = @ + 1, !.whole = FALSE, !.missed = @ \/ p.boxes.sent]

Reception(p) == \/ ~viewer.on /\ viewer' = viewer
                \/ viewer.on /\ viewer' = Gets(p)
                \/ viewer.on /\ viewer.lost < MaxLost /\ viewer' = Loses(p)

\* PLAY, before the next packet.
Play == /\ ~viewer.on
        /\ viewer' = [Away EXCEPT !.on = TRUE, !.expect = mSeq, !.missed = enc.pc # "idle"]
        /\ UNCHANGED <<box_count, box_count_obj, enc, clean_flag, sinkVars, params>>

Leave == /\ viewer.on
         /\ viewer' = Away
         /\ UNCHANGED <<box_count, box_count_obj, enc, clean_flag, sinkVars, params>>
-----------------------------------------------------------------------------
(* H264RtpSink::handleFrame *)

pktNum == (enc.size - 5) \div MaxPkt
remainPktSize == (enc.size - 5) % MaxPkt

\* What push264 copied to xbuf.
Boxes == IF mExtension THEN [sent |-> TRUE, count |-> Kept(enc.count, ExtBoxes)] ELSE NoBoxes

\* RtpSink::sendRtpPacket, and mSeq++ after it.
sendRtpPacket(fu, s, e, marker, lo, hi) ==
    LET p == [fu |-> fu, s |-> s, e |-> e, marker |-> marker, seq |-> mSeq,
              boxes |-> Boxes, lo |-> lo, hi |-> hi]
    IN  /\ Reception(p)
        /\ mMarker' = marker
        /\ mSeq' = (mSeq + 1) % SeqMod
        /\ mExtension' = FALSE
        /\ UNCHANGED <<box_count, box_count_obj, clean_flag, mTimestamp, params>>

Small == enc.size <= MaxPkt

SendWhole ==
    /\ enc.pc = "send" /\ Small
    /\ sendRtpPacket(FALSE, FALSE, FALSE, enc.type = "slice", 4, enc.size)
    /\ enc' = [enc EXCEPT !.pc = "done"]

\* The first packet of a unit with side data, whatever the unit's size.
SendFirstExt ==
    /\ enc.pc = "send" /\ ~Small /\ mExtension
    /\ sendRtpPacket(TRUE, TRUE, FALSE, mMarker, 5, 5 + MaxPkt)
    /\ enc' = [enc EXCEPT !.i = 1, !.pos = 5 + MaxPkt]

\* Mutants: the start of the next packet; the end bit of a unit without a rest.
Start_Off(i, pos) == IF i = 0 THEN pos + 4 ELSE pos
Ends_Never(i) == FALSE

Start(i, pos) == IF i = 0 THEN pos + 5 ELSE pos
Ends(i) == i # 0 /\ remainPktSize = 0 /\ i = pktNum - 1

SendFull ==
    /\ enc.pc = "send" /\ ~Small /\ ~mExtension /\ enc.i < pktNum
    /\ LET from == Start(enc.i, enc.pos)
       IN  /\ sendRtpPacket(TRUE, enc.i = 0, Ends(enc.i),
                            IF enc.i = 0 THEN mMarker ELSE Ends(enc.i), from, from + MaxPkt)
           /\ enc' = [enc EXCEPT !.i = @ + 1, !.pos = from + MaxPkt]

SendRest ==
    /\ enc.pc = "send" /\ ~Small /\ ~mExtension /\ enc.i >= pktNum /\ remainPktSize > 0
    /\ sendRtpPacket(TRUE, FALSE, TRUE, TRUE, enc.pos, enc.pos + remainPktSize)
    /\ enc' = [enc EXCEPT !.pc = "done"]

NoRest ==
    /\ enc.pc = "send" /\ ~Small /\ ~mExtension /\ enc.i >= pktNum /\ remainPktSize = 0
    /\ enc' = [enc EXCEPT !.pc = "done"]
    /\ UNCHANGED <<box_count, box_count_obj, clean_flag, sinkVars, viewer, params>>

KeepsStamp == Small /\ enc.type = "param"

\* The end of handleFrame and of the callback.
EndCallback ==
    /\ enc.pc = "done"
    /\ enc' = Idle
    /\ mTimestamp' = IF KeepsStamp THEN mTimestamp ELSE (mTimestamp + 1) % StampMod
    /\ clean_flag' = (enc.count > 0)
    /\ params' = IF Small /\ enc.type = "param" THEN mTimestamp ELSE NoStamp
    /\ viewer' = [viewer EXCEPT !.got = NoNal]
    /\ UNCHANGED <<box_count, box_count_obj, mSeq, mMarker, mExtension>>
-----------------------------------------------------------------------------
Encoder == \/ \E type \in NalTypes, size \in Sizes : venc_h264_callback(type, size)
           \/ SendWhole \/ SendFirstExt \/ SendFull \/ SendRest \/ NoRest \/ EndCallback

Detectors == \E n \in 0 .. MaxDetected : save_box(n) \/ save_box_obj(n)

Next == Encoder \/ Detectors \/ Play \/ Leave

Spec == Init /\ [][Next]_vars
-----------------------------------------------------------------------------
(* Properties *)

\* Types of the counters, the packet and the viewer.
TypeOK ==
    /\ box_count \in 0 .. MaxFaces /\ box_count_obj \in 0 .. MaxObjs
    /\ enc.pc \in {"idle", "send", "done"} /\ enc.type \in NalTypes
    /\ enc.count \in 0 .. MaxFaces + MaxObjs
    /\ enc.i \in 0 .. pktNum + 1
    /\ clean_flag \in BOOLEAN /\ mMarker \in BOOLEAN /\ mExtension \in BOOLEAN
    /\ mSeq \in 0 .. SeqMod - 1 /\ mTimestamp \in 0 .. StampMod - 1
    /\ params \in 0 .. StampMod
    /\ viewer.expect \in 0 .. SeqMod - 1 /\ viewer.lost \in 0 .. MaxLost
    /\ viewer.shown \in 0 .. ExtBoxes

\* The units of MaxPkt + 1 to MaxPkt + 4 bytes are not small, and too short for one full
\* packet: without side data their only packet is an end without a start, from the start
\* code on; with side data a full packet that goes beyond the frame and a rest beyond it.
TooShort(size) == size \in MaxPkt + 1 .. MaxPkt + 4

\* A unit of MaxPkt + 5 bytes is one packet with the start bit and no end.
NeverEnded(size) == size = MaxPkt + 5

\* Whenever a viewer comes and whatever it loses, a unit it has put together by the RTP
\* numbers and the start and end bits is one the encoder gave, from its first byte to its
\* last, unless it was closed by the packets of a unit that handleFrame cuts wrong.
UnitsIntact ==
    \/ viewer.got = NoNal
    \/ TooShort(enc.size)
    \/ viewer.got.intact /\ viewer.got.lo \in {4, 5} /\ viewer.got.hi = enc.size

\* A viewer that gets all packets of a unit has the unit when the callback returns, and a
\* picture's last packet carries the marker, for all sizes but those five.  The small
\* parameter sets just before a picture have been sent with the picture's time stamp.
UnitsArrive ==
    enc.pc = "done" /\ viewer.whole /\ ~TooShort(enc.size) /\ ~NeverEnded(enc.size) =>
      /\ viewer.got # NoNal
      /\ enc.type = "slice" => mMarker /\ params \in {mTimestamp, NoStamp}

\* What a viewer shows is what the encoder's callback last found, although side data are
\* sent only with boxes and once after the last: only a packet with side data that the
\* viewer missed leaves it with old boxes.
BoxesCurrent ==
    enc.pc = "done" /\ viewer.on /\ ~viewer.missed => viewer.shown = enc.count
=============================================================================
