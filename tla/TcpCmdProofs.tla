--------------------------- MODULE TcpCmdProofs -----------------------------
(***************************************************************************)
(* What TcpCmd guarantees for every script that keeps to the protocol,     *)
(* every way TCP cuts the stream, every size that a packet announces and   *)
(* every size of the buffer with room for a head and one recv.             *)
(*                                                                         *)
(* Until a packet has run into another connection's, what G_cmd_buffer     *)
(* holds is what one client has sent from the start of a packet on; only   *)
(* while it is parsed may a packet without data of the client before lie   *)
(* in front.                                                               *)
(***************************************************************************)
EXTENDS TcpCmd, WellFoundedInduction, SequenceTheorems, TLAPS

Places(c) == 1 .. Len(Script[c]) + 1
Start(c, p) == IF p \in DOMAIN Script[c] THEN Script[c][p].pos ELSE Sent(c)

\* Types, without the history of crashes.
Types ==
    /\ got \in [Clients -> Nat] /\ \A c \in Clients : got[c] <= Sent(c)
    /\ conn \in [Clients -> {"off", "open", "closed"}]
    /\ acceptor \in {"accept", "connected"} /\ connect_state \in {0, 1}
    /\ new_fd \in Clients \cup {NoClient} /\ last \in Clients \cup {NoClient}
    /\ receiver \in [pc : {"check", "recv", "parse", "closed"}, fd : Clients \cup {NoClient}]
    /\ G_cmd_buffer \in [1 .. BufCap -> Cell] /\ G_cmd_buf_index \in 0 .. BufCap
    /\ mpkt_write_index \in 0 .. WordMod - 1 /\ mpkt_total_size \in 0 .. WordMod - 1
    /\ multi_pkt_buf \in [set : BOOLEAN, cells : Seq(Cell)]
    /\ multi_pkt_buf.set => /\ Len(multi_pkt_buf.cells) = mpkt_total_size
                            /\ mpkt_write_index <= mpkt_total_size
    /\ crashed \in BOOLEAN /\ torn \in BOOLEAN
    /\ astray \subseteq Ids
    /\ delivered \in Seq([id : Ids, cells : Seq(Cell)])

\* A connection is read from the time it is accepted until the next is, and never again.
Links ==
    /\ \A c \in Clients : conn[c] = "off" => got[c] = 0 /\ c \notin {new_fd, receiver.fd, last}
    /\ new_fd \notin {receiver.fd, NoClient} => got[new_fd] = 0
    /\ receiver.fd \notin {last, NoClient} => got[receiver.fd] = 0
    /\ receiver.pc = "parse" => receiver.fd = last /\ last # NoClient

\* Nothing has been received yet.
Idle ==
    /\ \A c \in Clients : got[c] = 0
    /\ G_cmd_buf_index = 0 /\ \A i \in 1 .. BufCap : G_cmd_buffer[i] = Garbage
    /\ ~multi_pkt_buf.set /\ delivered = <<>>

\* The buffer holds client d's stream from packet p on; where another client is read
\* already, that is one packet without data, and that client's stream follows.
Held(d, p) ==
    LET h == got[d] - Start(d, p)
    IN  /\ h >= 0
        /\ \A i \in 1 .. h : G_cmd_buffer[i] = StreamCell(d, Start(d, p) + i)
        /\ d = last => G_cmd_buf_index = h
        /\ d # last =>
             /\ receiver.pc = "parse" /\ p \in DOMAIN Script[d] /\ Script[d][p].cur = 0
             /\ h = Head_Cells /\ G_cmd_buf_index = Head_Cells + got[last] /\ got[last] > 0
             /\ \A i \in 1 .. got[last] : G_cmd_buffer[Head_Cells + i] = StreamCell(last, i)

\* The parse loop has left no whole packet, but for one without data.
Rested(d, p) ==
    receiver.pc # "parse" =>
      /\ d = last
      /\ \/ G_cmd_buf_index = 0
         \/ p \in DOMAIN Script[d] /\ G_cmd_buf_index < Head_Cells + Script[d][p].cur
         \/ p \in DOMAIN Script[d] /\ Script[d][p].cur = 0 /\ G_cmd_buf_index = Head_Cells

\* The parts before packet p are in multi_pkt_buf, unless it was refused or began astray.
Assembled(d, p) ==
    (p \in DOMAIN Script[d] /\ ~Opens(Script[d][p]) /\ multi_pkt_buf.set) =>
      \/ Script[d][p].id \in astray
      \/ /\ mpkt_total_size = Script[d][p].total /\ mpkt_write_index = Script[d][p].at
         /\ \A i \in 1 .. Script[d][p].at : multi_pkt_buf.cells[i] = Data(Script[d][p])[i]

\* What was delivered lies before packet p, and before what is held of the next client.
DoneBefore(d, p) ==
    \A i \in DOMAIN delivered, c \in Clients : \A q \in DOMAIN Script[c] :
      (Closes(Script[c][q]) /\ delivered[i].id = Script[c][q].id) =>
        /\ PacketEnd(Script[c][q]) <= got[c]
        /\ c = d => q < p
        /\ d # last => c # last

\* A scan that runs on finds the head of a packet at the front, of this one or an earlier.
StaleHead ==
    /\ G_cmd_buffer[1].k = "SEND_CMD"
    /\ \/ G_cmd_buffer[2].k = "magic"
       \/ G_cmd_buf_index = 1 /\ \A i \in 2 .. BufCap : G_cmd_buffer[i] = Garbage

\* And where the rest of that head is missing, the size of a packet that was taken whole.
StaleSize ==
    G_cmd_buf_index < 3 =>
      \/ G_cmd_buffer[3] = Garbage
      \/ G_cmd_buffer[3].k = "size" /\ G_cmd_buffer[3].cur + 3 <= BufCap

View(d, p) == /\ Held(d, p) /\ Rested(d, p) /\ Assembled(d, p) /\ DoneBefore(d, p)
              /\ StaleHead /\ StaleSize

\* An index that was not set is gone with the first command in parts.
Following == torn \/ (last = NoClient /\ Idle)
                  \/ (last # NoClient /\ \E d \in Clients : \E p \in Places(d) : View(d, p))

IInv == Types /\ Links /\ Following /\ CrashesExplained /\ Delivered
-----------------------------------------------------------------------------
(* The stream of a client *)

LEMMA LeastNat ==
    ASSUME NEW S \in SUBSET Nat, S # {}
    PROVE  \E i \in S : \A j \in S : i <= j
<1> DEFINE R == {ss \in Nat \X Nat : ss[1] < ss[2]}
<1>1. IsWellFoundedOn(R, Nat)
  BY NatLessThanWellFounded DEF OpToRel
<1>2. PICK i \in S : \A j \in S : ~(<<j, i>> \in R)
  BY <1>1, WFMin
<1>3. \A j \in S : ~(j < i)
  BY <1>2
<1> QED BY <1>2, <1>3

\* The fields of a packet of a script, and what ScriptAssumption says of it.
LEMMA PacketFacts ==
    ASSUME NEW c \in Clients, NEW p \in DOMAIN Script[c]
    PROVE  /\ p \in 1 .. Len(Script[c]) /\ Len(Script[c]) \in Nat
           /\ Script[c][p].id \in Ids
           /\ Script[c][p].type \in {"single", "start", "mid", "end"}
           /\ Script[c][p].total \in 0 .. WordMod - 1
           /\ Script[c][p].cur \in Nat /\ Script[c][p].at \in Nat /\ Script[c][p].pos \in Nat
           /\ PacketEnd(Script[c][p]) \in Nat
           /\ PacketEnd(Script[c][p]) = Script[c][p].pos + 3 + Script[c][p].cur
           /\ Script[c][p].at + Script[c][p].cur <= Script[c][p].total
           /\ Opens(Script[c][p]) => Script[c][p].at = 0
           /\ Closes(Script[c][p]) => Script[c][p].at + Script[c][p].cur = Script[c][p].total
           /\ p = 1 => Script[c][p].pos = 0 /\ Opens(Script[c][p])
           /\ p > 1 => p - 1 \in DOMAIN Script[c] /\ FollowsOn(Script[c][p], Script[c][p - 1])
           /\ p < Len(Script[c]) => p + 1 \in DOMAIN Script[c] /\ FollowsOn(Script[c][p + 1], Script[c][p])
<1> DEFINE k == Script[c][p]
<1>1. Script[c] \in Seq(Pkt)
  BY ScriptAssumption
<1>2. p \in 1 .. Len(Script[c]) /\ Len(Script[c]) \in Nat /\ DOMAIN Script[c] = 1 .. Len(Script[c])
  BY <1>1, LenProperties
<1>3. k \in Pkt
  BY <1>1, <1>2, ElementOfSeq
<1>4. /\ k.at + k.cur <= k.total /\ k.total < WordMod
      /\ Opens(k) => k.at = 0
      /\ Closes(k) => k.at + k.cur = k.total
      /\ p = 1 => k.pos = 0 /\ Opens(k)
      /\ p > 1 => FollowsOn(k, Script[c][p - 1])
  BY ScriptAssumption
<1>5. p < Len(Script[c]) => FollowsOn(Script[c][p + 1], Script[c][p])
  <2> SUFFICES ASSUME p < Len(Script[c]) PROVE FollowsOn(Script[c][p + 1], Script[c][p])
    OBVIOUS
  <2>1. p + 1 \in DOMAIN Script[c] /\ p + 1 > 1 /\ (p + 1) - 1 = p
    BY <1>2
  <2>2. FollowsOn(Script[c][p + 1], Script[c][(p + 1) - 1])
    BY <2>1, ScriptAssumption
  <2> QED BY <2>1, <2>2
<1>6. /\ k.id \in Ids /\ k.type \in {"single", "start", "mid", "end"}
      /\ k.total \in Nat /\ k.cur \in Nat /\ k.at \in Nat /\ k.pos \in Nat
  BY <1>3 DEF Pkt
<1>7. PacketEnd(k) \in Nat /\ PacketEnd(k) = k.pos + 3 + k.cur
  BY <1>6 DEF PacketEnd, Head_Cells
<1>8. k.total \in 0 .. WordMod - 1
  BY <1>4, <1>6, SizesAssumption
<1>9. /\ p > 1 => p - 1 \in DOMAIN Script[c]
      /\ p < Len(Script[c]) => p + 1 \in DOMAIN Script[c]
  BY <1>2
<1> QED BY <1>2, <1>4, <1>5, <1>6, <1>7, <1>8, <1>9

\* A packet lies behind all that come before it.
LEMMA PacketsApart ==
    ASSUME NEW c \in Clients, NEW p \in DOMAIN Script[c], NEW q \in DOMAIN Script[c], p < q
    PROVE  PacketEnd(Script[c][p]) <= Script[c][q].pos
<1> DEFINE T == {r \in Nat : r \in DOMAIN Script[c] /\ p < r /\ ~(PacketEnd(Script[c][p]) <= Script[c][r].pos)}
<1>1. SUFFICES ASSUME T # {} PROVE FALSE
  <2>1. q \in Nat
    BY PacketFacts
  <2> QED BY <1>1, <2>1
<1>2. PICK r \in T : \A y \in T : r <= y
  <2>1. T \subseteq Nat
    OBVIOUS
  <2> HIDE DEF T
  <2> QED BY <1>1, <2>1, LeastNat
<1>3. /\ r \in DOMAIN Script[c] /\ r \in Nat /\ p \in Nat /\ p < r /\ r > 1
      /\ ~(PacketEnd(Script[c][p]) <= Script[c][r].pos)
  <2>1. p \in 1 .. Len(Script[c])
    BY PacketFacts
  <2> QED BY <1>2, <2>1
<1>4. /\ r - 1 \in DOMAIN Script[c] /\ Script[c][r].pos = PacketEnd(Script[c][r - 1])
  BY <1>3, PacketFacts DEF FollowsOn
<1>5. CASE r - 1 = p
  BY <1>3, <1>4, <1>5, PacketFacts
<1>6. CASE r - 1 # p
  <2>1. r - 1 \notin T
    BY <1>2, <1>3
  <2>2. PacketEnd(Script[c][p]) <= Script[c][r - 1].pos
    BY <1>3, <1>4, <1>6, <2>1
  <2>3. /\ PacketEnd(Script[c][r - 1]) = Script[c][r - 1].pos + 3 + Script[c][r - 1].cur
        /\ Script[c][r - 1].pos \in Nat /\ Script[c][r - 1].cur \in Nat
        /\ PacketEnd(Script[c][p]) \in Nat
    BY <1>4, PacketFacts
  <2> HIDE DEF T
  <2> QED BY <1>3, <1>4, <2>2, <2>3
<1> QED BY <1>5, <1>6

\* All of them lie in what is sent, and the last one ends it.
LEMMA SentFacts ==
    ASSUME NEW c \in Clients
    PROVE  /\ Sent(c) \in Nat /\ Len(Script[c]) \in Nat /\ DOMAIN Script[c] = 1 .. Len(Script[c])
           /\ Len(Script[c]) = 0 => Sent(c) = 0
           /\ Len(Script[c]) > 0 => Sent(c) = PacketEnd(Script[c][Len(Script[c])])
           /\ \A p \in DOMAIN Script[c] : PacketEnd(Script[c][p]) <= Sent(c)
<1>1. Script[c] \in Seq(Pkt)
  BY ScriptAssumption
<1>2. Len(Script[c]) \in Nat /\ DOMAIN Script[c] = 1 .. Len(Script[c])
      /\ (Script[c] = <<>> <=> Len(Script[c]) = 0)
  BY <1>1, LenProperties, EmptySeq
<1>3. CASE Len(Script[c]) = 0
  BY <1>2, <1>3 DEF Sent
<1>4. CASE Len(Script[c]) > 0
  <2> DEFINE l == Len(Script[c])
  <2>1. l \in DOMAIN Script[c] /\ Sent(c) = PacketEnd(Script[c][l])
    BY <1>2, <1>4 DEF Sent
  <2>2. /\ PacketEnd(Script[c][l]) = Script[c][l].pos + 3 + Script[c][l].cur
        /\ Script[c][l].pos \in Nat /\ Script[c][l].cur \in Nat
    BY <2>1, PacketFacts
  <2>3. ASSUME NEW p \in DOMAIN Script[c] PROVE PacketEnd(Script[c][p]) <= Sent(c)
    <3>1. CASE p = l
      BY <2>1, <2>2, <3>1
    <3>2. CASE p # l
      <4>1. p < l /\ PacketEnd(Script[c][p]) \in Nat
        BY <1>2, <3>2, PacketFacts
      <4>2. PacketEnd(Script[c][p]) <= Script[c][l].pos
        BY <2>1, <4>1, PacketsApart
      <4> QED BY <2>1, <2>2, <4>1, <4>2
    <3> QED BY <3>1, <3>2
  <2> QED BY <1>2, <1>4, <2>1, <2>2, <2>3
<1> QED BY <1>2, <1>3, <1>4

LEMMA StartFacts ==
    ASSUME NEW c \in Clients
    PROVE  /\ \A p \in Places(c) : p \in Nat /\ Start(c, p) \in Nat
           /\ 1 \in Places(c) /\ Start(c, 1) = 0
           /\ \A p \in Places(c) : Start(c, p) < Sent(c) => p \in DOMAIN Script[c]
           /\ \A p \in DOMAIN Script[c] :
                /\ p \in Places(c) /\ p + 1 \in Places(c)
                /\ Start(c, p) = Script[c][p].pos /\ Start(c, p + 1) = PacketEnd(Script[c][p])
<1>1. /\ Sent(c) \in Nat /\ Len(Script[c]) \in Nat /\ DOMAIN Script[c] = 1 .. Len(Script[c])
      /\ Len(Script[c]) = 0 => Sent(c) = 0
      /\ Len(Script[c]) > 0 => Sent(c) = PacketEnd(Script[c][Len(Script[c])])
  BY SentFacts
<1>2. \A p \in Places(c) : p \in Nat /\ Start(c, p) \in Nat
  BY <1>1, PacketFacts DEF Places, Start
<1>3. 1 \in Places(c) /\ Start(c, 1) = 0
  BY <1>1, PacketFacts DEF Places, Start
<1>4. \A p \in Places(c) : Start(c, p) < Sent(c) => p \in DOMAIN Script[c]
  BY <1>1 DEF Start
<1>5. ASSUME NEW p \in DOMAIN Script[c]
      PROVE  /\ p \in Places(c) /\ p + 1 \in Places(c)
             /\ Start(c, p) = Script[c][p].pos /\ Start(c, p + 1) = PacketEnd(Script[c][p])
  <2>1. p \in Places(c) /\ p + 1 \in Places(c) /\ Start(c, p) = Script[c][p].pos
    BY <1>1 DEF Places, Start
  <2>2. CASE p < Len(Script[c])
    <3>1. p + 1 \in DOMAIN Script[c] /\ FollowsOn(Script[c][p + 1], Script[c][p])
      BY <2>2, PacketFacts
    <3> QED BY <2>1, <3>1 DEF Start, FollowsOn
  <2>3. CASE ~(p < Len(Script[c]))
    <3>1. p = Len(Script[c]) /\ p + 1 \notin DOMAIN Script[c] /\ Len(Script[c]) > 0
      BY <1>1, <2>3
    <3> QED BY <1>1, <2>1, <3>1 DEF Start
  <2> QED BY <2>1, <2>2, <2>3
<1> QED BY <1>2, <1>3, <1>4, <1>5

\* A cell of the stream is the one its packet has there.
LEMMA StreamCells ==
    ASSUME NEW c \in Clients, NEW p \in DOMAIN Script[c],
           NEW j \in 1 .. 3 + Script[c][p].cur
    PROVE  StreamCell(c, Script[c][p].pos + j) = PacketCell(Script[c][p], j)
<1> DEFINE i == Script[c][p].pos + j
           In(q) == Script[c][q].pos < i /\ i <= PacketEnd(Script[c][q])
           q0 == CHOOSE q \in DOMAIN Script[c] : In(q)
<1>1. /\ Script[c][p].pos \in Nat /\ Script[c][p].cur \in Nat /\ j \in Nat /\ i \in Nat
      /\ i - Script[c][p].pos = j /\ In(p)
  <2>0. /\ Script[c][p].pos \in Nat /\ Script[c][p].cur \in Nat
        /\ PacketEnd(Script[c][p]) = Script[c][p].pos + 3 + Script[c][p].cur
        /\ PacketEnd(Script[c][p]) \in Nat
    BY PacketFacts
  <2>1. PICK s \in Nat, n \in Nat, e \in Nat :
          s = Script[c][p].pos /\ n = Script[c][p].cur /\ e = PacketEnd(Script[c][p]) /\ e = s + 3 + n
    BY <2>0
  <2>2. e = s + 3 + n /\ j \in 1 .. 3 + n
    BY <2>1
  <2>3. j \in Nat /\ s + j \in Nat /\ (s + j) - s = j /\ s < s + j /\ s + j <= e
    BY <2>2
  <2> QED BY <2>1, <2>3
<1>2. q0 \in DOMAIN Script[c] /\ In(q0)
  BY <1>1
<1>3. ASSUME NEW q \in DOMAIN Script[c], In(q)
      PROVE  q = p
  <2>1. /\ q \in Nat /\ p \in Nat /\ Script[c][q].pos \in Nat /\ Script[c][p].pos \in Nat
        /\ PacketEnd(Script[c][q]) \in Nat /\ PacketEnd(Script[c][p]) \in Nat
    BY PacketFacts
  <2>2. ~(p < q)
    BY <1>1, <1>3, <2>1, PacketsApart
  <2>3. ~(q < p)
    BY <1>1, <1>3, <2>1, PacketsApart
  <2> QED BY <2>1, <2>2, <2>3
<1>4. q0 = p
  BY <1>2, <1>3
<1> QED BY <1>1, <1>4 DEF StreamCell

\* Every cell of the stream is in a packet.
LEMMA StreamCovered ==
    ASSUME NEW c \in Clients, NEW i \in 1 .. Sent(c)
    PROVE  \E p \in DOMAIN Script[c] : \E j \in 1 .. 3 + Script[c][p].cur :
             i = Script[c][p].pos + j /\ StreamCell(c, i) = PacketCell(Script[c][p], j)
<1> DEFINE T == {r \in Nat : r \in DOMAIN Script[c] /\ i <= PacketEnd(Script[c][r])}
           l == Len(Script[c])
<1>1. /\ Sent(c) \in Nat /\ l \in Nat /\ DOMAIN Script[c] = 1 .. l
      /\ l = 0 => Sent(c) = 0
      /\ l > 0 => Sent(c) = PacketEnd(Script[c][l])
  BY SentFacts
<1>2. l \in T
  BY <1>1
<1>3. PICK p \in T : \A y \in T : p <= y
  <2>1. T \subseteq Nat /\ T # {}
    BY <1>2
  <2> HIDE DEF T
  <2> QED BY <2>1, LeastNat
<1>4. p \in DOMAIN Script[c] /\ i <= PacketEnd(Script[c][p]) /\ p \in Nat
  BY <1>3
<1>5. /\ Script[c][p].pos \in Nat /\ Script[c][p].cur \in Nat
      /\ PacketEnd(Script[c][p]) = Script[c][p].pos + 3 + Script[c][p].cur
      /\ p = 1 => Script[c][p].pos = 0
      /\ p > 1 => p - 1 \in DOMAIN Script[c] /\ FollowsOn(Script[c][p], Script[c][p - 1])
  BY <1>4, PacketFacts
<1>6. Script[c][p].pos < i
  <2>1. CASE p = 1
    BY <1>5, <2>1
  <2>2. CASE p # 1
    <3>1. p > 1
      BY <1>1, <1>4, <2>2
    <3>2. p - 1 \notin T /\ p - 1 \in Nat
      BY <1>3, <1>4, <3>1
    <3>3. ~(i <= PacketEnd(Script[c][p - 1]))
      BY <1>5, <3>1, <3>2
    <3>4. Script[c][p].pos = PacketEnd(Script[c][p - 1])
      BY <1>5, <3>1 DEF FollowsOn
    <3> QED BY <1>5, <3>3, <3>4
  <2> QED BY <2>1, <2>2
<1> DEFINE j == i - Script[c][p].pos
<1>7. j \in 1 .. 3 + Script[c][p].cur /\ i = Script[c][p].pos + j
  BY <1>4, <1>5, <1>6
<1>8. StreamCell(c, Script[c][p].pos + j) = PacketCell(Script[c][p], j)
  BY <1>4, <1>7, StreamCells
<1> HIDE DEF j
<1> QED BY <1>4, <1>7, <1>8

\* What the cells of a packet are.
LEMMA PacketCells ==
    ASSUME NEW k, k.cur \in Nat
    PROVE  /\ PacketCell(k, 1).k = "SEND_CMD"
           /\ PacketCell(k, 2) = [k |-> "magic", id |-> k.id, type |-> k.type, total |-> k.total]
           /\ PacketCell(k, 3) = [k |-> "size", cur |-> k.cur]
           /\ \A j \in 4 .. 3 + k.cur : PacketCell(k, j) = [k |-> "data", id |-> k.id, at |-> k.at + j - 3]
           /\ \A j \in 1 .. 3 + k.cur : /\ PacketCell(k, j).k = "magic" => j = 2
                                        /\ PacketCell(k, j).k = "size" => j = 3
<1>1. PacketCell(k, 1) = [k |-> "SEND_CMD"]
  BY DEF PacketCell
<1>2. PacketCell(k, 2) = [k |-> "magic", id |-> k.id, type |-> k.type, total |-> k.total]
  BY DEF PacketCell
<1>3. PacketCell(k, 3) = [k |-> "size", cur |-> k.cur]
  BY DEF PacketCell
<1>4. ASSUME NEW j \in 4 .. 3 + k.cur
      PROVE  PacketCell(k, j) = [k |-> "data", id |-> k.id, at |-> k.at + j - 3]
  <2>1. j # 1 /\ j # 2 /\ j # 3
    OBVIOUS
  <2> QED BY <2>1 DEF PacketCell, Head_Cells
<1>5. ASSUME NEW j \in 1 .. 3 + k.cur
      PROVE  (PacketCell(k, j).k = "magic" => j = 2) /\ (PacketCell(k, j).k = "size" => j = 3)
  <2>1. j = 1 \/ j = 2 \/ j = 3 \/ j \in 4 .. 3 + k.cur
    OBVIOUS
  <2> QED BY <2>1, <1>1, <1>2, <1>3, <1>4
<1> QED BY <1>1, <1>2, <1>3, <1>4, <1>5

\* The fields that the parser reads from a cell are those of a packet.
LEMMA CellFacts ==
    ASSUME NEW x \in Cell
    PROVE  /\ x.k = "magic" => /\ x.id \in Ids /\ x.total \in 0 .. WordMod - 1
                               /\ x.type \in {"single", "start", "mid", "end"}
           /\ x.k = "size" => x.cur \in Nat
<1>1. CASE x = Garbage
  BY <1>1 DEF Garbage
<1>2. CASE x # Garbage
  <2>1. PICK c \in Clients : \E i \in 1 .. Sent(c) : x = StreamCell(c, i)
    BY <1>2 DEF Cell
  <2>2. PICK i \in 1 .. Sent(c) : x = StreamCell(c, i)
    BY <2>1
  <2>3. PICK p \in DOMAIN Script[c] : \E j \in 1 .. 3 + Script[c][p].cur : x = PacketCell(Script[c][p], j)
    BY <2>2, StreamCovered
  <2>4. PICK j \in 1 .. 3 + Script[c][p].cur : x = PacketCell(Script[c][p], j)
    BY <2>3
  <2>5. /\ Script[c][p].id \in Ids /\ Script[c][p].cur \in Nat
        /\ Script[c][p].type \in {"single", "start", "mid", "end"}
        /\ Script[c][p].total \in 0 .. WordMod - 1
    BY PacketFacts
  <2>6. CASE x.k = "magic"
    BY <2>4, <2>5, <2>6, PacketCells
  <2>7. CASE x.k = "size"
    BY <2>4, <2>5, <2>7, PacketCells
  <2> QED BY <2>6, <2>7
<1> QED BY <1>1, <1>2

\* Nobody who has sent a part of a packet has sent whole packets.
LEMMA PartNotWhole ==
    ASSUME NEW c \in Clients, NEW p \in DOMAIN Script[c], NEW n \in Nat,
           Script[c][p].pos < n, n < PacketEnd(Script[c][p])
    PROVE  ~Whole(c, n)
<1>1. /\ Sent(c) \in Nat /\ PacketEnd(Script[c][p]) <= Sent(c) /\ PacketEnd(Script[c][p]) \in Nat
      /\ Script[c][p].pos \in Nat /\ p \in Nat
  BY SentFacts, PacketFacts
<1>2. ASSUME NEW q \in DOMAIN Script[c] PROVE Script[c][q].pos # n
  <2>1. /\ Script[c][q].pos \in Nat /\ PacketEnd(Script[c][q]) \in Nat /\ q \in Nat
        /\ PacketEnd(Script[c][q]) = Script[c][q].pos + 3 + Script[c][q].cur /\ Script[c][q].cur \in Nat
    BY PacketFacts
  <2>2. CASE p < q
    BY <1>1, <2>1, <2>2, PacketsApart
  <2>3. CASE q < p
    BY <1>1, <2>1, <2>3, PacketsApart
  <2>4. CASE p = q
    BY <2>4
  <2> QED BY <1>1, <2>1, <2>2, <2>3, <2>4
<1> QED BY <1>1, <1>2 DEF Whole
-----------------------------------------------------------------------------
(* Types *)

LEMMA CellInit == Garbage \in Cell
BY DEF Cell

LEMMA CellOfStream ==
    ASSUME NEW c \in Clients, NEW i \in 1 .. Sent(c)
    PROVE  StreamCell(c, i) \in Cell
BY DEF Cell

LEMMA NoModulo ==
    ASSUME NEW x \in Nat, x < WordMod
    PROVE  x % WordMod = x
BY SizesAssumption

LEMMA ModuloBound ==
    ASSUME NEW x \in Nat
    PROVE  x % WordMod \in 0 .. WordMod - 1
BY SizesAssumption

LEMMA InitTypes == Init => Types /\ Links /\ Idle
<1> SUFFICES ASSUME Init PROVE Types /\ Links /\ Idle
  OBVIOUS
<1>1. G_cmd_buffer \in [1 .. BufCap -> Cell]
  BY CellInit DEF Init
<1>2. ASSUME NEW c \in Clients PROVE 0 <= Sent(c)
  <2>1. Sent(c) \in Nat
    BY SentFacts
  <2> QED BY <2>1
<1>3. delivered \in Seq([id : Ids, cells : Seq(Cell)])
  BY DEF Init
<1>4. mpkt_write_index \in 0 .. WordMod - 1 /\ 0 \in 0 .. WordMod - 1 /\ G_cmd_buf_index \in 0 .. BufCap
  BY SizesAssumption DEF Init
<1>5. Types
  <2>1. /\ got \in [Clients -> Nat] /\ \A c \in Clients : got[c] <= Sent(c)
        /\ conn \in [Clients -> {"off", "open", "closed"}]
    BY <1>2 DEF Init
  <2>2. multi_pkt_buf \in [set : BOOLEAN, cells : Seq(Cell)] /\ ~multi_pkt_buf.set
    <3>1. <<>> \in Seq(Cell)
      OBVIOUS
    <3> QED BY <3>1 DEF Init, NoBuf
  <2>3. receiver \in [pc : {"check", "recv", "parse", "closed"}, fd : Clients \cup {NoClient}]
    BY DEF Init
  <2> QED BY <1>1, <1>3, <1>4, <2>1, <2>2, <2>3 DEF Init, Types
<1>6. Links
  BY ClientsAssumption DEF Init, Links
<1>7. Idle
  BY DEF Init, Idle, NoBuf
<1> QED BY <1>5, <1>6, <1>7

LEMMA OverwrittenFacts ==
    ASSUME NEW cells \in Seq(Cell), NEW new \in Seq(Cell), NEW at \in Nat
    PROVE  /\ Overwritten(cells, at, new) \in Seq(Cell)
           /\ Len(Overwritten(cells, at, new)) = Len(cells)
           /\ \A i \in 1 .. Len(cells) :
                /\ i <= at /\ at + Len(new) < WordMod => Overwritten(cells, at, new)[i] = cells[i]
                /\ i \in at + 1 .. at + Len(new) => Overwritten(cells, at, new)[i] = new[i - at]
<1> DEFINE over == Overwritten(cells, at, new)
<1>1. Len(cells) \in Nat /\ DOMAIN cells = 1 .. Len(cells) /\ WordMod \in Nat
      /\ Len(new) \in Nat /\ (\A i \in 1 .. Len(cells) : cells[i] \in Cell)
      /\ (\A i \in 1 .. Len(new) : new[i] \in Cell)
  BY SizesAssumption, LenProperties, ElementOfSeq
<1>2. over = [i \in 1 .. Len(cells) |-> IF i \in at + 1 .. at + Len(new) THEN new[i - at]
                            ELSE IF i + WordMod \in at + 1 .. at + Len(new) THEN new[i + WordMod - at]
                            ELSE cells[i]]
  BY <1>1 DEF Overwritten
<1>3. ASSUME NEW i \in 1 .. Len(cells) PROVE over[i] \in Cell
  <2>1. CASE i \in at + 1 .. at + Len(new)
    <3>1. i - at \in 1 .. Len(new)
      BY <1>1, <2>1
    <3> QED BY <1>1, <1>2, <2>1, <3>1
  <2>2. CASE i \notin at + 1 .. at + Len(new) /\ i + WordMod \in at + 1 .. at + Len(new)
    <3>1. i + WordMod - at \in 1 .. Len(new)
      BY <1>1, <2>2
    <3> QED BY <1>1, <1>2, <2>2, <3>1
  <2>3. CASE i \notin at + 1 .. at + Len(new) /\ i + WordMod \notin at + 1 .. at + Len(new)
    BY <1>1, <1>2, <2>3
  <2> QED BY <2>1, <2>2, <2>3
<1>4. over \in [1 .. Len(cells) -> Cell]
  <2> HIDE DEF over
  <2>1. DOMAIN over = 1 .. Len(cells) /\ over = [i \in 1 .. Len(cells) |-> over[i]]
    BY <1>2
  <2> QED BY <1>3, <2>1
<1>5. over \in Seq(Cell) /\ Len(over) = Len(cells)
  <2> HIDE DEF over
  <2> QED BY <1>1, <1>4
<1>6. ASSUME NEW i \in 1 .. Len(cells), i <= at, at + Len(new) < WordMod PROVE over[i] = cells[i]
  <2>1. i \notin at + 1 .. at + Len(new) /\ i + WordMod \notin at + 1 .. at + Len(new)
    BY <1>1, <1>6
  <2> QED BY <1>2, <2>1
<1>7. ASSUME NEW i \in 1 .. Len(cells), i \in at + 1 .. at + Len(new) PROVE over[i] = new[i - at]
  BY <1>2, <1>7
<1> QED BY <1>5, <1>6, <1>7

\* A head that the parser may find.
Msg == {x \in Cell : x.k = "magic"}

MultiTypes ==
    /\ mpkt_write_index \in 0 .. WordMod - 1 /\ mpkt_total_size \in 0 .. WordMod - 1
    /\ multi_pkt_buf \in [set : BOOLEAN, cells : Seq(Cell)]
    /\ multi_pkt_buf.set => /\ Len(multi_pkt_buf.cells) = mpkt_total_size
                            /\ mpkt_write_index <= mpkt_total_size
    /\ crashed \in BOOLEAN
    /\ astray \subseteq Ids
    /\ delivered \in Seq([id : Ids, cells : Seq(Cell)])

LEMMA CopyTyped ==
    ASSUME NEW buf \in [set : {TRUE}, cells : Seq(Cell)], NEW at \in Nat, NEW cells \in Seq(Cell),
           Copy(buf, at, cells)
    PROVE  /\ multi_pkt_buf' \in [set : {TRUE}, cells : Seq(Cell)]
           /\ multi_pkt_buf'.cells = Overwritten(buf.cells, at, cells)
           /\ Len(multi_pkt_buf'.cells) = Len(buf.cells)
           /\ crashed' \in BOOLEAN
           /\ at + Len(cells) < WordMod => crashed' = FALSE
<1>1. multi_pkt_buf' = [set |-> TRUE, cells |-> Overwritten(buf.cells, at, cells)]
  BY DEF Copy
<1>2. /\ Overwritten(buf.cells, at, cells) \in Seq(Cell)
      /\ Len(Overwritten(buf.cells, at, cells)) = Len(buf.cells)
  BY OverwrittenFacts
<1>3. Len(cells) \in Nat /\ WordMod \in Nat
  BY SizesAssumption
<1>4. crashed' \in BOOLEAN /\ (at + Len(cells) < WordMod => crashed' = FALSE)
  <2>1. crashed' \in IF at + Len(cells) >= WordMod THEN BOOLEAN ELSE {FALSE}
    BY DEF Copy
  <2>2. at + Len(cells) < WordMod => ~(at + Len(cells) >= WordMod)
    BY <1>3
  <2> QED BY <2>1, <2>2, Zenon
<1> QED BY <1>1, <1>2, <1>4

LEMMA MsgFacts ==
    ASSUME NEW msg \in Msg
    PROVE  /\ msg.id \in Ids /\ msg.total \in 0 .. WordMod - 1 /\ msg.total \in Nat
           /\ msg.type \in {"single", "start", "mid", "end"}
<1>1. msg \in Cell /\ msg.k = "magic"
  BY DEF Msg
<1>2. msg.id \in Ids /\ msg.total \in 0 .. WordMod - 1 /\ msg.type \in {"single", "start", "mid", "end"}
  BY <1>1, CellFacts
<1> QED BY <1>2, SizesAssumption

\* What a first part does: it is put at the index that was never set, or at the start.
StartDone(msg, cells) ==
    /\ delivered' = delivered /\ mpkt_total_size' = msg.total
    /\ \/ ~multi_pkt_buf'.set /\ crashed' = crashed /\ astray' = astray
       \/ /\ ~multi_pkt_buf.set /\ mpkt_write_index # 0 /\ astray' = astray \cup {msg.id}
       \/ /\ mpkt_write_index' = Len(cells) % WordMod /\ astray' = astray
          /\ Len(cells) < WordMod =>
               /\ crashed' = FALSE
               /\ \A i \in 1 .. msg.total : i \in 1 .. Len(cells) => multi_pkt_buf'.cells[i] = cells[i]

LEMMA StartTyped ==
    ASSUME MultiTypes, NEW msg \in Msg, NEW cells \in Seq(Cell), StartPkt(msg, cells)
    PROVE  MultiTypes' /\ StartDone(msg, cells)
<1> DEFINE at == IF multi_pkt_buf.set THEN 0 ELSE mpkt_write_index
           empty == [i \in 1 .. msg.total |-> Garbage]
           new == [set |-> TRUE, cells |-> empty]
<1>1. /\ msg.id \in Ids /\ msg.total \in Nat /\ msg.total \in 0 .. WordMod - 1
      /\ WordMod \in Nat /\ Len(cells) \in Nat
  BY MsgFacts, SizesAssumption
<1>2. at \in Nat /\ (~multi_pkt_buf.set => at = mpkt_write_index) /\ (multi_pkt_buf.set => at = 0)
      /\ 0 \in 0 .. WordMod - 1
  BY SizesAssumption DEF MultiTypes
<1>3. empty \in Seq(Cell) /\ Len(empty) = msg.total
  BY <1>1, CellInit
<1>4. new \in [set : {TRUE}, cells : Seq(Cell)] /\ new.set /\ new.cells = empty
  BY <1>3
<1>5. /\ mpkt_total_size' = msg.total /\ delivered' = delivered
      /\ IF check_pkt(msg, Len(cells), at, msg.total, new)
         THEN /\ Copy(new, at, cells)
              /\ mpkt_write_index' = (at + Len(cells)) % WordMod
              /\ astray' = IF at = 0 THEN astray ELSE astray \cup {msg.id}
         ELSE multi_pkt_buf' = NoBuf /\ mpkt_write_index' = 0 /\ UNCHANGED <<crashed, astray>>
  BY DEF StartPkt
<1> HIDE DEF at, empty, new
<1>6. CASE ~check_pkt(msg, Len(cells), at, msg.total, new)
  <2>1. /\ multi_pkt_buf' = [set |-> FALSE, cells |-> <<>>] /\ mpkt_write_index' = 0
        /\ crashed' = crashed /\ astray' = astray
    BY <1>5, <1>6 DEF NoBuf
  <2>2. multi_pkt_buf' \in [set : BOOLEAN, cells : Seq(Cell)] /\ ~multi_pkt_buf'.set
    <3>1. <<>> \in Seq(Cell)
      OBVIOUS
    <3> QED BY <2>1, <3>1
  <2>3. MultiTypes'
    BY <1>1, <1>2, <1>5, <2>1, <2>2 DEF MultiTypes
  <2> QED BY <1>5, <2>1, <2>2, <2>3 DEF StartDone
<1>7. CASE check_pkt(msg, Len(cells), at, msg.total, new)
  <2>1. /\ Copy(new, at, cells) /\ mpkt_write_index' = (at + Len(cells)) % WordMod
        /\ astray' = IF at = 0 THEN astray ELSE astray \cup {msg.id}
    BY <1>5, <1>7
  <2>2. (at + Len(cells)) % WordMod <= msg.total
    BY <1>7 DEF check_pkt
  <2>3. /\ multi_pkt_buf' \in [set : {TRUE}, cells : Seq(Cell)]
        /\ multi_pkt_buf'.cells = Overwritten(empty, at, cells)
        /\ Len(multi_pkt_buf'.cells) = msg.total
        /\ crashed' \in BOOLEAN
        /\ at + Len(cells) < WordMod => crashed' = FALSE
    BY <1>2, <1>3, <1>4, <2>1, CopyTyped
  <2>4. mpkt_write_index' \in 0 .. WordMod - 1
    <3>1. PICK x \in Nat : x = at + Len(cells)
      BY <1>1, <1>2
    <3> QED BY <2>1, <3>1, ModuloBound
  <2>5. astray' \subseteq Ids
    BY <1>1, <2>1 DEF MultiTypes
  <2>6. multi_pkt_buf' \in [set : BOOLEAN, cells : Seq(Cell)]
    BY <2>3
  <2>7. MultiTypes'
    BY <1>1, <1>5, <2>1, <2>2, <2>3, <2>4, <2>5, <2>6 DEF MultiTypes
  <2>8. CASE at # 0
    <3>1. ~multi_pkt_buf.set /\ mpkt_write_index # 0
      BY <1>2, <2>8
    <3>2. astray' = astray \cup {msg.id}
      BY <2>1, <2>8
    <3> QED BY <1>5, <2>7, <3>1, <3>2, Zenon DEF StartDone
  <2>9. CASE at = 0
    <3>1. mpkt_write_index' = Len(cells) % WordMod /\ astray' = astray
      BY <1>1, <2>1, <2>9
    <3>2. ASSUME Len(cells) < WordMod
          PROVE  /\ crashed' = FALSE
                 /\ \A i \in 1 .. msg.total : i \in 1 .. Len(cells) => multi_pkt_buf'.cells[i] = cells[i]
      <4>1. crashed' = FALSE
        BY <1>1, <2>3, <2>9, <3>2
      <4>2. ASSUME NEW i \in 1 .. msg.total, i \in 1 .. Len(cells)
            PROVE  multi_pkt_buf'.cells[i] = cells[i]
        <5>1. i \in at + 1 .. at + Len(cells) /\ i - at = i /\ i \in 1 .. Len(empty)
          BY <1>1, <1>3, <2>9, <4>2
        <5>2. Overwritten(empty, at, cells)[i] = cells[i - at]
          BY <1>2, <1>3, <5>1, OverwrittenFacts
        <5> QED BY <2>3, <5>1, <5>2
      <4> QED BY <4>1, <4>2
    <3> QED BY <1>5, <2>7, <3>1, <3>2, Zenon DEF StartDone
  <2> QED BY <2>7, <2>8, <2>9
<1> QED BY <1>6, <1>7

\* What a later part adds to the buffer when it is accepted.
PartAdded(msg, cells) ==
    /\ multi_pkt_buf.set /\ multi_pkt_buf'.set
    /\ msg.total = mpkt_total_size
    /\ Len(multi_pkt_buf'.cells) = mpkt_total_size
    /\ mpkt_write_index + Len(cells) < WordMod =>
         /\ crashed' = FALSE
         /\ \A i \in 1 .. mpkt_total_size :
              /\ i <= mpkt_write_index => multi_pkt_buf'.cells[i] = multi_pkt_buf.cells[i]
              /\ i \in mpkt_write_index + 1 .. mpkt_write_index + Len(cells)
                   => multi_pkt_buf'.cells[i] = cells[i - mpkt_write_index]

LEMMA CopyAdds ==
    ASSUME MultiTypes, NEW msg \in Msg, NEW cells \in Seq(Cell),
           check_pkt(msg, Len(cells), mpkt_write_index, mpkt_total_size, multi_pkt_buf),
           Copy(multi_pkt_buf, mpkt_write_index, cells)
    PROVE  /\ PartAdded(msg, cells)
           /\ multi_pkt_buf' \in [set : BOOLEAN, cells : Seq(Cell)] /\ multi_pkt_buf'.set
           /\ Len(multi_pkt_buf'.cells) = mpkt_total_size
           /\ crashed' \in BOOLEAN
<1> DEFINE at == mpkt_write_index
           over == Overwritten(multi_pkt_buf.cells, at, cells)
<1>1. /\ multi_pkt_buf = [set |-> TRUE, cells |-> multi_pkt_buf.cells] /\ multi_pkt_buf.set
      /\ multi_pkt_buf.cells \in Seq(Cell) /\ Len(multi_pkt_buf.cells) = mpkt_total_size
      /\ msg.total = mpkt_total_size /\ mpkt_total_size \in Nat
      /\ mpkt_write_index \in Nat /\ WordMod \in Nat /\ Len(cells) \in Nat
  <2>1. multi_pkt_buf \in [set : BOOLEAN, cells : Seq(Cell)] /\ multi_pkt_buf.set
    BY DEF MultiTypes, check_pkt
  <2>2. multi_pkt_buf.set = TRUE /\ multi_pkt_buf.cells \in Seq(Cell)
    BY <2>1
  <2>3. multi_pkt_buf = [set |-> TRUE, cells |-> multi_pkt_buf.cells]
    BY <2>1, <2>2
  <2>4. /\ Len(multi_pkt_buf.cells) = mpkt_total_size
        /\ msg.total = mpkt_total_size /\ mpkt_total_size \in Nat
        /\ mpkt_write_index \in Nat /\ WordMod \in Nat /\ Len(cells) \in Nat
    BY <2>1, SizesAssumption DEF MultiTypes, check_pkt
  <2> QED BY <2>1, <2>2, <2>3, <2>4
<1>2. multi_pkt_buf' = [set |-> TRUE, cells |-> over]
  BY <1>1 DEF Copy
<1>3. /\ over \in Seq(Cell) /\ Len(over) = mpkt_total_size
      /\ \A i \in 1 .. mpkt_total_size :
           /\ i <= at /\ at + Len(cells) < WordMod => over[i] = multi_pkt_buf.cells[i]
           /\ i \in at + 1 .. at + Len(cells) => over[i] = cells[i - at]
  <2>1. PICK old \in Seq(Cell), x \in Nat : old = multi_pkt_buf.cells /\ x = at
    BY <1>1
  <2>2. /\ Overwritten(old, x, cells) \in Seq(Cell)
        /\ Len(Overwritten(old, x, cells)) = Len(old)
        /\ \A i \in 1 .. Len(old) :
             /\ i <= x /\ x + Len(cells) < WordMod => Overwritten(old, x, cells)[i] = old[i]
             /\ i \in x + 1 .. x + Len(cells) => Overwritten(old, x, cells)[i] = cells[i - x]
    BY <1>1, <2>1, OverwrittenFacts
  <2>3. over = Overwritten(old, x, cells)
    BY <2>1
  <2> HIDE DEF over
  <2> QED BY <1>1, <2>1, <2>2, <2>3
<1>4. crashed' \in BOOLEAN /\ (at + Len(cells) < WordMod => crashed' = FALSE)
  <2>1. crashed' \in IF at + Len(cells) >= WordMod THEN BOOLEAN ELSE {FALSE}
    BY DEF Copy
  <2>2. at + Len(cells) < WordMod => ~(at + Len(cells) >= WordMod)
    BY <1>1
  <2> QED BY <2>1, <2>2, Zenon
<1> HIDE DEF over
<1> QED BY <1>1, <1>2, <1>3, <1>4 DEF PartAdded

\* A refused part changes nothing.
PartRefused(msg, cells) ==
    /\ ~check_pkt(msg, Len(cells), mpkt_write_index, mpkt_total_size, multi_pkt_buf)
    /\ multi_pkt_buf' = multi_pkt_buf /\ mpkt_write_index' = mpkt_write_index
    /\ crashed' = crashed /\ delivered' = delivered

LEMMA MidTyped ==
    ASSUME MultiTypes, NEW msg \in Msg, NEW cells \in Seq(Cell), MidPkt(msg, cells)
    PROVE  /\ MultiTypes'
           /\ mpkt_total_size' = mpkt_total_size /\ delivered' = delivered /\ astray' = astray
           /\ \/ PartRefused(msg, cells)
              \/ /\ PartAdded(msg, cells)
                 /\ mpkt_write_index' = (mpkt_write_index + Len(cells)) % WordMod
<1>1. mpkt_total_size' = mpkt_total_size /\ delivered' = delivered /\ astray' = astray
  BY DEF MidPkt
<1>2. CASE ~check_pkt(msg, Len(cells), mpkt_write_index, mpkt_total_size, multi_pkt_buf)
  BY <1>1, <1>2 DEF MidPkt, MultiTypes, PartRefused
<1>3. CASE check_pkt(msg, Len(cells), mpkt_write_index, mpkt_total_size, multi_pkt_buf)
  <2>1. /\ Copy(multi_pkt_buf, mpkt_write_index, cells)
        /\ mpkt_write_index' = (mpkt_write_index + Len(cells)) % WordMod
    BY <1>3 DEF MidPkt
  <2>2. /\ PartAdded(msg, cells)
        /\ multi_pkt_buf' \in [set : BOOLEAN, cells : Seq(Cell)] /\ multi_pkt_buf'.set
        /\ Len(multi_pkt_buf'.cells) = mpkt_total_size
        /\ crashed' \in BOOLEAN
    BY <1>3, <2>1, CopyAdds
  <2>3. (mpkt_write_index + Len(cells)) % WordMod <= mpkt_total_size
    BY <1>3 DEF check_pkt
  <2>4. mpkt_write_index' \in 0 .. WordMod - 1
    <3>1. mpkt_write_index + Len(cells) \in Nat
      BY DEF MultiTypes
    <3>2. PICK x \in Nat : x = mpkt_write_index + Len(cells)
      BY <3>1
    <3> QED BY <2>1, <3>2, ModuloBound
  <2>5. MultiTypes'
    BY <1>1, <2>1, <2>2, <2>3, <2>4 DEF MultiTypes
  <2> QED BY <1>1, <2>1, <2>2, <2>5
<1> QED BY <1>2, <1>3

LEMMA EndTyped ==
    ASSUME MultiTypes, NEW msg \in Msg, NEW cells \in Seq(Cell), EndPkt(msg, cells)
    PROVE  /\ MultiTypes'
           /\ mpkt_total_size' = mpkt_total_size /\ mpkt_write_index' = mpkt_write_index
           /\ astray' = astray
           /\ \/ PartRefused(msg, cells)
              \/ /\ PartAdded(msg, cells)
                 /\ delivered' = Append(delivered, [id |-> msg.id, cells |-> multi_pkt_buf'.cells])
<1>1. /\ mpkt_total_size' = mpkt_total_size /\ mpkt_write_index' = mpkt_write_index
      /\ astray' = astray
  BY DEF EndPkt
<1>2. CASE ~check_pkt(msg, Len(cells), mpkt_write_index, mpkt_total_size, multi_pkt_buf)
  BY <1>1, <1>2 DEF EndPkt, MultiTypes, PartRefused
<1>3. CASE check_pkt(msg, Len(cells), mpkt_write_index, mpkt_total_size, multi_pkt_buf)
  <2>1. /\ Copy(multi_pkt_buf, mpkt_write_index, cells)
        /\ delivered' = Append(delivered, [id |-> msg.id, cells |-> multi_pkt_buf'.cells])
    BY <1>3 DEF EndPkt, Deliver
  <2>2. /\ PartAdded(msg, cells)
        /\ multi_pkt_buf' \in [set : BOOLEAN, cells : Seq(Cell)] /\ multi_pkt_buf'.set
        /\ Len(multi_pkt_buf'.cells) = mpkt_total_size
        /\ crashed' \in BOOLEAN
    BY <1>3, <2>1, CopyAdds
  <2>3. delivered' \in Seq([id : Ids, cells : Seq(Cell)])
    <3>1. [id |-> msg.id, cells |-> multi_pkt_buf'.cells] \in [id : Ids, cells : Seq(Cell)]
      BY <2>2, MsgFacts
    <3> QED BY <2>1, <3>1, AppendProperties DEF MultiTypes
  <2>5. MultiTypes'
    BY <1>1, <2>2, <2>3 DEF MultiTypes, PartAdded
  <2> QED BY <1>1, <2>1, <2>2, <2>5
<1> QED BY <1>2, <1>3
-----------------------------------------------------------------------------
(* The steps that neither receive nor parse *)

Quiet == /\ UNCHANGED <<got, G_cmd_buffer, G_cmd_buf_index, last, torn>> /\ UNCHANGED parseVars
         /\ \/ receiver'.pc = receiver.pc
            \/ receiver.pc # "parse" /\ receiver'.pc # "parse"

LEMMA QuietKeepsView ==
    ASSUME Quiet, Following, CrashesExplained, Delivered
    PROVE  Following' /\ CrashesExplained' /\ Delivered'
<1>1. /\ got' = got /\ G_cmd_buffer' = G_cmd_buffer /\ G_cmd_buf_index' = G_cmd_buf_index
      /\ last' = last /\ torn' = torn /\ multi_pkt_buf' = multi_pkt_buf
      /\ mpkt_write_index' = mpkt_write_index /\ mpkt_total_size' = mpkt_total_size
      /\ crashed' = crashed /\ delivered' = delivered /\ astray' = astray
  BY DEF Quiet, parseVars
<1>2. CrashesExplained' /\ Delivered'
  BY <1>1 DEF CrashesExplained, TooLong, FirstHead, Delivered, DeliveredWhole, DeliveredInOrder
<1>3. CASE torn \/ (last = NoClient /\ Idle)
  BY <1>1, <1>2, <1>3 DEF Following, Idle
<1>4. CASE last # NoClient /\ \E d \in Clients : \E p \in Places(d) : View(d, p)
  <2>1. PICK d \in Clients, p \in Nat : p \in Places(d) /\ View(d, p)
    <3>1. PICK d \in Clients : \E p \in Places(d) : View(d, p)
      BY <1>4
    <3> QED BY <3>1, StartFacts
  <2>2. Rested(d, p)' /\ (d # last => receiver'.pc = "parse")
    BY <1>1, <2>1 DEF Quiet, View, Rested, Held
  <2>3. Held(d, p)'
    BY <1>1, <2>1, <2>2 DEF View, Held
  <2>4. Assembled(d, p)' /\ DoneBefore(d, p)' /\ StaleHead' /\ StaleSize'
    BY <1>1, <2>1 DEF View, Assembled, DoneBefore, StaleHead, StaleSize
  <2>5. View(d, p)'
    BY <2>2, <2>3, <2>4 DEF View
  <2> QED BY <1>1, <1>2, <1>4, <2>1, <2>5 DEF Following
<1> QED BY <1>3, <1>4 DEF Following

LEMMA AcceptorSteps ==
    ASSUME Types, Links,
           (\E c \in Clients : Accept(c)) \/ AcceptFails \/ SetConnected
             \/ \E c \in Clients : CloseClient(c)
    PROVE  Types' /\ Links' /\ Quiet
<1>1. ASSUME NEW c \in Clients, Accept(c) PROVE Types' /\ Links' /\ Quiet
  <2>1. conn' \in [Clients -> {"off", "open", "closed"}]
    BY <1>1 DEF Accept, Types
  <2>2. Types'
    BY <1>1, <2>1 DEF Accept, Types, parseVars
  <2>3. Links'
    BY <1>1 DEF Accept, Types, Links
  <2> QED BY <1>1, <2>2, <2>3 DEF Accept, Quiet
<1>2. CASE AcceptFails
  <2>1. Types'
    BY <1>2 DEF AcceptFails, Types, parseVars, clientVars
  <2>2. Links'
    BY <1>2, ClientsAssumption DEF AcceptFails, Types, Links, clientVars
  <2> QED BY <1>2, <2>1, <2>2 DEF AcceptFails, Quiet, clientVars
<1>3. CASE SetConnected
  <2>1. Types'
    BY <1>3 DEF SetConnected, Types, parseVars, clientVars
  <2>2. Links'
    BY <1>3 DEF SetConnected, Types, Links, clientVars
  <2> QED BY <1>3, <2>1, <2>2 DEF SetConnected, Quiet, clientVars
<1>4. ASSUME NEW c \in Clients, CloseClient(c) PROVE Types' /\ Links' /\ Quiet
  <2>1. conn' \in [Clients -> {"off", "open", "closed"}]
    BY <1>4 DEF CloseClient, Types
  <2>2. Types'
    BY <1>4, <2>1 DEF CloseClient, Types, parseVars, linkVars
  <2>3. Links'
    BY <1>4 DEF CloseClient, Types, Links, linkVars
  <2> QED BY <1>4, <2>2, <2>3 DEF CloseClient, Quiet
<1> QED BY <1>1, <1>2, <1>3, <1>4

LEMMA ReceiverSteps ==
    ASSUME Types, Links, StartRecv \/ RecvClosed \/ RecvFails \/ ClearConnected
    PROVE  Types' /\ Links' /\ Quiet
<1> DEFINE pcs == {"check", "recv", "parse", "closed"}
<1>0. receiver \in [pc : pcs, fd : Clients \cup {NoClient}] /\ new_fd \in Clients \cup {NoClient}
  BY DEF Types
<1>1. CASE StartRecv
  <2>1. receiver' = [pc |-> "recv", fd |-> new_fd] /\ receiver.pc = "check"
    BY <1>1 DEF StartRecv
  <2>2. Types'
    BY <1>0, <1>1, <2>1 DEF StartRecv, Types, parseVars, clientVars, linkVars
  <2>3. Links'
    BY <1>0, <1>1, <2>1 DEF StartRecv, Types, Links, clientVars, linkVars
  <2> QED BY <1>1, <2>1, <2>2, <2>3 DEF StartRecv, Quiet, clientVars
<1>2. CASE RecvClosed
  <2>1. receiver' = [pc |-> "closed", fd |-> receiver.fd] /\ receiver.pc = "recv"
    BY <1>0, <1>2 DEF RecvClosed
  <2>2. Types'
    BY <1>0, <1>2, <2>1 DEF RecvClosed, Types, parseVars, clientVars, linkVars
  <2>3. Links'
    BY <1>0, <1>2, <2>1 DEF RecvClosed, Types, Links, clientVars, linkVars
  <2> QED BY <1>2, <2>1, <2>2, <2>3 DEF RecvClosed, Quiet, clientVars
<1>3. CASE RecvFails
  <2>1. receiver' = [pc |-> "check", fd |-> receiver.fd] /\ receiver.pc = "recv"
    BY <1>0, <1>3 DEF RecvFails
  <2>2. Types'
    BY <1>0, <1>3, <2>1 DEF RecvFails, Types, parseVars, clientVars, linkVars
  <2>3. Links'
    BY <1>0, <1>3, <2>1 DEF RecvFails, Types, Links, clientVars, linkVars
  <2> QED BY <1>3, <2>1, <2>2, <2>3 DEF RecvFails, Quiet, clientVars
<1>4. CASE ClearConnected
  <2>1. receiver' = [pc |-> "check", fd |-> receiver.fd] /\ receiver.pc = "closed"
    BY <1>0, <1>4 DEF ClearConnected
  <2>2. Types'
    BY <1>0, <1>4, <2>1 DEF ClearConnected, Types, parseVars, clientVars
  <2>3. Links'
    BY <1>0, <1>4, <2>1 DEF ClearConnected, Types, Links, clientVars
  <2> QED BY <1>4, <2>1, <2>2, <2>3 DEF ClearConnected, Quiet, clientVars
<1> QED BY <1>1, <1>2, <1>3, <1>4
-----------------------------------------------------------------------------
(* recv *)

\* What RecvData(n) does, with the client and the length of the buffer before it.
Received(n, c, b) ==
    /\ c = receiver.fd /\ c \in Clients /\ b = G_cmd_buf_index /\ n \in 1 .. MaxRecv
    /\ receiver.pc = "recv" /\ conn[c] = "open" /\ got[c] + n <= Sent(c)
    /\ got' = [got EXCEPT ![c] = got[c] + n]
    /\ receiver' = [pc |-> "parse", fd |-> c] /\ last' = c
    /\ torn' = (torn \/ (last \notin {c, NoClient} /\ ~Whole(last, got[last])))
    /\ b + n <= BufCap /\ G_cmd_buf_index' = b + n /\ ~crashed /\ crashed' = crashed
    /\ G_cmd_buffer' = [i \in 1 .. BufCap |-> IF i \in b + 1 .. b + n
                                              THEN StreamCell(c, got[c] + i - b)
                                              ELSE G_cmd_buffer[i]]
    /\ conn' = conn /\ new_fd' = new_fd /\ acceptor' = acceptor /\ connect_state' = connect_state
    /\ multi_pkt_buf' = multi_pkt_buf /\ mpkt_write_index' = mpkt_write_index
    /\ mpkt_total_size' = mpkt_total_size /\ delivered' = delivered /\ astray' = astray

LEMMA RecvIs ==
    ASSUME Types, NEW n \in 1 .. MaxRecv, RecvData(n)
    PROVE  \E c, b : Received(n, c, b)
<1>1. PICK c, b : c = receiver.fd /\ b = G_cmd_buf_index
  OBVIOUS
<1>2. receiver' = [pc |-> "parse", fd |-> c]
  BY <1>1 DEF RecvData, Receives, Types
<1>3. /\ c \in Clients /\ receiver.pc = "recv" /\ conn[c] = "open" /\ got[c] + n <= Sent(c)
      /\ got' = [got EXCEPT ![c] = got[c] + n] /\ last' = c
      /\ conn' = conn /\ new_fd' = new_fd /\ acceptor' = acceptor /\ connect_state' = connect_state
      /\ multi_pkt_buf' = multi_pkt_buf /\ mpkt_write_index' = mpkt_write_index
      /\ mpkt_total_size' = mpkt_total_size /\ delivered' = delivered /\ astray' = astray
  BY <1>1 DEF RecvData, Receives, linkVars, parseVars
<1>4. torn' = (torn \/ (last \notin {c, NoClient} /\ ~Whole(last, got[last])))
  BY <1>1 DEF RecvData
<1>5. /\ b + n <= BufCap /\ G_cmd_buf_index' = b + n /\ ~crashed /\ crashed' = crashed
      /\ G_cmd_buffer' = [i \in 1 .. BufCap |-> IF i \in b + 1 .. b + n
                                                THEN StreamCell(c, got[c] + i - b)
                                                ELSE G_cmd_buffer[i]]
  BY <1>1 DEF RecvData, Receives, parseVars
<1>7. Received(n, c, b)
  BY <1>1, <1>2, <1>3, <1>4, <1>5 DEF Received
<1> QED BY <1>7

LEMMA RecvTypes ==
    ASSUME Types, Links, NEW n, NEW c, NEW b, Received(n, c, b)
    PROVE  Types' /\ Links'
<1>1. /\ c \in Clients /\ n \in Nat /\ b \in 0 .. BufCap /\ n >= 1 /\ BufCap \in Nat
      /\ got \in [Clients -> Nat] /\ Sent(c) \in Nat /\ got[c] \in Nat /\ got[c] + n <= Sent(c)
  <2>1. c \in Clients /\ n \in 1 .. MaxRecv /\ b = G_cmd_buf_index /\ got[c] + n <= Sent(c)
    BY DEF Received
  <2>2. got \in [Clients -> Nat] /\ G_cmd_buf_index \in 0 .. BufCap
    BY DEF Types
  <2>3. Sent(c) \in Nat /\ BufCap \in Nat /\ MaxRecv \in Nat
    BY <2>1, SentFacts, SizesAssumption
  <2> QED BY <2>1, <2>2, <2>3
<1>2. got' \in [Clients -> Nat] /\ \A x \in Clients : got'[x] <= Sent(x)
  BY <1>1 DEF Received, Types
<1>3. G_cmd_buffer' \in [1 .. BufCap -> Cell] /\ G_cmd_buf_index' \in 0 .. BufCap
  <2>1. /\ b + n <= BufCap /\ G_cmd_buf_index' = b + n
        /\ G_cmd_buffer' = [i \in 1 .. BufCap |-> IF i \in b + 1 .. b + n
                                                  THEN StreamCell(c, got[c] + i - b)
                                                  ELSE G_cmd_buffer[i]]
    BY DEF Received
  <2>2. ASSUME NEW i \in 1 .. BufCap, i \in b + 1 .. b + n
        PROVE  StreamCell(c, got[c] + i - b) \in Cell
    <3>1. PICK j \in 1 .. Sent(c) : j = got[c] + i - b
      BY <1>1, <2>2
    <3>2. StreamCell(c, j) \in Cell
      BY <1>1, CellOfStream
    <3> QED BY <3>1, <3>2
  <2>3. \A i \in 1 .. BufCap : G_cmd_buffer[i] \in Cell
    BY DEF Types
  <2>4. G_cmd_buffer' \in [1 .. BufCap -> Cell]
    BY <2>1, <2>2, <2>3
  <2>5. b + n \in 0 .. BufCap
    BY <1>1, <2>1
  <2> QED BY <2>1, <2>4, <2>5
<1>4. /\ crashed' \in BOOLEAN /\ torn' \in BOOLEAN
      /\ receiver' \in [pc : {"check", "recv", "parse", "closed"}, fd : Clients \cup {NoClient}]
      /\ last' \in Clients \cup {NoClient}
  <2>1. crashed' \in BOOLEAN
    BY DEF Received, Types
  <2>2. torn' \in BOOLEAN
    BY Zenon DEF Received, Types
  <2> QED BY <1>1, <2>1, <2>2 DEF Received
<1>5. Types'
  BY <1>2, <1>3, <1>4 DEF Received, Types
<1>6. Links'
  <2>1. ASSUME NEW x \in Clients, conn'[x] = "off"
        PROVE  got'[x] = 0 /\ x \notin {new_fd', receiver'.fd, last'}
    BY <1>1, <2>1 DEF Received, Links
  <2>2. receiver'.fd = c /\ last' = c /\ c # NoClient /\ new_fd' = new_fd /\ receiver.fd = c
    BY <1>1, ClientsAssumption DEF Received
  <2>3. new_fd' \notin {receiver'.fd, NoClient} => got'[new_fd'] = 0
    BY <1>1, <2>2 DEF Received, Links, Types
  <2> QED BY <2>1, <2>2, <2>3 DEF Links
<1> QED BY <1>5, <1>6

\* Its sizes, and who has received more by it.
LEMMA RecvFacts ==
    ASSUME Types, NEW n, NEW c, NEW b, Received(n, c, b)
    PROVE  /\ c \in Clients /\ n \in Nat /\ b \in Nat /\ n >= 1 /\ n <= MaxRecv /\ BufCap \in Nat
           /\ got \in [Clients -> Nat] /\ Sent(c) \in Nat /\ got[c] \in Nat /\ got[c] + n <= Sent(c)
           /\ got'[c] = got[c] + n /\ MaxRecv \in Nat /\ 3 + MaxRecv <= BufCap
           /\ (\A x \in Clients : x # c => got'[x] = got[x])
<1>1. MaxRecv \in Nat /\ BufCap \in Nat /\ 3 + MaxRecv <= BufCap
  BY SizesAssumption DEF Head_Cells
<1>2. c \in Clients /\ n \in 1 .. MaxRecv /\ b = G_cmd_buf_index /\ got[c] + n <= Sent(c)
      /\ got' = [got EXCEPT ![c] = got[c] + n]
  BY DEF Received
<1>3. got \in [Clients -> Nat] /\ G_cmd_buf_index \in 0 .. BufCap
  BY DEF Types
<1>4. Sent(c) \in Nat
  BY <1>2, SentFacts
<1>5. n \in Nat /\ n >= 1 /\ n <= MaxRecv
  BY <1>1, <1>2
<1>6. b \in Nat
  BY <1>1, <1>2, <1>3
<1>7. got'[c] = got[c] + n /\ \A x \in Clients : x # c => got'[x] = got[x]
  BY <1>2, <1>3
<1> QED BY <1>1, <1>2, <1>3, <1>4, <1>5, <1>6, <1>7

\* The same client goes on.
LEMMA RecvMore ==
    ASSUME Types, NEW n, NEW c, NEW b, Received(n, c, b), NEW p \in Places(c),
           last = c, View(c, p)
    PROVE  View(c, p)'
<1> DEFINE s == Start(c, p)
<1>1. /\ c \in Clients /\ n \in Nat /\ b \in Nat /\ n >= 1 /\ n <= MaxRecv /\ BufCap \in Nat
      /\ got \in [Clients -> Nat] /\ Sent(c) \in Nat /\ got[c] \in Nat /\ got[c] + n <= Sent(c)
      /\ got'[c] = got[c] + n /\ MaxRecv \in Nat /\ 3 + MaxRecv <= BufCap
      /\ (\A x \in Clients : x # c => got'[x] = got[x])
  BY RecvFacts
<1>2. s \in Nat /\ p \in Nat
  BY <1>1, StartFacts
<1>3. /\ got[c] = s + b
      /\ \A i \in 1 .. b : G_cmd_buffer[i] = StreamCell(c, s + i)
  BY <1>1, <1>2 DEF View, Held, Received
<1>4. p \in DOMAIN Script[c] /\ s = Script[c][p].pos
  <2>1. s < Sent(c)
    BY <1>1, <1>2, <1>3
  <2> QED BY <1>1, <2>1, StartFacts
<1>5. Script[c][p].cur \in Nat
  BY <1>1, <1>4, PacketFacts
<1>6. b + n <= BufCap
  BY DEF Received
<1>7. /\ G_cmd_buf_index' = b + n /\ last' = c /\ receiver'.pc = "parse"
      /\ \A i \in 1 .. BufCap : G_cmd_buffer'[i] = IF i \in b + 1 .. b + n
                                                   THEN StreamCell(c, got[c] + i - b)
                                                   ELSE G_cmd_buffer[i]
      /\ multi_pkt_buf' = multi_pkt_buf /\ mpkt_write_index' = mpkt_write_index
      /\ mpkt_total_size' = mpkt_total_size /\ delivered' = delivered /\ astray' = astray
  BY <1>6 DEF Received
<1>8. \A i \in 1 .. b + n : G_cmd_buffer'[i] = StreamCell(c, s + i)
  <2> SUFFICES ASSUME NEW i \in 1 .. b + n PROVE G_cmd_buffer'[i] = StreamCell(c, s + i)
    OBVIOUS
  <2>1. CASE i \in 1 .. b
    <3>1. i \in 1 .. BufCap /\ i \notin b + 1 .. b + n
      BY <1>1, <1>6, <2>1
    <3> QED BY <1>3, <1>7, <2>1, <3>1
  <2>2. CASE i \notin 1 .. b
    <3>1. i \in 1 .. BufCap /\ i \in b + 1 .. b + n /\ got[c] + i - b = s + i
      BY <1>1, <1>2, <1>3, <1>6, <2>2
    <3> QED BY <1>7, <3>1
  <2> QED BY <2>1, <2>2
<1>9. Held(c, p)' /\ Rested(c, p)'
  <2>1. got'[c] - s = b + n /\ b + n >= 0
    BY <1>1, <1>2, <1>3
  <2> HIDE DEF s
  <2>2. s = Start(c, p)
    BY DEF s
  <2> QED BY <1>7, <1>8, <2>1, <2>2 DEF Held, Rested
<1>10. Assembled(c, p)'
  BY <1>7 DEF View, Assembled
<1>11. DoneBefore(c, p)'
  <2>1. ASSUME NEW i \in DOMAIN delivered, NEW x \in Clients, NEW q \in DOMAIN Script[x],
               Closes(Script[x][q]), delivered[i].id = Script[x][q].id
        PROVE  PacketEnd(Script[x][q]) <= got'[x] /\ (x = c => q < p)
    <3>1. PacketEnd(Script[x][q]) <= got[x] /\ (x = c => q < p)
      BY <2>1 DEF View, DoneBefore
    <3>2. PacketEnd(Script[x][q]) \in Nat /\ got[x] \in Nat
      BY <1>1, PacketFacts
    <3> QED BY <1>1, <3>1, <3>2
  <2> QED BY <1>7, <2>1 DEF DoneBefore
<1>12. StaleHead'
  <2>1. /\ StreamCell(c, s + 1) = PacketCell(Script[c][p], 1)
        /\ StreamCell(c, s + 2) = PacketCell(Script[c][p], 2)
        /\ PacketCell(Script[c][p], 1).k = "SEND_CMD" /\ PacketCell(Script[c][p], 2).k = "magic"
    BY <1>1, <1>4, <1>5, StreamCells, PacketCells
  <2>2. G_cmd_buffer'[1].k = "SEND_CMD"
    BY <1>1, <1>8, <2>1
  <2>3. CASE b + n >= 2
    BY <1>1, <1>8, <2>1, <2>2, <2>3 DEF StaleHead
  <2>4. CASE b + n < 2
    <3>1. b = 0 /\ 2 \notin b + 1 .. b + n /\ 2 \in 1 .. BufCap
      BY <1>1, <2>4
    <3>2. G_cmd_buffer'[2] = G_cmd_buffer[2]
      BY <1>7, <3>1
    <3>3. G_cmd_buffer[2].k = "magic"
      BY <3>1 DEF View, StaleHead, Received
    <3> QED BY <2>2, <3>2, <3>3 DEF StaleHead
  <2> QED BY <1>1, <2>3, <2>4
<1>13. StaleSize'
  <2>1. SUFFICES ASSUME b + n < 3 PROVE G_cmd_buffer'[3] = G_cmd_buffer[3]
    BY <1>1, <1>7 DEF View, StaleSize, Received
  <2>2. 3 \in 1 .. BufCap /\ 3 \notin b + 1 .. b + n
    BY <1>1, <2>1
  <2> QED BY <1>7, <2>2
<1> QED BY <1>9, <1>10, <1>11, <1>12, <1>13 DEF View

\* The next client starts: nothing is held, or one packet without data of the client before.
LEMMA RecvFirst ==
    ASSUME Types, NEW n, NEW c, NEW b, Received(n, c, b), got[c] = 0,
           \/ /\ b = 0 /\ G_cmd_buffer[2].k = "magic" /\ StaleSize
              /\ \A i \in DOMAIN delivered, x \in Clients : \A q \in DOMAIN Script[x] :
                   (Closes(Script[x][q]) /\ delivered[i].id = Script[x][q].id) =>
                     PacketEnd(Script[x][q]) <= got[x]
           \/ b = 0 /\ Idle
    PROVE  View(c, 1)'
<1>1. /\ c \in Clients /\ n \in Nat /\ n >= 1 /\ n <= MaxRecv /\ BufCap \in Nat /\ b = 0
      /\ got \in [Clients -> Nat] /\ Sent(c) \in Nat /\ n <= Sent(c)
      /\ got'[c] = n /\ MaxRecv \in Nat /\ 3 + MaxRecv <= BufCap
      /\ (\A x \in Clients : x # c => got'[x] = got[x])
  BY RecvFacts
<1>2. 1 \in Places(c) /\ Start(c, 1) = 0 /\ 1 \in DOMAIN Script[c]
  <2>1. 1 \in Places(c) /\ Start(c, 1) = 0 /\ Start(c, 1) < Sent(c)
    BY <1>1, StartFacts
  <2> QED BY <1>1, <2>1, StartFacts
<1>3. Script[c][1].pos = 0 /\ Opens(Script[c][1]) /\ Script[c][1].cur \in Nat
  BY <1>1, <1>2, PacketFacts
<1>4. b + n <= BufCap
  BY DEF Received
<1>5. /\ G_cmd_buf_index' = n /\ last' = c /\ receiver'.pc = "parse"
      /\ \A i \in 1 .. BufCap : G_cmd_buffer'[i] = IF i \in b + 1 .. b + n
                                                   THEN StreamCell(c, got[c] + i - b)
                                                   ELSE G_cmd_buffer[i]
      /\ multi_pkt_buf' = multi_pkt_buf /\ mpkt_write_index' = mpkt_write_index
      /\ mpkt_total_size' = mpkt_total_size /\ delivered' = delivered /\ astray' = astray
  BY <1>1, <1>4 DEF Received
<1>6. \A i \in 1 .. n : G_cmd_buffer'[i] = StreamCell(c, i)
  <2> SUFFICES ASSUME NEW i \in 1 .. n PROVE G_cmd_buffer'[i] = StreamCell(c, i)
    OBVIOUS
  <2>1. i \in 1 .. BufCap /\ i \in b + 1 .. b + n /\ got[c] + i - b = i
    BY <1>1, <1>4
  <2> QED BY <1>5, <2>1
<1>7. Held(c, 1)' /\ Rested(c, 1)'
  <2>1. got'[c] - 0 = n /\ n >= 0 /\ \A i \in 1 .. n : 0 + i = i
    BY <1>1
  <2> QED BY <1>2, <1>5, <1>6, <2>1 DEF Held, Rested
<1>8. Assembled(c, 1)'
  BY <1>3 DEF Assembled
<1>9. DoneBefore(c, 1)'
  <2>1. ASSUME NEW i \in DOMAIN delivered, NEW x \in Clients, NEW q \in DOMAIN Script[x],
               Closes(Script[x][q]), delivered[i].id = Script[x][q].id
        PROVE  PacketEnd(Script[x][q]) <= got'[x] /\ x # c
    <3>1. PacketEnd(Script[x][q]) <= got[x]
      BY <2>1 DEF Idle
    <3>2. PacketEnd(Script[x][q]) = Script[x][q].pos + 3 + Script[x][q].cur
          /\ Script[x][q].pos \in Nat /\ Script[x][q].cur \in Nat
      BY PacketFacts
    <3>3. x # c
      BY <3>1, <3>2
    <3> QED BY <1>1, <3>1, <3>3
  <2> QED BY <1>5, <2>1 DEF DoneBefore
<1>10. StaleHead'
  <2>1. /\ StreamCell(c, 1) = PacketCell(Script[c][1], 1)
        /\ StreamCell(c, 2) = PacketCell(Script[c][1], 2)
        /\ PacketCell(Script[c][1], 1).k = "SEND_CMD" /\ PacketCell(Script[c][1], 2).k = "magic"
    <3>1. /\ 1 \in 1 .. 3 + Script[c][1].cur /\ 2 \in 1 .. 3 + Script[c][1].cur
          /\ Script[c][1].pos + 1 = 1 /\ Script[c][1].pos + 2 = 2
      BY <1>3
    <3>2. /\ StreamCell(c, Script[c][1].pos + 1) = PacketCell(Script[c][1], 1)
          /\ StreamCell(c, Script[c][1].pos + 2) = PacketCell(Script[c][1], 2)
      BY <1>1, <1>2, <3>1, StreamCells
    <3>3. /\ PacketCell(Script[c][1], 1).k = "SEND_CMD"
          /\ PacketCell(Script[c][1], 2).k = "magic"
      BY <1>3, PacketCells
    <3> QED BY <3>1, <3>2, <3>3
  <2>2. G_cmd_buffer'[1].k = "SEND_CMD"
    BY <1>1, <1>6, <2>1
  <2>3. CASE n >= 2
    BY <1>1, <1>6, <2>1, <2>2, <2>3 DEF StaleHead
  <2>4. CASE n < 2
    <3>1. n = 1 /\ 2 \notin b + 1 .. b + n /\ 2 \in 1 .. BufCap
      BY <1>1, <2>4
    <3>2. \A i \in 2 .. BufCap : G_cmd_buffer'[i] = G_cmd_buffer[i]
      BY <1>1, <1>5, <3>1
    <3> QED BY <1>1, <1>5, <2>2, <3>1, <3>2 DEF StaleHead, Idle
  <2> QED BY <1>1, <2>3, <2>4
<1>11. StaleSize'
  <2>1. SUFFICES ASSUME n < 3 PROVE G_cmd_buffer'[3] = G_cmd_buffer[3]
    <3>1. G_cmd_buf_index = 0 /\ 3 \in 1 .. BufCap
      BY <1>1 DEF Received
    <3> QED BY <1>5, <3>1 DEF StaleSize, Idle
  <2>2. 3 \in 1 .. BufCap /\ 3 \notin b + 1 .. b + n
    BY <1>1, <2>1
  <2> QED BY <1>5, <2>2
<1> QED BY <1>7, <1>8, <1>9, <1>10, <1>11 DEF View

LEMMA RecvBehind ==
    ASSUME Types, NEW n, NEW c, NEW b, Received(n, c, b), got[c] = 0,
           NEW d \in Clients, NEW p \in DOMAIN Script[d], d # c, last = d, View(d, p),
           b = 3, Script[d][p].cur = 0
    PROVE  View(d, p)'
<1>1. /\ c \in Clients /\ n \in Nat /\ n >= 1 /\ n <= MaxRecv /\ BufCap \in Nat
      /\ got \in [Clients -> Nat] /\ got[d] \in Nat
      /\ got'[c] = n /\ MaxRecv \in Nat /\ 3 + MaxRecv <= BufCap
      /\ (\A x \in Clients : x # c => got'[x] = got[x]) /\ got'[d] = got[d]
      /\ Start(d, p) \in Nat /\ p \in Places(d)
  <2>1. Start(d, p) \in Nat /\ p \in Places(d)
    BY StartFacts
  <2>2. MaxRecv \in Nat /\ 3 + MaxRecv <= BufCap /\ BufCap \in Nat
    BY SizesAssumption DEF Head_Cells
  <2> QED BY <2>1, <2>2 DEF Received, Types
<1>2. b + n <= BufCap
  BY DEF Received
<1>3. got[d] - Start(d, p) = 3 /\ \A i \in 1 .. 3 : G_cmd_buffer[i] = StreamCell(d, Start(d, p) + i)
  <2>1. G_cmd_buf_index = 3
    BY DEF Received
  <2> QED BY <2>1 DEF View, Held
<1>4. /\ G_cmd_buf_index' = 3 + n /\ last' = c /\ receiver'.pc = "parse"
      /\ \A i \in 1 .. BufCap : G_cmd_buffer'[i] = IF i \in b + 1 .. b + n
                                                   THEN StreamCell(c, got[c] + i - b)
                                                   ELSE G_cmd_buffer[i]
      /\ multi_pkt_buf' = multi_pkt_buf /\ mpkt_write_index' = mpkt_write_index
      /\ mpkt_total_size' = mpkt_total_size /\ delivered' = delivered /\ astray' = astray
  BY <1>1, <1>2 DEF Received
<1>5. \A i \in 1 .. n : G_cmd_buffer'[3 + i] = StreamCell(c, i)
  <2> SUFFICES ASSUME NEW i \in 1 .. n PROVE G_cmd_buffer'[3 + i] = StreamCell(c, i)
    OBVIOUS
  <2>1. 3 + i \in 1 .. BufCap /\ 3 + i \in b + 1 .. b + n /\ got[c] + (3 + i) - b = i
    BY <1>1, <1>2
  <2> QED BY <1>4, <2>1
<1>6. \A i \in 1 .. 3 : G_cmd_buffer'[i] = G_cmd_buffer[i]
  <2> SUFFICES ASSUME NEW i \in 1 .. 3 PROVE G_cmd_buffer'[i] = G_cmd_buffer[i]
    OBVIOUS
  <2>1. i \in 1 .. BufCap /\ i \notin b + 1 .. b + n
    BY <1>1
  <2> QED BY <1>4, <2>1
<1>7. Held(d, p)' /\ Rested(d, p)'
  BY <1>1, <1>3, <1>4, <1>5, <1>6 DEF Held, Rested, Head_Cells
<1>8. Assembled(d, p)'
  BY <1>4 DEF View, Assembled
<1>9. DoneBefore(d, p)'
  <2>1. ASSUME NEW i \in DOMAIN delivered, NEW x \in Clients, NEW q \in DOMAIN Script[x],
               Closes(Script[x][q]), delivered[i].id = Script[x][q].id
        PROVE  PacketEnd(Script[x][q]) <= got'[x] /\ x # c /\ (x = d => q < p)
    <3>1. PacketEnd(Script[x][q]) <= got[x] /\ (x = d => q < p)
      BY <2>1 DEF View, DoneBefore
    <3>2. PacketEnd(Script[x][q]) = Script[x][q].pos + 3 + Script[x][q].cur
          /\ Script[x][q].pos \in Nat /\ Script[x][q].cur \in Nat
      BY PacketFacts
    <3>3. x # c
      BY <3>1, <3>2
    <3> QED BY <1>1, <3>1, <3>3
  <2> QED BY <1>4, <2>1 DEF DoneBefore
<1>10. StaleHead'
  <2>1. G_cmd_buffer[1].k = "SEND_CMD" /\ G_cmd_buffer[2].k = "magic"
    BY DEF View, StaleHead, Received
  <2> QED BY <1>6, <2>1 DEF StaleHead
<1>11. StaleSize'
  BY <1>1, <1>4 DEF StaleSize
<1> QED BY <1>7, <1>8, <1>9, <1>10, <1>11 DEF View

LEMMA RecvKeepsView ==
    ASSUME Types, Links, Following, NEW n, NEW c, NEW b, Received(n, c, b), ~torn'
    PROVE  Following'
<1>1. /\ c \in Clients /\ c # NoClient /\ last' = c /\ ~torn /\ b = G_cmd_buf_index /\ c = receiver.fd
      /\ receiver.pc = "recv" /\ (last \in {c, NoClient} \/ Whole(last, got[last]))
  BY ClientsAssumption DEF Received
<1>2. SUFFICES \E d \in Clients : \E p \in Places(d) : View(d, p)'
  BY <1>1 DEF Following
<1>3. CASE last = NoClient /\ Idle
  <2>1. got[c] = 0 /\ b = 0
    BY <1>1, <1>3 DEF Idle
  <2>2. View(c, 1)'
    BY <1>3, <2>1, RecvFirst
  <2> QED BY <1>1, <2>2, StartFacts
<1>4. CASE last # NoClient /\ \E d \in Clients : \E p \in Places(d) : View(d, p)
  <2>1. PICK d \in Clients : \E p \in Places(d) : View(d, p)
    BY <1>4
  <2>2. PICK p \in Places(d) : View(d, p)
    BY <2>1
  <2>3. d = last
    BY <1>1, <2>2 DEF View, Rested
  <2>4. CASE d = c
    BY <1>1, <2>2, <2>3, <2>4, RecvMore
  <2>5. CASE d # c
    <3>1. got[c] = 0 /\ Whole(d, got[d])
      <4>1. d # NoClient /\ last \notin {c, NoClient} /\ receiver.fd \notin {last, NoClient}
        BY <1>1, <2>3, <2>5, ClientsAssumption
      <4>2. got[c] = 0
        BY <1>1, <4>1 DEF Links
      <4>3. Whole(last, got[last])
        BY <1>1, <4>1, Zenon
      <4> QED BY <2>3, <4>2, <4>3
    <3>2. /\ Start(d, p) \in Nat /\ b \in Nat /\ got[d] \in Nat /\ got[d] = Start(d, p) + b
      BY <1>1, <2>2, <2>3, StartFacts DEF View, Held, Types
    <3>3. CASE b = 0
      <4>1. G_cmd_buffer[2].k = "magic" /\ StaleSize
        BY <1>1, <2>2, <3>3 DEF View, StaleHead
      <4>2. \A i \in DOMAIN delivered, x \in Clients : \A q \in DOMAIN Script[x] :
              (Closes(Script[x][q]) /\ delivered[i].id = Script[x][q].id) =>
                PacketEnd(Script[x][q]) <= got[x]
        BY <2>2 DEF View, DoneBefore
      <4>3. View(c, 1)'
        BY <3>1, <3>3, <4>1, <4>2, RecvFirst
      <4> QED BY <1>1, <4>3, StartFacts
    <3>4. CASE b # 0
      <4>1. /\ p \in DOMAIN Script[d]
            /\ \/ b < Head_Cells + Script[d][p].cur
               \/ Script[d][p].cur = 0 /\ b = Head_Cells
        BY <1>1, <2>2, <3>4 DEF View, Rested
      <4>2. /\ Start(d, p) = Script[d][p].pos /\ Script[d][p].cur \in Nat
            /\ PacketEnd(Script[d][p]) = Script[d][p].pos + 3 + Script[d][p].cur
        BY <4>1, PacketFacts, StartFacts
      <4>3. CASE b < Head_Cells + Script[d][p].cur
        <5>1. Script[d][p].pos < got[d] /\ got[d] < PacketEnd(Script[d][p])
          BY <3>2, <3>4, <4>2, <4>3 DEF Head_Cells
        <5>2. PICK m \in Nat : m = got[d]
          BY <3>2
        <5>3. ~Whole(d, m)
          BY <4>1, <5>1, <5>2, PartNotWhole
        <5> QED BY <3>1, <5>2, <5>3
      <4>4. CASE Script[d][p].cur = 0 /\ b = Head_Cells
        <5>1. View(d, p)'
          BY <2>2, <2>3, <2>5, <3>1, <4>1, <4>4, RecvBehind DEF Head_Cells
        <5> QED BY <5>1
      <4> QED BY <4>1, <4>3, <4>4
    <3> QED BY <3>3, <3>4
  <2> QED BY <2>4, <2>5
<1> QED BY <1>1, <1>3, <1>4 DEF Following

LEMMA RecvStep ==
    ASSUME IInv, NEW n \in 1 .. MaxRecv, RecvData(n)
    PROVE  IInv'
<1>1. PICK c, b : Received(n, c, b)
  BY RecvIs DEF IInv
<1>2. Types' /\ Links'
  BY <1>1, RecvTypes DEF IInv
<1>3. torn => torn'
  BY <1>1 DEF Received
<1>4. Delivered'
  BY <1>1, <1>3 DEF Received, IInv, Delivered, DeliveredWhole, DeliveredInOrder
<1>5. CASE torn'
  BY <1>2, <1>4, <1>5 DEF Following, IInv, CrashesExplained
<1>6. CASE ~torn'
  <2>1. Following'
    BY <1>1, <1>6, RecvKeepsView DEF IInv
  <2>2. ~crashed'
    BY <1>1 DEF Received
  <2> QED BY <1>2, <1>4, <2>1, <2>2 DEF IInv, CrashesExplained
<1> QED BY <1>5, <1>6

\* Nothing changes but that the process is not followed any further.
Lost == /\ crashed' = TRUE /\ receiver' = receiver /\ got' = got /\ conn' = conn
        /\ new_fd' = new_fd /\ acceptor' = acceptor /\ connect_state' = connect_state
        /\ G_cmd_buffer' = G_cmd_buffer /\ G_cmd_buf_index' = G_cmd_buf_index
        /\ multi_pkt_buf' = multi_pkt_buf /\ mpkt_write_index' = mpkt_write_index
        /\ mpkt_total_size' = mpkt_total_size /\ delivered' = delivered /\ astray' = astray
        /\ last' = last /\ torn' = torn

LEMMA LostKeeps ==
    ASSUME IInv, Lost, torn \/ TooLong \/ FirstHead
    PROVE  IInv'
<1>1. Types' /\ Links'
  BY DEF IInv, Lost, Types, Links
<1>2. Delivered'
  BY DEF IInv, Lost, Delivered, DeliveredWhole, DeliveredInOrder
<1>3. CrashesExplained'
  BY DEF Lost, CrashesExplained, TooLong, FirstHead
<1>4. Following'
  <2>1. CASE torn \/ (last = NoClient /\ Idle)
    BY <2>1 DEF Lost, Following, Idle
  <2>2. CASE last # NoClient /\ \E d \in Clients : \E p \in Places(d) : View(d, p)
    <3>1. ASSUME NEW d \in Clients, NEW p \in Places(d), View(d, p) PROVE View(d, p)'
      <4>1. Held(d, p)' /\ Rested(d, p)'
        BY <3>1 DEF Lost, View, Held, Rested
      <4>2. Assembled(d, p)' /\ DoneBefore(d, p)' /\ StaleHead' /\ StaleSize'
        BY <3>1 DEF Lost, View, Assembled, DoneBefore, StaleHead, StaleSize
      <4> QED BY <4>1, <4>2 DEF View
    <3> QED BY <2>2, <3>1 DEF Lost, Following
  <2> QED BY <2>1, <2>2 DEF IInv, Following
<1> QED BY <1>1, <1>2, <1>3, <1>4 DEF IInv

LEMMA OverflowStep ==
    ASSUME IInv, NEW n \in 1 .. MaxRecv, RecvOverflows(n)
    PROVE  IInv'
<1>1. Lost
  BY DEF RecvOverflows, Lost, clientVars, linkVars
<1>2. /\ receiver.pc = "recv" /\ G_cmd_buf_index + n > BufCap /\ n \in Nat /\ n <= MaxRecv
      /\ G_cmd_buf_index \in Nat /\ BufCap \in Nat /\ MaxRecv \in Nat /\ 3 + MaxRecv <= BufCap
  BY SizesAssumption DEF RecvOverflows, Receives, IInv, Types, Head_Cells
<1>3. G_cmd_buf_index > 3
  BY <1>2
<1>4. SUFFICES ASSUME ~torn PROVE TooLong
  BY <1>1, LostKeeps
<1>5. PICK d \in Clients : \E p \in Places(d) : View(d, p)
  BY <1>3, <1>4 DEF IInv, Following, Idle
<1>6. PICK p \in Places(d) : View(d, p)
  BY <1>5
<1>7. d = last /\ p \in DOMAIN Script[d] /\ G_cmd_buf_index < 3 + Script[d][p].cur
  BY <1>2, <1>3, <1>6 DEF View, Rested, Head_Cells
<1>8. /\ got[d] \in Nat /\ Start(d, p) = Script[d][p].pos /\ Script[d][p].pos \in Nat
      /\ Script[d][p].cur \in Nat
  BY <1>7, StartFacts, PacketFacts DEF IInv, Types
<1>9. G_cmd_buffer[3] = [k |-> "size", cur |-> Script[d][p].cur]
  <2>1. got[d] - Start(d, p) = G_cmd_buf_index
    BY <1>6, <1>7 DEF View, Held
  <2>2. 3 \in 1 .. got[d] - Start(d, p) /\ 3 \in 1 .. 3 + Script[d][p].cur
    BY <1>2, <1>3, <1>8, <2>1
  <2>3. G_cmd_buffer[3] = StreamCell(d, Script[d][p].pos + 3)
    BY <1>6, <1>8, <2>2 DEF View, Held
  <2>4. G_cmd_buffer[3] = PacketCell(Script[d][p], 3)
    BY <1>7, <2>2, <2>3, StreamCells
  <2> QED BY <1>8, <2>4, PacketCells
<1>10. PICK cur \in Nat : cur = Script[d][p].cur
  BY <1>8
<1> QED BY <1>2, <1>3, <1>7, <1>9, <1>10 DEF TooLong, Head_Cells
-----------------------------------------------------------------------------
(* The parse loop *)

\* What process_data does.
ProcessedAs(msg, cells) ==
    \/ /\ msg.type = "single"
       /\ delivered' = Append(delivered, [id |-> msg.id, cells |-> cells])
       /\ multi_pkt_buf' = multi_pkt_buf /\ mpkt_write_index' = mpkt_write_index
       /\ mpkt_total_size' = mpkt_total_size /\ crashed' = crashed /\ astray' = astray
    \/ msg.type = "start" /\ StartDone(msg, cells)
    \/ /\ msg.type = "mid"
       /\ mpkt_total_size' = mpkt_total_size /\ delivered' = delivered /\ astray' = astray
       /\ \/ PartRefused(msg, cells)
          \/ /\ PartAdded(msg, cells)
             /\ mpkt_write_index' = (mpkt_write_index + Len(cells)) % WordMod
    \/ /\ msg.type = "end"
       /\ mpkt_total_size' = mpkt_total_size /\ mpkt_write_index' = mpkt_write_index
       /\ astray' = astray
       /\ \/ PartRefused(msg, cells)
          \/ /\ PartAdded(msg, cells)
             /\ delivered' = Append(delivered, [id |-> msg.id, cells |-> multi_pkt_buf'.cells])

LEMMA ProcessTyped ==
    ASSUME MultiTypes, NEW msg \in Msg, NEW cells \in Seq(Cell), process_data(msg, cells)
    PROVE  MultiTypes' /\ ProcessedAs(msg, cells)
<1>1. CASE /\ msg.type = "single" /\ Deliver(msg.id, cells)
           /\ UNCHANGED <<multi_pkt_buf, mpkt_write_index, mpkt_total_size, crashed, astray>>
  <2>1. delivered' = Append(delivered, [id |-> msg.id, cells |-> cells])
    BY <1>1 DEF Deliver
  <2>2. delivered' \in Seq([id : Ids, cells : Seq(Cell)])
    <3>1. [id |-> msg.id, cells |-> cells] \in [id : Ids, cells : Seq(Cell)]
      BY MsgFacts
    <3> QED BY <2>1, <3>1, AppendProperties DEF MultiTypes
  <2>3. MultiTypes'
    BY <1>1, <2>2 DEF MultiTypes
  <2> QED BY <1>1, <2>1, <2>3 DEF ProcessedAs
<1>2. CASE msg.type = "start" /\ StartPkt(msg, cells)
  BY <1>2, StartTyped DEF ProcessedAs
<1>3. CASE msg.type = "mid" /\ MidPkt(msg, cells)
  BY <1>3, MidTyped DEF ProcessedAs
<1>4. CASE msg.type = "end" /\ EndPkt(msg, cells)
  BY <1>4, EndTyped DEF ProcessedAs
<1> QED BY <1>1, <1>2, <1>3, <1>4 DEF process_data

\* Where an int is the number it was.
LEMMA SignedFacts ==
    /\ \A x \in Nat : x < WordMod =>
         (2 * x < WordMod /\ Signed(x) = x) \/ (2 * x >= WordMod /\ Signed(x) < 0)
    /\ \A x \in Int : 2 * x < WordMod /\ 2 * x >= -WordMod => Signed(x) = x
    /\ \A x \in Int : Signed(x) \in Int
BY SizesAssumption DEF Signed

\* What ParsePacket does, with the place of the head it finds, the size it reads there and
\* the length of the buffer before it.
Parsed(m, len, n) ==
    /\ receiver.pc = "parse" /\ n = G_cmd_buf_index
    /\ m \in Heads(n) /\ (\A j \in Heads(n) : m <= j) /\ len \in CurSizes(m)
    /\ got' = got /\ conn' = conn /\ last' = last /\ torn' = torn
    /\ new_fd' = new_fd /\ acceptor' = acceptor /\ connect_state' = connect_state

Kept == /\ receiver' = [pc |-> "check", fd |-> receiver.fd]
        /\ G_cmd_buffer' = G_cmd_buffer /\ G_cmd_buf_index' = G_cmd_buf_index
        /\ multi_pkt_buf' = multi_pkt_buf /\ mpkt_write_index' = mpkt_write_index
        /\ mpkt_total_size' = mpkt_total_size /\ delivered' = delivered /\ astray' = astray

Taken(m, len, n) ==
    /\ m + Head_Cells + len <= n
    /\ G_cmd_buffer[m + 2] \in Msg
    /\ \E cells \in Seq(Cell) :
         /\ Len(cells) = len
         /\ \A i \in 1 .. len : cells[i] = G_cmd_buffer[m + Head_Cells + i]
         /\ ProcessedAs(G_cmd_buffer[m + 2], cells)
    /\ G_cmd_buffer' = Shifted(m + Head_Cells + len, n - (m + Head_Cells + len))
    /\ G_cmd_buf_index' = n - (m + Head_Cells + len)
    /\ receiver' = receiver

Reaches(m, len, n) == m + 3 + len \in m + 3 .. n

LEMMA HeadsFacts ==
    ASSUME Types, NEW m \in Heads(G_cmd_buf_index)
    PROVE  /\ m \in Nat /\ m + 2 <= BufCap
           /\ G_cmd_buffer[m + 1].k = "SEND_CMD" /\ G_cmd_buffer[m + 2].k = "magic"
           /\ G_cmd_buffer[m + 2] \in Msg
           /\ CurSizes(m) \subseteq Int
<1>1. BufCap \in Nat /\ G_cmd_buf_index \in Nat /\ G_cmd_buffer \in [1 .. BufCap -> Cell]
  BY SizesAssumption DEF Types
<1>2. m \in Nat /\ m + 2 <= BufCap /\ G_cmd_buffer[m + 1].k = "SEND_CMD" /\ G_cmd_buffer[m + 2].k = "magic"
  BY <1>1 DEF Heads
<1>3. G_cmd_buffer[m + 2] \in Msg
  BY <1>1, <1>2 DEF Msg
<1>4. ASSUME NEW v \in CurSizes(m) PROVE v \in Int
  <2>1. PICK w \in IF m + Head_Cells <= BufCap /\ G_cmd_buffer[m + Head_Cells].k = "size"
                  THEN {G_cmd_buffer[m + Head_Cells].cur} ELSE 0 .. WordMod - 1 : v = Signed(w)
    BY <1>4 DEF CurSizes
  <2>2. CASE m + Head_Cells <= BufCap /\ G_cmd_buffer[m + Head_Cells].k = "size"
    <3>1. G_cmd_buffer[m + Head_Cells] \in Cell
      BY <1>1, <1>2, <2>2 DEF Head_Cells
    <3>2. PICK x \in Cell : x = G_cmd_buffer[m + Head_Cells]
      BY <3>1
    <3>3. x.cur \in Nat
      BY <2>2, <3>2, CellFacts
    <3>4. w \in Int
      BY <2>1, <2>2, <3>2, <3>3
    <3> QED BY <2>1, <3>4, SignedFacts
  <2>3. CASE ~(m + Head_Cells <= BufCap /\ G_cmd_buffer[m + Head_Cells].k = "size")
    <3>1. w \in Int
      BY <2>1, <2>3, SizesAssumption
    <3> QED BY <2>1, <3>1, SignedFacts
  <2> QED BY <2>2, <2>3
<1> QED BY <1>2, <1>3, <1>4

LEMMA ParseIs ==
    ASSUME Types, ParsePacket
    PROVE  /\ \E m, len, n :
                /\ Parsed(m, len, n)
                /\ \/ Reaches(m, len, n) /\ Taken(m, len, n)
                   \/ ~Reaches(m, len, n) /\ Kept /\ crashed' = crashed
                   \/ ~Reaches(m, len, n) /\ Signed(n - (m + 3 + len)) >= 0 /\ Lost
           /\ Types'
<1>1. Heads(G_cmd_buf_index) # {} /\ Heads(G_cmd_buf_index) \subseteq Nat
  BY HeadsFacts DEF ParsePacket
<1> DEFINE m0 == CHOOSE i \in Heads(G_cmd_buf_index) : \A j \in Heads(G_cmd_buf_index) : i <= j
<1>2. m0 \in Heads(G_cmd_buf_index) /\ \A j \in Heads(G_cmd_buf_index) : m0 <= j
  <2>1. PICK S \in SUBSET Nat : S = Heads(G_cmd_buf_index)
    BY <1>1
  <2>2. \E i \in S : \A j \in S : i <= j
    BY <1>1, <2>1, LeastNat
  <2> QED BY <2>1, <2>2
<1>3. \E len \in CurSizes(m0) :
             LET end == m0 + Head_Cells + len
                 last_size == Signed(G_cmd_buf_index - end)
             IN  IF end \in m0 + Head_Cells .. G_cmd_buf_index
                 THEN /\ process_data(G_cmd_buffer[m0 + 2],
                                      SubSeq(G_cmd_buffer, m0 + Head_Cells + 1, end))
                      /\ G_cmd_buffer' = Shifted(end, last_size)
                      /\ G_cmd_buf_index' = last_size
                      /\ UNCHANGED receiver
                 ELSE /\ IF last_size >= 0
                         THEN crashed' = TRUE /\ UNCHANGED receiver
                         ELSE receiver' = [receiver EXCEPT !.pc = "check"] /\ UNCHANGED crashed
                      /\ UNCHANGED <<G_cmd_buffer, G_cmd_buf_index, multi_pkt_buf,
                                     mpkt_write_index, mpkt_total_size, delivered, astray>>
  BY DEF ParsePacket
<1> HIDE DEF m0
<1>4. PICK len \in CurSizes(m0) :
             LET end == m0 + Head_Cells + len
                 last_size == Signed(G_cmd_buf_index - end)
             IN  IF end \in m0 + Head_Cells .. G_cmd_buf_index
                 THEN /\ process_data(G_cmd_buffer[m0 + 2],
                                      SubSeq(G_cmd_buffer, m0 + Head_Cells + 1, end))
                      /\ G_cmd_buffer' = Shifted(end, last_size)
                      /\ G_cmd_buf_index' = last_size
                      /\ UNCHANGED receiver
                 ELSE /\ IF last_size >= 0
                         THEN crashed' = TRUE /\ UNCHANGED receiver
                         ELSE receiver' = [receiver EXCEPT !.pc = "check"] /\ UNCHANGED crashed
                      /\ UNCHANGED <<G_cmd_buffer, G_cmd_buf_index, multi_pkt_buf,
                                     mpkt_write_index, mpkt_total_size, delivered, astray>>
  BY <1>3
<1>5. PICK m \in Nat, n \in Nat : m = m0 /\ n = G_cmd_buf_index
  BY <1>1, <1>2 DEF Types
<1>6. /\ m + 2 <= BufCap /\ len \in Int /\ G_cmd_buffer[m + 2] \in Msg
      /\ BufCap \in Nat /\ n <= BufCap /\ G_cmd_buffer \in [1 .. BufCap -> Cell]
  <2>1. m \in Heads(G_cmd_buf_index) /\ len \in CurSizes(m)
    BY <1>2, <1>4, <1>5
  <2>2. m + 2 <= BufCap /\ len \in Int /\ G_cmd_buffer[m + 2] \in Msg
    BY <2>1, HeadsFacts
  <2>3. BufCap \in Nat /\ G_cmd_buf_index \in 0 .. BufCap /\ G_cmd_buffer \in [1 .. BufCap -> Cell]
    BY SizesAssumption DEF Types
  <2> QED BY <1>5, <2>2, <2>3
<1> DEFINE end == m + 3 + len
<1>7. Parsed(m, len, n)
  BY <1>2, <1>4, <1>5 DEF Parsed, ParsePacket, clientVars, linkVars
<1>8. CASE Reaches(m, len, n)
  <2>0. len \in Nat /\ end <= n /\ n - (m + Head_Cells + len) \in Nat
        /\ Signed(n - (m + Head_Cells + len)) = n - (m + Head_Cells + len)
    <3>1. len \in Nat /\ end <= n /\ n - (m + Head_Cells + len) \in Nat /\ n - (m + Head_Cells + len) < BufCap
      BY <1>6, <1>8 DEF Reaches, Head_Cells
    <3>2. 2 * BufCap <= WordMod /\ WordMod \in Nat
      BY SizesAssumption
    <3> QED BY <1>6, <3>1, <3>2, SignedFacts
  <2>1. /\ process_data(G_cmd_buffer[m + 2], SubSeq(G_cmd_buffer, m + Head_Cells + 1, m + Head_Cells + len))
        /\ G_cmd_buffer' = Shifted(m + Head_Cells + len, n - (m + Head_Cells + len))
        /\ G_cmd_buf_index' = n - (m + Head_Cells + len) /\ receiver' = receiver
    <3>1. m0 + Head_Cells + len \in m0 + Head_Cells .. G_cmd_buf_index
      BY <1>5, <1>8 DEF Reaches, Head_Cells
    <3> QED BY <1>4, <1>5, <2>0, <3>1
  <2>2. PICK msg, cells : /\ msg = G_cmd_buffer[m + 2]
                          /\ cells = SubSeq(G_cmd_buffer, m + Head_Cells + 1, m + Head_Cells + len)
    OBVIOUS
  <2>3. process_data(msg, cells)
    BY <2>1, <2>2
  <2>4. /\ msg \in Msg /\ cells \in Seq(Cell) /\ Len(cells) = len
        /\ \A i \in 1 .. len : cells[i] = G_cmd_buffer[m + Head_Cells + i]
    <3>1. cells = [i \in 1 .. len |-> G_cmd_buffer[m + 3 + i]]
      BY <1>6, <2>0, <2>2 DEF Head_Cells
    <3>2. ASSUME NEW i \in 1 .. len PROVE G_cmd_buffer[m + 3 + i] \in Cell
      <4>1. m + 3 + i \in 1 .. BufCap
        BY <1>6, <2>0
      <4> QED BY <1>6, <4>1
    <3>3. msg \in Msg
      BY <1>6, <2>2
    <3>4. cells \in Seq(Cell) /\ Len(cells) = len
      <4>1. cells \in [1 .. len -> Cell]
        BY <3>1, <3>2
      <4> QED BY <2>0, <4>1
    <3>5. ASSUME NEW i \in 1 .. len PROVE cells[i] = G_cmd_buffer[m + Head_Cells + i]
      BY <3>1 DEF Head_Cells
    <3> QED BY <3>3, <3>4, <3>5
  <2>5. MultiTypes' /\ ProcessedAs(msg, cells)
    <3>1. MultiTypes
      BY DEF Types, MultiTypes
    <3> QED BY <2>3, <2>4, <3>1, ProcessTyped
  <2>6. Taken(m, len, n)
    <3>1. m + Head_Cells + len <= n
      BY <2>0 DEF Head_Cells
    <3>2. ProcessedAs(G_cmd_buffer[m + 2], cells)
      BY <2>2, <2>5
    <3> QED BY <1>6, <2>0, <2>1, <2>4, <3>1, <3>2 DEF Taken
  <2>7. G_cmd_buffer' \in [1 .. BufCap -> Cell] /\ G_cmd_buf_index' \in 0 .. BufCap
    <3>1. G_cmd_buf_index' = n - end
          /\ G_cmd_buffer' = [i \in 1 .. BufCap |-> IF i <= n - end THEN G_cmd_buffer[end + i]
                                                    ELSE G_cmd_buffer[i]]
      BY <2>1 DEF Shifted, Head_Cells
    <3>2. \A i \in 1 .. BufCap : i <= n - end => end + i \in 1 .. BufCap
      BY <1>6, <2>0
    <3> QED BY <1>6, <2>0, <3>1, <3>2
  <2>8. Types'
    BY <1>7, <2>1, <2>5, <2>7 DEF Types, MultiTypes, Parsed
  <2> QED BY <1>7, <1>8, <2>6, <2>8
<1>9. CASE ~Reaches(m, len, n)
  <2>1. ~(m0 + Head_Cells + len \in m0 + Head_Cells .. G_cmd_buf_index)
    BY <1>5, <1>9 DEF Reaches, Head_Cells
  <2>2. CASE Signed(n - (m + Head_Cells + len)) >= 0
    <3>1. crashed' = TRUE /\ receiver' = receiver
          /\ G_cmd_buffer' = G_cmd_buffer /\ G_cmd_buf_index' = G_cmd_buf_index
          /\ multi_pkt_buf' = multi_pkt_buf /\ mpkt_write_index' = mpkt_write_index
          /\ mpkt_total_size' = mpkt_total_size /\ delivered' = delivered /\ astray' = astray
      BY <1>4, <1>5, <2>1, <2>2
    <3>2. Lost
      BY <1>7, <3>1 DEF Lost, Parsed
    <3>3. Types'
      BY <3>2 DEF Lost, Types
    <3> QED BY <1>7, <1>9, <2>2, <3>2, <3>3 DEF Head_Cells
  <2>3. CASE ~(Signed(n - (m + Head_Cells + len)) >= 0)
    <3>1. /\ receiver' = [receiver EXCEPT !.pc = "check"] /\ crashed' = crashed
          /\ G_cmd_buffer' = G_cmd_buffer /\ G_cmd_buf_index' = G_cmd_buf_index
          /\ multi_pkt_buf' = multi_pkt_buf /\ mpkt_write_index' = mpkt_write_index
          /\ mpkt_total_size' = mpkt_total_size /\ delivered' = delivered /\ astray' = astray
      BY <1>4, <1>5, <2>1, <2>3
    <3>2. receiver' = [pc |-> "check", fd |-> receiver.fd]
      BY <3>1 DEF Types
    <3>3. Types'
      BY <1>7, <3>1, <3>2 DEF Types, Parsed
    <3>4. Kept
      BY <3>1, <3>2 DEF Kept
    <3> QED BY <1>7, <1>9, <3>1, <3>3, <3>4
  <2> QED BY <2>2, <2>3
<1> QED BY <1>8, <1>9

\* What is read of the view while there is something to parse.
LEMMA FrontFacts ==
    ASSUME Types, NEW d \in Clients, NEW p \in Places(d), View(d, p), last \in Clients
    PROVE  /\ G_cmd_buf_index \in Nat /\ BufCap \in Nat /\ BufCap >= 4
           /\ got[d] \in Nat /\ got[last] \in Nat /\ Start(d, p) \in Nat /\ p \in Nat
           /\ G_cmd_buffer[1].k = "SEND_CMD"
           /\ \/ G_cmd_buffer[2].k = "magic"
              \/ G_cmd_buf_index = 1 /\ \A i \in 2 .. BufCap : G_cmd_buffer[i] = Garbage
           /\ got[d] - Start(d, p) >= 0
           /\ got[d] - Start(d, p) > 0 =>
                /\ p \in DOMAIN Script[d] /\ Script[d][p].cur \in Nat
                /\ Start(d, p) = Script[d][p].pos
                /\ PacketEnd(Script[d][p]) = Start(d, p) + 3 + Script[d][p].cur
           /\ d # last => p \in DOMAIN Script[d] /\ got[d] - Start(d, p) = 3 /\ G_cmd_buf_index > 3
<1>1. G_cmd_buf_index \in Nat /\ BufCap \in Nat /\ BufCap >= 4 /\ got[d] \in Nat /\ got[last] \in Nat
  BY SizesAssumption DEF Types, Head_Cells
<1>2. Start(d, p) \in Nat /\ p \in Nat
  BY StartFacts
<1>3. /\ G_cmd_buffer[1].k = "SEND_CMD"
      /\ \/ G_cmd_buffer[2].k = "magic"
         \/ G_cmd_buf_index = 1 /\ \A i \in 2 .. BufCap : G_cmd_buffer[i] = Garbage
  BY DEF View, StaleHead
<1>4. got[d] - Start(d, p) >= 0
  BY DEF View, Held
<1>5. ASSUME got[d] - Start(d, p) > 0
      PROVE  /\ p \in DOMAIN Script[d] /\ Script[d][p].cur \in Nat
             /\ Start(d, p) = Script[d][p].pos
             /\ PacketEnd(Script[d][p]) = Start(d, p) + 3 + Script[d][p].cur
  <2>1. got[d] <= Sent(d) /\ Sent(d) \in Nat
    BY SentFacts DEF Types
  <2>2. Start(d, p) < Sent(d)
    BY <1>1, <1>2, <1>5, <2>1
  <2>3. p \in DOMAIN Script[d]
    BY <2>2, StartFacts
  <2>4. Start(d, p) = Script[d][p].pos
    BY <2>3, StartFacts
  <2> QED BY <2>3, <2>4, PacketFacts
<1>6. d # last => p \in DOMAIN Script[d] /\ got[d] - Start(d, p) = 3 /\ G_cmd_buf_index > 3
  BY <1>1 DEF View, Held, Head_Cells
<1> QED BY <1>1, <1>2, <1>3, <1>4, <1>5, <1>6

\* Nothing is left to parse.
LEMMA PauseKeepsView ==
    ASSUME Types, NEW d \in Clients, NEW p \in Places(d), View(d, p), last \in Clients,
           Kept, got' = got, last' = last,
           \/ G_cmd_buf_index < 3
           \/ G_cmd_buf_index = 3 /\ Script[d][p].cur = 0
           \/ G_cmd_buf_index < 3 + Script[d][p].cur
    PROVE  View(d, p)'
<1>1. /\ G_cmd_buf_index \in Nat /\ got[d] \in Nat /\ Start(d, p) \in Nat
      /\ got[d] - Start(d, p) > 0 =>
           p \in DOMAIN Script[d] /\ Script[d][p].cur \in Nat
      /\ d # last => G_cmd_buf_index > 3
  BY FrontFacts
<1>2. CASE d # last
  <2>1. Script[d][p].cur = 0
    BY <1>2 DEF View, Held
  <2> QED BY <1>1, <1>2, <2>1
<1>3. CASE d = last
  <2>1. G_cmd_buf_index = got[d] - Start(d, p)
    BY <1>3 DEF View, Held
  <2>2. receiver'.pc = "check" /\ G_cmd_buffer' = G_cmd_buffer /\ G_cmd_buf_index' = G_cmd_buf_index
        /\ multi_pkt_buf' = multi_pkt_buf /\ mpkt_write_index' = mpkt_write_index
        /\ mpkt_total_size' = mpkt_total_size /\ delivered' = delivered /\ astray' = astray
    BY DEF Kept
  <2>3. Rested(d, p)'
    <3>1. CASE G_cmd_buf_index = 0
      BY <1>3, <2>2, <3>1 DEF Rested
    <3>2. CASE G_cmd_buf_index # 0
      <4>1. p \in DOMAIN Script[d] /\ Script[d][p].cur \in Nat
        BY <1>1, <2>1, <3>2
      <4>2. \/ G_cmd_buf_index < 3 + Script[d][p].cur
            \/ Script[d][p].cur = 0 /\ G_cmd_buf_index = 3
        BY <1>1, <4>1
      <4> QED BY <1>3, <2>2, <4>1, <4>2 DEF Rested, Head_Cells
    <3> QED BY <3>1, <3>2
  <2>4. Held(d, p)'
    BY <1>3, <2>2 DEF View, Held
  <2>5. Assembled(d, p)' /\ DoneBefore(d, p)' /\ StaleHead' /\ StaleSize'
    BY <1>3, <2>2 DEF View, Assembled, DoneBefore, StaleHead, StaleSize
  <2> QED BY <2>3, <2>4, <2>5 DEF View
<1> QED BY <1>2, <1>3

LEMMA ParseNothingStep ==
    ASSUME IInv, ParseNothing
    PROVE  IInv'
<1>1. /\ receiver.pc = "parse" /\ Heads(G_cmd_buf_index) = {} /\ ~crashed
      /\ receiver' = [pc |-> "check", fd |-> receiver.fd]
      /\ G_cmd_buffer' = G_cmd_buffer /\ G_cmd_buf_index' = G_cmd_buf_index
      /\ multi_pkt_buf' = multi_pkt_buf /\ mpkt_write_index' = mpkt_write_index
      /\ mpkt_total_size' = mpkt_total_size /\ delivered' = delivered /\ astray' = astray
      /\ got' = got /\ conn' = conn /\ last' = last /\ torn' = torn
      /\ new_fd' = new_fd /\ acceptor' = acceptor /\ connect_state' = connect_state
  BY DEF ParseNothing, clientVars, linkVars, IInv, Types
<1>2. crashed' \in BOOLEAN /\ (crashed' => G_cmd_buf_index < Head_Cells)
  <2>1. crashed' \in IF G_cmd_buf_index < Head_Cells THEN BOOLEAN ELSE {FALSE}
    BY DEF ParseNothing
  <2> QED BY <2>1, Zenon
<1>3. Types' /\ Links'
  BY <1>1, <1>2 DEF IInv, Types, Links
<1>4. Delivered'
  BY <1>1 DEF IInv, Delivered, DeliveredWhole, DeliveredInOrder
<1>5. CASE torn
  BY <1>1, <1>3, <1>4, <1>5 DEF IInv, Following, CrashesExplained
<1>6. CASE ~torn
  <2>1. last # NoClient /\ last \in Clients
    BY <1>1 DEF IInv, Links, Types
  <2>2. PICK d \in Clients : \E p \in Places(d) : View(d, p)
    BY <1>6, <2>1 DEF IInv, Following
  <2>3. PICK p \in Places(d) : View(d, p)
    BY <2>2
  <2>4. /\ G_cmd_buf_index \in Nat /\ BufCap \in Nat /\ BufCap >= 4
        /\ got[d] \in Nat /\ Start(d, p) \in Nat
        /\ G_cmd_buffer[1].k = "SEND_CMD"
        /\ \/ G_cmd_buffer[2].k = "magic"
           \/ G_cmd_buf_index = 1 /\ \A i \in 2 .. BufCap : G_cmd_buffer[i] = Garbage
        /\ got[d] - Start(d, p) > 0 => p \in DOMAIN Script[d] /\ Script[d][p].cur \in Nat
        /\ d # last => G_cmd_buf_index > 3
    BY <2>1, <2>3, FrontFacts DEF IInv
  <2>5. \/ G_cmd_buf_index = 1 /\ G_cmd_buffer[3] = Garbage
        \/ G_cmd_buf_index = 3
    <3>1. SUFFICES ASSUME G_cmd_buffer[2].k = "magic", G_cmd_buf_index # 3
                   PROVE  FALSE
      BY <2>4
    <3>2. ScanEnd(G_cmd_buf_index) - 1 >= 0 /\ ScanEnd(G_cmd_buf_index) \in Nat
      BY <2>4, <3>1 DEF ScanEnd, Head_Cells
    <3>3. 0 \in Heads(G_cmd_buf_index)
      BY <2>4, <3>1, <3>2 DEF Heads
    <3> QED BY <1>1, <3>3
  <2>6. d = last
    BY <2>4, <2>5
  <2>7. G_cmd_buf_index = got[d] - Start(d, p)
    BY <2>3, <2>6 DEF View, Held
  <2>8. Kept /\ p \in DOMAIN Script[d] /\ Script[d][p].cur \in Nat
    BY <1>1, <2>4, <2>5, <2>7 DEF Kept
  <2>9. View(d, p)'
    <3>1. \/ G_cmd_buf_index < 3
          \/ G_cmd_buf_index = 3 /\ Script[d][p].cur = 0
          \/ G_cmd_buf_index < 3 + Script[d][p].cur
      BY <2>5, <2>8
    <3> QED BY <1>1, <2>1, <2>3, <2>6, <2>8, <3>1, PauseKeepsView DEF IInv
  <2>10. Following'
    BY <1>1, <2>1, <2>3, <2>9 DEF Following
  <2>11. CrashesExplained'
    <3>1. CASE crashed'
      <4>1. G_cmd_buf_index = 1 /\ G_cmd_buffer[3] = Garbage
        BY <1>2, <2>5, <3>1 DEF Head_Cells
      <4> QED BY <1>1, <4>1 DEF CrashesExplained, FirstHead, Head_Cells
    <3> QED BY <3>1 DEF CrashesExplained
  <2> QED BY <1>3, <1>4, <2>10, <2>11 DEF IInv
<1> QED BY <1>5, <1>6

\* What a packet that is taken adds to the history.
Delivers(k) == \/ delivered' = delivered
               \/ /\ Closes(k)
                  /\ \E e \in [id : Ids, cells : Seq(Cell)] :
                       /\ delivered' = Append(delivered, e) /\ e.id = k.id
                       /\ k.id \in astray' \/ e = [id |-> k.id, cells |-> Data(k)]

\* What the parser is given of packet k.
Given(k, msg, cells) ==
    /\ msg \in Msg /\ msg.id = k.id /\ msg.type = k.type /\ msg.total = k.total
    /\ cells \in Seq(Cell) /\ Len(cells) = k.cur
    /\ \A i \in 1 .. k.cur : cells[i] = Data(k)[k.at + i]

\* Data depend on the id and the size of the command only.
LEMMA DataFacts ==
    ASSUME NEW k, k.total \in Nat
    PROVE  /\ DOMAIN Data(k) = 1 .. k.total
           /\ \A i \in 1 .. k.total : Data(k)[i] = [k |-> "data", id |-> k.id, at |-> i]
BY DEF Data

\* The parts after packet p are those of p and before.
LEMMA AssembledNext ==
    ASSUME NEW d \in Clients, NEW p \in DOMAIN Script[d],
           ~Closes(Script[d][p]), multi_pkt_buf'.set =>
             \/ Script[d][p].id \in astray'
             \/ /\ mpkt_total_size' = Script[d][p].total
                /\ mpkt_write_index' = Script[d][p].at + Script[d][p].cur
                /\ \A i \in 1 .. Script[d][p].at + Script[d][p].cur :
                     multi_pkt_buf'.cells[i] = Data(Script[d][p])[i]
    PROVE  Assembled(d, p + 1)'
<1> SUFFICES ASSUME p + 1 \in DOMAIN Script[d], multi_pkt_buf'.set
             PROVE  \/ Script[d][p + 1].id \in astray'
                    \/ /\ mpkt_total_size' = Script[d][p + 1].total
                       /\ mpkt_write_index' = Script[d][p + 1].at
                       /\ \A i \in 1 .. Script[d][p + 1].at :
                            multi_pkt_buf'.cells[i] = Data(Script[d][p + 1])[i]
  BY DEF Assembled
<1>1. p \in 1 .. Len(Script[d]) /\ p + 1 \in 1 .. Len(Script[d]) /\ Len(Script[d]) \in Nat
  BY PacketFacts
<1>2. p < Len(Script[d])
  BY <1>1
<1>3. /\ Script[d][p + 1].id = Script[d][p].id /\ Script[d][p + 1].total = Script[d][p].total
      /\ Script[d][p + 1].at = Script[d][p].at + Script[d][p].cur
  BY <1>2, PacketFacts DEF FollowsOn
<1>4. Data(Script[d][p + 1]) = Data(Script[d][p])
  BY <1>3 DEF Data
<1> QED BY <1>3, <1>4

LEMMA TakenStart ==
    ASSUME MultiTypes, MultiTypes', NEW d \in Clients, NEW p \in DOMAIN Script[d],
           NEW msg, NEW cells, Given(Script[d][p], msg, cells), StartDone(msg, cells),
           msg.type = "start", ~crashed
    PROVE  /\ Assembled(d, p + 1)' /\ Delivers(Script[d][p])
           /\ astray \subseteq astray' /\ (crashed' => astray' # {})
<1> DEFINE k == Script[d][p]
<1>1. /\ k.total \in 0 .. WordMod - 1 /\ k.total \in Nat /\ k.cur \in Nat /\ WordMod \in Nat
      /\ k.at = 0 /\ k.cur <= k.total /\ k.cur < WordMod /\ ~Closes(k)
      /\ Len(cells) = k.cur /\ msg.id = k.id /\ msg.total = k.total
  <2>1. k.type = "start"
    BY DEF Given
  <2>2. Opens(k) /\ ~Closes(k)
    BY <2>1 DEF Opens, Closes
  <2> QED BY <2>2, PacketFacts, SizesAssumption DEF Given
<1>2. delivered' = delivered /\ mpkt_total_size' = k.total
  BY <1>1 DEF StartDone
<1>3. CASE ~multi_pkt_buf'.set /\ crashed' = crashed /\ astray' = astray
  BY <1>1, <1>2, <1>3, AssembledNext DEF Delivers
<1>4. CASE astray' = astray \cup {msg.id}
  <2>1. k.id \in astray'
    BY <1>1, <1>4
  <2> QED BY <1>1, <1>2, <1>4, <2>1, AssembledNext DEF Delivers
<1>5. CASE /\ mpkt_write_index' = Len(cells) % WordMod /\ astray' = astray
           /\ Len(cells) < WordMod =>
                /\ crashed' = FALSE
                /\ \A i \in 1 .. msg.total : i \in 1 .. Len(cells) => multi_pkt_buf'.cells[i] = cells[i]
  <2>1. k.cur % WordMod = k.cur
    BY <1>1, NoModulo
  <2>2. /\ mpkt_write_index' = k.at + k.cur /\ crashed' = FALSE /\ astray' = astray
    BY <1>1, <1>5, <2>1
  <2>3. ASSUME NEW i \in 1 .. k.at + k.cur PROVE multi_pkt_buf'.cells[i] = Data(k)[i]
    <3>1. i \in 1 .. k.total /\ i \in 1 .. k.cur /\ k.at + i = i
      BY <1>1
    <3>2. multi_pkt_buf'.cells[i] = cells[i]
      BY <1>1, <1>5, <3>1
    <3>3. cells[i] = Data(k)[k.at + i]
      BY <3>1 DEF Given
    <3> QED BY <3>1, <3>2, <3>3
  <2>4. Assembled(d, p + 1)'
    BY <1>1, <1>2, <2>2, <2>3, AssembledNext
  <2> QED BY <1>2, <2>2, <2>4 DEF Delivers
<1> QED BY <1>3, <1>4, <1>5 DEF StartDone

\* The buffer after a later part of a command that did not begin astray.
LEMMA PartsSoFar ==
    ASSUME MultiTypes, NEW d \in Clients, NEW p \in DOMAIN Script[d],
           NEW msg, NEW cells, Given(Script[d][p], msg, cells),
           ~Opens(Script[d][p]), Assembled(d, p), PartAdded(msg, cells),
           Script[d][p].id \notin astray
    PROVE  /\ crashed' = FALSE /\ mpkt_total_size = Script[d][p].total
           /\ (mpkt_write_index + Len(cells)) % WordMod = Script[d][p].at + Script[d][p].cur
           /\ \A i \in 1 .. Script[d][p].at + Script[d][p].cur :
                multi_pkt_buf'.cells[i] = Data(Script[d][p])[i]
<1> DEFINE k == Script[d][p]
<1>1. /\ k.total \in Nat /\ k.cur \in Nat /\ k.at \in Nat /\ WordMod \in Nat
      /\ k.at + k.cur <= k.total /\ k.total < WordMod /\ Len(cells) = k.cur
  <2>1. k.total \in 0 .. WordMod - 1 /\ WordMod \in Nat
    BY PacketFacts, SizesAssumption
  <2> QED BY <2>1, PacketFacts DEF Given
<1>2. /\ mpkt_total_size = k.total /\ mpkt_write_index = k.at
      /\ \A i \in 1 .. k.at : multi_pkt_buf.cells[i] = Data(k)[i]
  BY DEF Assembled, PartAdded
<1>3. k.at + k.cur < WordMod /\ k.at + k.cur \in Nat
  BY <1>1
<1>4. (mpkt_write_index + Len(cells)) % WordMod = k.at + k.cur
  <2>1. (k.at + k.cur) % WordMod = k.at + k.cur
    BY <1>3, NoModulo
  <2> QED BY <1>1, <1>2, <2>1
<1>5. /\ crashed' = FALSE
      /\ \A i \in 1 .. k.total :
           /\ i <= k.at => multi_pkt_buf'.cells[i] = multi_pkt_buf.cells[i]
           /\ i \in k.at + 1 .. k.at + k.cur => multi_pkt_buf'.cells[i] = cells[i - k.at]
  BY <1>1, <1>2, <1>3 DEF PartAdded
<1>6. ASSUME NEW i \in 1 .. k.at + k.cur PROVE multi_pkt_buf'.cells[i] = Data(k)[i]
  <2>1. i \in 1 .. k.total
    BY <1>1
  <2>2. CASE i <= k.at
    BY <1>1, <1>2, <1>5, <2>1, <2>2
  <2>3. CASE ~(i <= k.at)
    <3>1. i - k.at \in 1 .. k.cur /\ k.at + (i - k.at) = i /\ i \in k.at + 1 .. k.at + k.cur
      BY <1>1, <2>3
    <3>2. cells[i - k.at] = Data(k)[k.at + (i - k.at)]
      BY <3>1 DEF Given
    <3> QED BY <1>5, <2>1, <3>1, <3>2
  <2> QED BY <2>2, <2>3
<1> QED BY <1>2, <1>4, <1>5, <1>6

LEMMA TakenMid ==
    ASSUME MultiTypes, MultiTypes', NEW d \in Clients, NEW p \in DOMAIN Script[d],
           NEW msg, NEW cells, Given(Script[d][p], msg, cells), ProcessedAs(msg, cells),
           msg.type = "mid", ~crashed, Assembled(d, p)
    PROVE  /\ Assembled(d, p + 1)' /\ Delivers(Script[d][p])
           /\ astray \subseteq astray' /\ (crashed' => astray' # {})
<1> DEFINE k == Script[d][p]
<1>1. /\ ~Closes(k) /\ ~Opens(k) /\ msg.total = k.total /\ Len(cells) = k.cur
      /\ k.total \in Nat /\ k.cur \in Nat /\ k.at \in Nat /\ WordMod \in Nat
      /\ k.at + k.cur <= k.total /\ k.total < WordMod
  <2>1. k.type = "mid"
    BY DEF Given
  <2>2. k.total \in 0 .. WordMod - 1 /\ WordMod \in Nat
    BY PacketFacts, SizesAssumption
  <2> QED BY <2>1, <2>2, PacketFacts DEF Given, Opens, Closes
<1>2. /\ mpkt_total_size' = mpkt_total_size /\ delivered' = delivered /\ astray' = astray
      /\ \/ PartRefused(msg, cells)
         \/ /\ PartAdded(msg, cells)
            /\ mpkt_write_index' = (mpkt_write_index + Len(cells)) % WordMod
  BY DEF ProcessedAs
<1>3. Delivers(k) /\ astray \subseteq astray'
  BY <1>2 DEF Delivers
<1>4. CASE k.id \in astray
  BY <1>1, <1>2, <1>3, <1>4, AssembledNext
<1>5. CASE k.id \notin astray /\ PartRefused(msg, cells)
  <2>1. crashed' = crashed /\ multi_pkt_buf' = multi_pkt_buf
    BY <1>5 DEF PartRefused
  <2>2. ASSUME multi_pkt_buf.set PROVE FALSE
    <3>1. mpkt_total_size = k.total /\ mpkt_write_index = k.at
      BY <1>1, <1>5, <2>2 DEF Assembled
    <3>2. (k.at + k.cur) % WordMod = k.at + k.cur
      <4>1. k.at + k.cur \in Nat /\ k.at + k.cur < WordMod
        BY <1>1
      <4> QED BY <4>1, NoModulo
    <3>3. (mpkt_write_index + Len(cells)) % WordMod <= mpkt_total_size
      BY <1>1, <3>1, <3>2
    <3>4. check_pkt(msg, Len(cells), mpkt_write_index, mpkt_total_size, multi_pkt_buf)
      BY <1>1, <2>2, <3>1, <3>3 DEF check_pkt
    <3> QED BY <1>5, <3>4 DEF PartRefused
  <2> QED BY <1>1, <1>3, <2>1, <2>2, AssembledNext
<1>6. CASE /\ k.id \notin astray /\ PartAdded(msg, cells)
           /\ mpkt_write_index' = (mpkt_write_index + Len(cells)) % WordMod
  <2>1. /\ crashed' = FALSE /\ mpkt_total_size = k.total
        /\ (mpkt_write_index + Len(cells)) % WordMod = k.at + k.cur
        /\ \A i \in 1 .. k.at + k.cur : multi_pkt_buf'.cells[i] = Data(k)[i]
    BY <1>1, <1>6, PartsSoFar
  <2> QED BY <1>1, <1>2, <1>3, <1>6, <2>1, AssembledNext
<1> QED BY <1>2, <1>4, <1>5, <1>6

\* After a packet that closes its command comes one that opens the next.
LEMMA OpensAfter ==
    ASSUME NEW d \in Clients, NEW p \in DOMAIN Script[d], Closes(Script[d][p])
    PROVE  Assembled(d, p + 1)'
<1> SUFFICES ASSUME p + 1 \in DOMAIN Script[d] PROVE Opens(Script[d][p + 1])
  BY DEF Assembled
<1>1. p \in 1 .. Len(Script[d]) /\ p + 1 \in 1 .. Len(Script[d]) /\ Len(Script[d]) \in Nat
  BY PacketFacts
<1>2. p < Len(Script[d])
  BY <1>1
<1> QED BY <1>2, PacketFacts DEF FollowsOn

LEMMA TakenEnd ==
    ASSUME MultiTypes, MultiTypes', NEW d \in Clients, NEW p \in DOMAIN Script[d],
           NEW msg, NEW cells, Given(Script[d][p], msg, cells), ProcessedAs(msg, cells),
           msg.type = "end", ~crashed, Assembled(d, p)
    PROVE  /\ Assembled(d, p + 1)' /\ Delivers(Script[d][p])
           /\ astray \subseteq astray' /\ (crashed' => astray' # {})
<1> DEFINE k == Script[d][p]
<1>1. /\ Closes(k) /\ ~Opens(k) /\ msg.id = k.id /\ k.id \in Ids
      /\ k.total \in Nat /\ k.at + k.cur = k.total
  <2>1. k.type = "end"
    BY DEF Given
  <2>2. Closes(k) /\ ~Opens(k)
    BY <2>1 DEF Opens, Closes
  <2>3. k.total \in 0 .. WordMod - 1 /\ WordMod \in Nat
    BY PacketFacts, SizesAssumption
  <2> QED BY <2>2, <2>3, PacketFacts DEF Given
<1>2. Assembled(d, p + 1)'
  BY <1>1, OpensAfter
<1>3. /\ astray' = astray
      /\ \/ PartRefused(msg, cells)
         \/ /\ PartAdded(msg, cells)
            /\ delivered' = Append(delivered, [id |-> msg.id, cells |-> multi_pkt_buf'.cells])
  BY DEF ProcessedAs
<1>4. CASE PartRefused(msg, cells)
  BY <1>2, <1>3, <1>4 DEF PartRefused, Delivers
<1>5. CASE /\ PartAdded(msg, cells)
           /\ delivered' = Append(delivered, [id |-> msg.id, cells |-> multi_pkt_buf'.cells])
  <2>1. multi_pkt_buf'.cells \in Seq(Cell) /\ Len(multi_pkt_buf'.cells) = mpkt_total_size
    BY <1>5 DEF MultiTypes, PartAdded
  <2>2. PICK e \in [id : Ids, cells : Seq(Cell)] : e = [id |-> k.id, cells |-> multi_pkt_buf'.cells]
    BY <1>1, <2>1
  <2>3. CASE k.id \in astray
    BY <1>1, <1>2, <1>3, <1>5, <2>2, <2>3 DEF Delivers
  <2>4. CASE k.id \notin astray
    <3>1. /\ crashed' = FALSE /\ mpkt_total_size = k.total
          /\ \A i \in 1 .. k.at + k.cur : multi_pkt_buf'.cells[i] = Data(k)[i]
      BY <1>1, <1>5, <2>4, PartsSoFar
    <3>2. multi_pkt_buf'.cells = Data(k)
      <4>1. PICK x \in Seq(Cell) : x = multi_pkt_buf'.cells
        BY <2>1
      <4>2. x = [i \in 1 .. k.total |-> x[i]]
        BY <1>1, <2>1, <3>1, <4>1, LenProperties
      <4>3. \A i \in 1 .. k.total : x[i] = Data(k)[i]
        BY <1>1, <3>1, <4>1
      <4>4. Data(k) = [i \in 1 .. k.total |-> Data(k)[i]]
        BY <1>1, DataFacts DEF Data
      <4> QED BY <4>1, <4>2, <4>3, <4>4
    <3>3. e = [id |-> k.id, cells |-> Data(k)]
      BY <2>2, <3>2
    <3> QED BY <1>1, <1>2, <1>3, <1>5, <2>2, <3>1, <3>3 DEF Delivers
  <2> QED BY <2>3, <2>4
<1> QED BY <1>3, <1>4, <1>5

LEMMA TakenSingle ==
    ASSUME MultiTypes, NEW d \in Clients, NEW p \in DOMAIN Script[d],
           NEW msg, NEW cells, Given(Script[d][p], msg, cells), ProcessedAs(msg, cells),
           msg.type = "single", ~crashed
    PROVE  /\ Assembled(d, p + 1)' /\ Delivers(Script[d][p])
           /\ astray \subseteq astray' /\ (crashed' => astray' # {})
<1> DEFINE k == Script[d][p]
<1>1. /\ Closes(k) /\ msg.id = k.id /\ k.id \in Ids
      /\ k.at = 0 /\ k.cur = k.total /\ k.cur \in Nat
      /\ cells \in Seq(Cell) /\ Len(cells) = k.cur
  <2>1. k.type = "single"
    BY DEF Given
  <2>2. Closes(k) /\ Opens(k)
    BY <2>1 DEF Opens, Closes
  <2> QED BY <2>2, PacketFacts DEF Given
<1>2. Assembled(d, p + 1)'
  BY <1>1, OpensAfter
<1>3. /\ astray' = astray /\ crashed' = crashed
      /\ delivered' = Append(delivered, [id |-> k.id, cells |-> cells])
  BY <1>1 DEF ProcessedAs
<1>4. cells = Data(k)
  <2>1. cells = [i \in 1 .. k.total |-> cells[i]]
    BY <1>1, LenProperties
  <2>2. \A i \in 1 .. k.total : cells[i] = Data(k)[i]
    BY <1>1 DEF Given
  <2>3. Data(k) = [i \in 1 .. k.total |-> Data(k)[i]]
    BY <1>1, DataFacts DEF Data
  <2> QED BY <2>1, <2>2, <2>3
<1>5. PICK e \in [id : Ids, cells : Seq(Cell)] : e = [id |-> k.id, cells |-> cells]
  BY <1>1
<1> QED BY <1>1, <1>2, <1>3, <1>4, <1>5 DEF Delivers

\* The history after a packet that was not yet in it.
LEMMA DeliveredNext ==
    ASSUME Types, NEW d \in Clients, NEW p \in DOMAIN Script[d],
           DoneBefore(d, p), Delivered, ~torn, Delivers(Script[d][p]), astray \subseteq astray'
    PROVE  Delivered'
<1> DEFINE k == Script[d][p]
<1>1. delivered \in Seq([id : Ids, cells : Seq(Cell)]) /\ Len(delivered) \in Nat
      /\ DOMAIN delivered = 1 .. Len(delivered)
  BY LenProperties DEF Types
<1>2. CASE delivered' = delivered
  <2>1. DeliveredWhole'
    BY <1>2 DEF Delivered, DeliveredWhole
  <2>2. DeliveredInOrder'
    BY <1>2 DEF Delivered, DeliveredInOrder
  <2> QED BY <2>1, <2>2 DEF Delivered
<1>3. CASE delivered' # delivered
  <2>1. PICK e \in [id : Ids, cells : Seq(Cell)] :
          /\ delivered' = Append(delivered, e) /\ e.id = k.id /\ Closes(k)
          /\ k.id \in astray' \/ e = [id |-> k.id, cells |-> Data(k)]
    BY <1>3 DEF Delivers
  <2>2. /\ DOMAIN delivered' = 1 .. Len(delivered) + 1
        /\ \A i \in 1 .. Len(delivered) : delivered'[i] = delivered[i]
        /\ delivered'[Len(delivered) + 1] = e
    BY <1>1, <2>1, AppendProperties
  <2>3. DeliveredWhole'
    <3> SUFFICES ASSUME NEW i \in DOMAIN delivered'
                 PROVE  \/ delivered'[i].id \in astray'
                        \/ \E c \in Clients : \E q \in DOMAIN Script[c] :
                             delivered'[i] = [id |-> Script[c][q].id, cells |-> Data(Script[c][q])]
      BY DEF DeliveredWhole
    <3>1. CASE i \in 1 .. Len(delivered)
      <4>1. \/ delivered[i].id \in astray
            \/ \E c \in Clients : \E q \in DOMAIN Script[c] :
                 delivered[i] = [id |-> Script[c][q].id, cells |-> Data(Script[c][q])]
        BY <1>1, <3>1 DEF Delivered, DeliveredWhole
      <4>2. delivered'[i] = delivered[i]
        BY <2>2, <3>1
      <4> QED BY <4>1, <4>2
    <3>2. CASE i \notin 1 .. Len(delivered)
      <4>1. i = Len(delivered) + 1
        BY <1>1, <2>2, <3>2
      <4>2. delivered'[i] = e
        BY <2>2, <4>1
      <4> QED BY <2>1, <4>2
    <3> QED BY <3>1, <3>2
  <2>4. DeliveredInOrder'
    <3> SUFFICES ASSUME NEW c \in Clients, NEW p1 \in DOMAIN Script[c], NEW q1 \in DOMAIN Script[c],
                        Closes(Script[c][p1]), Closes(Script[c][q1]),
                        NEW i \in DOMAIN delivered', NEW j \in DOMAIN delivered', i < j,
                        delivered'[i].id = Script[c][p1].id, delivered'[j].id = Script[c][q1].id
                 PROVE  p1 < q1
      BY DEF DeliveredInOrder
    <3>1. i \in 1 .. Len(delivered) /\ delivered'[i] = delivered[i]
      BY <1>1, <2>2
    <3>2. CASE j \in 1 .. Len(delivered)
      <4>1. delivered'[j] = delivered[j]
        BY <2>2, <3>2
      <4> QED BY <1>1, <3>1, <3>2, <4>1 DEF Delivered, DeliveredInOrder
    <3>3. CASE j \notin 1 .. Len(delivered)
      <4>1. delivered'[j] = e
        BY <1>1, <2>2, <3>3
      <4>2. c = d /\ q1 = p
        BY <2>1, <4>1, IdsAssumption
      <4>3. p1 < p
        BY <1>1, <3>1, <4>2 DEF DoneBefore
      <4> QED BY <4>2, <4>3
    <3> QED BY <3>2, <3>3
  <2> QED BY <2>3, <2>4 DEF Delivered
<1> QED BY <1>2, <1>3

LEMMA DoneNext ==
    ASSUME Types, NEW d \in Clients, NEW p \in DOMAIN Script[d],
           DoneBefore(d, p), Delivers(Script[d][p]), PacketEnd(Script[d][p]) <= got[d],
           got' = got, last' = last
    PROVE  /\ d = last => DoneBefore(d, p + 1)'
           /\ \A c \in Clients : c = last /\ d # last => DoneBefore(c, 1)'
<1> DEFINE k == Script[d][p]
<1>1. delivered \in Seq([id : Ids, cells : Seq(Cell)]) /\ Len(delivered) \in Nat
      /\ DOMAIN delivered = 1 .. Len(delivered) /\ p \in Nat
  BY LenProperties, PacketFacts DEF Types
<1>2. ASSUME NEW i \in DOMAIN delivered', NEW c \in Clients, NEW q \in DOMAIN Script[c],
             Closes(Script[c][q]), delivered'[i].id = Script[c][q].id
      PROVE  PacketEnd(Script[c][q]) <= got[c] /\ (c = d => q < p + 1) /\ (d # last => c # last)
  <2>1. CASE i \in DOMAIN delivered /\ delivered'[i] = delivered[i]
    <3>1. PacketEnd(Script[c][q]) <= got[c] /\ (c = d => q < p) /\ (d # last => c # last)
      BY <1>2, <2>1 DEF DoneBefore
    <3>2. q \in 1 .. Len(Script[c]) /\ Len(Script[c]) \in Nat
      BY PacketFacts
    <3> QED BY <1>1, <3>1, <3>2
  <2>2. CASE Closes(k) /\ delivered'[i].id = k.id
    <3>1. c = d /\ q = p
      BY <1>2, <2>2, IdsAssumption
    <3> QED BY <1>1, <3>1
  <2>3. CASE delivered' # delivered
    <3>1. PICK e \in [id : Ids, cells : Seq(Cell)] :
            delivered' = Append(delivered, e) /\ e.id = k.id /\ Closes(k)
      BY <2>3 DEF Delivers
    <3>2. /\ DOMAIN delivered' = 1 .. Len(delivered) + 1
          /\ \A j \in 1 .. Len(delivered) : delivered'[j] = delivered[j]
          /\ delivered'[Len(delivered) + 1] = e
      BY <1>1, <3>1, AppendProperties
    <3>3. i \in DOMAIN delivered \/ i = Len(delivered) + 1
      BY <1>1, <3>2
    <3> QED BY <1>1, <2>1, <2>2, <3>1, <3>2, <3>3
  <2> QED BY <1>2, <2>1, <2>3
<1>3. d = last => DoneBefore(d, p + 1)'
  BY <1>2 DEF DoneBefore
<1>4. ASSUME NEW c \in Clients, c = last, d # last PROVE DoneBefore(c, 1)'
  BY <1>2, <1>4 DEF DoneBefore
<1> QED BY <1>3, <1>4

\* What is left after a packet is the stream from the next one on.
LEMMA ShiftedView ==
    ASSUME Types, NEW d \in Clients, NEW p \in Places(d), NEW n \in Nat, NEW left \in Nat,
           last' = d, got' = got, receiver'.pc = "parse", left < n, n <= BufCap,
           G_cmd_buf_index' = left, got[d] = Start(d, p) + left,
           G_cmd_buffer[1].k = "SEND_CMD", G_cmd_buffer[2].k = "magic",
           \A i \in 1 .. left : G_cmd_buffer'[i] = StreamCell(d, Start(d, p) + i),
           \A i \in 1 .. BufCap : i > left => G_cmd_buffer'[i] = G_cmd_buffer[i],
           G_cmd_buffer[3].k = "size", G_cmd_buffer[3].cur + 3 <= BufCap
    PROVE  Held(d, p)' /\ Rested(d, p)' /\ StaleHead' /\ StaleSize'
<1> DEFINE s == Start(d, p)
<1>1. /\ BufCap \in Nat /\ BufCap >= 4 /\ got[d] \in Nat /\ s \in Nat
      /\ Sent(d) \in Nat /\ got[d] <= Sent(d)
  BY SizesAssumption, StartFacts, SentFacts DEF Types, Head_Cells
<1>2. Held(d, p)' /\ Rested(d, p)'
  <2>1. got'[d] - s = left /\ left >= 0
    BY <1>1
  <2> HIDE DEF s
  <2>2. s = Start(d, p)
    BY DEF s
  <2> QED BY <2>1, <2>2 DEF Held, Rested
<1>3. StaleHead'
  <2>1. CASE left = 0
    BY <1>1, <2>1 DEF StaleHead
  <2>2. CASE left # 0
    <3>1. s < Sent(d)
      BY <1>1, <2>2
    <3>2. p \in DOMAIN Script[d]
      BY <3>1, StartFacts
    <3>3. s = Script[d][p].pos /\ Script[d][p].cur \in Nat
      BY <3>2, PacketFacts, StartFacts
    <3>4. /\ StreamCell(d, s + 1).k = "SEND_CMD" /\ StreamCell(d, s + 2).k = "magic"
      <4>1. 1 \in 1 .. 3 + Script[d][p].cur /\ 2 \in 1 .. 3 + Script[d][p].cur
        BY <3>3
      <4>2. /\ StreamCell(d, Script[d][p].pos + 1) = PacketCell(Script[d][p], 1)
            /\ StreamCell(d, Script[d][p].pos + 2) = PacketCell(Script[d][p], 2)
        BY <3>2, <4>1, StreamCells
      <4>3. PacketCell(Script[d][p], 1).k = "SEND_CMD" /\ PacketCell(Script[d][p], 2).k = "magic"
        BY <3>3, PacketCells
      <4> QED BY <3>3, <4>2, <4>3
    <3>5. G_cmd_buffer'[1].k = "SEND_CMD"
      BY <2>2, <3>4
    <3>6. G_cmd_buffer'[2].k = "magic"
      <4>1. CASE left >= 2
        BY <3>4, <4>1
      <4>2. CASE left < 2
        BY <1>1, <4>2
      <4> QED BY <4>1, <4>2
    <3> QED BY <3>5, <3>6 DEF StaleHead
  <2> QED BY <2>1, <2>2
<1>4. StaleSize'
  <2>1. ASSUME left < 3 PROVE G_cmd_buffer'[3] = G_cmd_buffer[3]
    BY <1>1, <2>1
  <2> QED BY <2>1 DEF StaleSize
<1> QED BY <1>2, <1>3, <1>4

\* Of the packet at the front the parser reads what the client wrote, and takes it when it
\* is all there.
LEMMA FrontParsed ==
    ASSUME Types, NEW d \in Clients, NEW p \in Places(d), View(d, p), last \in Clients,
           NEW m, NEW len, NEW n, Parsed(m, len, n)
    PROVE  /\ m = 0 /\ n \in Nat /\ n <= BufCap
           /\ \/ n < 3 /\ G_cmd_buffer[3] = Garbage
              \/ n < 3 /\ len \in Nat /\ len + 3 <= BufCap
              \/ /\ n > 3 /\ p \in DOMAIN Script[d] /\ len = Signed(Script[d][p].cur)
                 /\ d = last \/ Script[d][p].cur = 0
                 /\ G_cmd_buffer[1].k = "SEND_CMD"
                 /\ G_cmd_buffer[2] = PacketCell(Script[d][p], 2)
                 /\ G_cmd_buffer[3] = [k |-> "size", cur |-> Script[d][p].cur]
<1>1. /\ n \in Nat /\ BufCap \in Nat /\ BufCap >= 4 /\ n <= BufCap
      /\ got[d] \in Nat /\ Start(d, p) \in Nat
      /\ G_cmd_buffer[1].k = "SEND_CMD"
      /\ \/ G_cmd_buffer[2].k = "magic"
         \/ n = 1 /\ \A i \in 2 .. BufCap : G_cmd_buffer[i] = Garbage
      /\ got[d] - Start(d, p) > 0 =>
           p \in DOMAIN Script[d] /\ Script[d][p].cur \in Nat /\ Start(d, p) = Script[d][p].pos
      /\ d # last => got[d] - Start(d, p) = 3 /\ n > 3
  <2>1. n = G_cmd_buf_index
    BY DEF Parsed
  <2>2. BufCap \in Nat /\ G_cmd_buf_index \in 0 .. BufCap
    BY SizesAssumption DEF Types
  <2>3. n \in Nat /\ n <= BufCap
    BY <2>1, <2>2
  <2> QED BY <2>1, <2>2, <2>3, FrontFacts
<1>2. m \in Nat /\ m \in Heads(n) /\ (\A j \in Heads(n) : m <= j) /\ n = G_cmd_buf_index
      /\ len \in CurSizes(m)
  BY HeadsFacts DEF Parsed
<1>3. n # 3
  BY <1>1, <1>2 DEF Heads, ScanEnd, Head_Cells
<1>4. m = 0
  <2>1. CASE G_cmd_buffer[2].k = "magic"
    <3>1. ScanEnd(n) - 1 >= 0 /\ ScanEnd(n) \in Nat
      BY <1>1, <1>3 DEF ScanEnd, Head_Cells
    <3>2. 0 \in Heads(n)
      BY <1>1, <2>1, <3>1 DEF Heads
    <3> QED BY <1>2, <3>2
  <2>2. CASE \A i \in 2 .. BufCap : G_cmd_buffer[i] = Garbage
    <3>1. m + 2 \in 2 .. BufCap /\ G_cmd_buffer[m + 2].k = "magic"
      BY <1>1, <1>2 DEF Heads
    <3> QED BY <2>2, <3>1 DEF Garbage
  <2> QED BY <1>1, <2>1, <2>2
<1>5. CASE n < 3
  <2>1. CASE G_cmd_buffer[3] = Garbage
    BY <1>1, <1>4, <1>5, <2>1
  <2>2. CASE G_cmd_buffer[3].k = "size" /\ G_cmd_buffer[3].cur + 3 <= BufCap
    <3>1. G_cmd_buffer[3] \in Cell
      <4>1. 3 \in 1 .. BufCap /\ G_cmd_buffer \in [1 .. BufCap -> Cell]
        BY <1>1 DEF Types
      <4> QED BY <4>1
    <3>2. PICK x \in Cell : x = G_cmd_buffer[3]
      BY <3>1
    <3>3. PICK w \in Nat : w = G_cmd_buffer[3].cur
      BY <2>2, <3>2, CellFacts
    <3>4. len = Signed(w)
      BY <1>1, <1>2, <1>4, <2>2, <3>3 DEF CurSizes, Head_Cells
    <3>5. w + 3 <= BufCap /\ 2 * BufCap <= WordMod /\ WordMod \in Nat
      BY <2>2, <3>3, SizesAssumption
    <3>6. w \in Int /\ 2 * w < WordMod /\ 2 * w >= -WordMod
      BY <1>1, <3>5
    <3>7. len = w
      BY <3>4, <3>6, SignedFacts
    <3> QED BY <1>1, <1>4, <1>5, <3>5, <3>7
  <2> QED BY <1>2, <1>5, <2>1, <2>2 DEF View, StaleSize
<1>55. SUFFICES ASSUME n > 3
                PROVE  /\ p \in DOMAIN Script[d] /\ len = Signed(Script[d][p].cur)
                       /\ d = last \/ Script[d][p].cur = 0
                       /\ G_cmd_buffer[2] = PacketCell(Script[d][p], 2)
                       /\ G_cmd_buffer[3] = [k |-> "size", cur |-> Script[d][p].cur]
  BY <1>1, <1>3, <1>4, <1>5
<1>6. got[d] - Start(d, p) >= 3
  <2>1. CASE d = last
    <3>1. n = got[d] - Start(d, p)
      BY <1>2, <2>1 DEF View, Held
    <3> QED BY <1>1, <1>55, <3>1
  <2>2. CASE d # last
    BY <1>1, <2>2
  <2> QED BY <2>1, <2>2
<1>7. /\ p \in DOMAIN Script[d] /\ Script[d][p].cur \in Nat /\ Start(d, p) = Script[d][p].pos
  BY <1>1, <1>6
<1>8. /\ G_cmd_buffer[2] = StreamCell(d, Script[d][p].pos + 2)
      /\ G_cmd_buffer[3] = StreamCell(d, Script[d][p].pos + 3)
  BY <1>1, <1>6, <1>7 DEF View, Held
<1>9. /\ G_cmd_buffer[2] = PacketCell(Script[d][p], 2)
      /\ G_cmd_buffer[3] = PacketCell(Script[d][p], 3)
  <2>1. 2 \in 1 .. 3 + Script[d][p].cur /\ 3 \in 1 .. 3 + Script[d][p].cur
    BY <1>7
  <2> QED BY <1>7, <1>8, <2>1, StreamCells
<1>10. G_cmd_buffer[3] = [k |-> "size", cur |-> Script[d][p].cur]
  BY <1>7, <1>9, PacketCells
<1>11. len = Signed(Script[d][p].cur)
  BY <1>1, <1>2, <1>4, <1>10 DEF CurSizes, Head_Cells
<1>12. d = last \/ Script[d][p].cur = 0
  BY DEF View, Held
<1> QED BY <1>7, <1>9, <1>10, <1>11, <1>12

LEMMA TakenKeepsView ==
    ASSUME IInv, Types', ~torn, ~crashed, NEW d \in Clients, NEW p \in DOMAIN Script[d], View(d, p),
           last \in Clients, NEW n, Parsed(0, Script[d][p].cur, n), n > 3,
           Taken(0, Script[d][p].cur, n),
           G_cmd_buffer[1].k = "SEND_CMD", G_cmd_buffer[2] = PacketCell(Script[d][p], 2)
    PROVE  Following' /\ Delivered' /\ (crashed' => astray' # {})
<1> DEFINE k == Script[d][p]
           s == Start(d, p)
           left == n - (3 + k.cur)
<1>1. /\ n \in Nat /\ n <= BufCap /\ BufCap \in Nat /\ n = G_cmd_buf_index
      /\ got[d] \in Nat /\ got[last] \in Nat /\ s \in Nat /\ s = k.pos /\ p \in Nat
      /\ k.cur \in Nat /\ k.at \in Nat /\ k.total \in Nat /\ k.at + k.cur <= k.total
      /\ PacketEnd(k) = s + 3 + k.cur
      /\ p \in Places(d) /\ p + 1 \in Places(d) /\ Start(d, p + 1) = PacketEnd(k)
      /\ 3 + k.cur <= n
  <2>1. n = G_cmd_buf_index
    BY DEF Parsed
  <2>2. k.total \in 0 .. WordMod - 1 /\ WordMod \in Nat
    BY PacketFacts, SizesAssumption
  <2>3. k.total \in Nat
    BY <2>2
  <2>4. 0 + Head_Cells + k.cur <= n
    BY DEF Taken
  <2>5. /\ k.cur \in Nat /\ k.at \in Nat /\ k.at + k.cur <= k.total /\ p \in 1 .. Len(Script[d])
        /\ PacketEnd(k) = k.pos + 3 + k.cur
    BY PacketFacts
  <2>6. p \in Places(d) /\ p + 1 \in Places(d) /\ s = k.pos /\ Start(d, p + 1) = PacketEnd(k) /\ s \in Nat
        /\ p \in Nat
    BY StartFacts
  <2>7. G_cmd_buf_index \in 0 .. BufCap /\ BufCap \in Nat /\ got[d] \in Nat /\ got[last] \in Nat
    BY SizesAssumption DEF IInv, Types
  <2> QED BY <2>1, <2>3, <2>4, <2>5, <2>6, <2>7 DEF Head_Cells
<1>2. /\ got' = got /\ last' = last /\ torn' = torn /\ receiver' = receiver /\ receiver.pc = "parse"
      /\ G_cmd_buf_index' = left
      /\ G_cmd_buffer' = [i \in 1 .. BufCap |-> IF i <= left THEN G_cmd_buffer[3 + k.cur + i]
                                                ELSE G_cmd_buffer[i]]
  <2>1. 0 + Head_Cells + k.cur = 3 + k.cur
    BY <1>1 DEF Head_Cells
  <2>2. G_cmd_buffer' = Shifted(3 + k.cur, left) /\ G_cmd_buf_index' = left /\ receiver' = receiver
    BY <2>1 DEF Taken
  <2> QED BY <2>2 DEF Parsed, Shifted
<1>3. left \in Nat /\ left < n
  BY <1>1
<1>4. /\ \A i \in 1 .. 3 + k.cur : G_cmd_buffer[i] = StreamCell(d, k.pos + i)
      /\ PacketEnd(k) <= got[d]
      /\ d = last => got[d] = s + n
      /\ d # last => k.cur = 0 /\ n = 3 + got[last]
  <2>1. CASE d = last
    <3>1. got[d] - s = n /\ \A i \in 1 .. got[d] - s : G_cmd_buffer[i] = StreamCell(d, s + i)
      BY <1>1, <2>1 DEF View, Held
    <3> QED BY <1>1, <2>1, <3>1
  <2>2. CASE d # last
    <3>1. /\ got[d] - s = 3 /\ \A i \in 1 .. got[d] - s : G_cmd_buffer[i] = StreamCell(d, s + i)
          /\ k.cur = 0 /\ n = 3 + got[last]
      BY <1>1, <2>2 DEF View, Held, Head_Cells
    <3> QED BY <1>1, <2>2, <3>1
  <2> QED BY <2>1, <2>2
<1>5. PICK cells \in Seq(Cell) :
         /\ Len(cells) = k.cur
         /\ \A i \in 1 .. k.cur : cells[i] = G_cmd_buffer[3 + i]
         /\ ProcessedAs(G_cmd_buffer[2], cells)
  BY DEF Taken, Head_Cells
<1>6. PICK msg \in Msg : msg = G_cmd_buffer[2] /\ ProcessedAs(msg, cells)
  <2>1. G_cmd_buffer[2] \in Msg
    BY DEF Taken
  <2>2. PICK msg : msg = G_cmd_buffer[2]
    OBVIOUS
  <2> QED BY <1>5, <2>1, <2>2
<1>7. Given(k, msg, cells)
  <2>1. msg = [k |-> "magic", id |-> k.id, type |-> k.type, total |-> k.total]
    BY <1>1, <1>6, PacketCells
  <2>2. ASSUME NEW i \in 1 .. k.cur PROVE cells[i] = Data(k)[k.at + i]
    <3>1. 3 + i \in 1 .. 3 + k.cur /\ 3 + i \in 4 .. 3 + k.cur /\ k.at + i \in 1 .. k.total
          /\ k.at + (3 + i) - 3 = k.at + i
      <4>1. PICK cur \in Nat, at \in Nat, total \in Nat :
              cur = k.cur /\ at = k.at /\ total = k.total /\ at + cur <= total
        BY <1>1
      <4>2. i \in 1 .. cur /\ at + cur <= total
        BY <4>1
      <4>3. 3 + i \in 1 .. 3 + cur /\ 3 + i \in 4 .. 3 + cur /\ at + i \in 1 .. total
            /\ at + (3 + i) - 3 = at + i
        BY <4>2
      <4> HIDE DEF k
      <4> QED BY <4>1, <4>3
    <3>2. G_cmd_buffer[3 + i] = StreamCell(d, k.pos + (3 + i))
      BY <1>4, <3>1
    <3>3. StreamCell(d, k.pos + (3 + i)) = PacketCell(k, 3 + i)
      BY <3>1, StreamCells
    <3>4. PacketCell(k, 3 + i) = [k |-> "data", id |-> k.id, at |-> k.at + (3 + i) - 3]
      BY <1>1, <3>1, PacketCells
    <3>5. Data(k)[k.at + i] = [k |-> "data", id |-> k.id, at |-> k.at + i]
      BY <1>1, <3>1, DataFacts
    <3> QED BY <1>5, <3>1, <3>2, <3>3, <3>4, <3>5
  <2> QED BY <1>5, <1>6, <2>1, <2>2 DEF Given
<1>8. /\ Assembled(d, p + 1)' /\ Delivers(k) /\ astray \subseteq astray'
      /\ (crashed' => astray' # {})
  <2>1. MultiTypes /\ MultiTypes' /\ Assembled(d, p)
    BY DEF IInv, Types, MultiTypes, View
  <2>2. CASE msg.type = "single"
    BY <1>6, <1>7, <2>1, <2>2, TakenSingle
  <2>3. CASE msg.type = "start"
    <3>1. StartDone(msg, cells)
      BY <1>6, <2>3 DEF ProcessedAs
    <3> QED BY <1>7, <2>1, <2>3, <3>1, TakenStart
  <2>4. CASE msg.type = "mid"
    BY <1>6, <1>7, <2>1, <2>4, TakenMid
  <2>5. CASE msg.type = "end"
    BY <1>6, <1>7, <2>1, <2>5, TakenEnd
  <2> QED BY <1>6, <2>2, <2>3, <2>4, <2>5, MsgFacts
<1>9. Delivered'
  BY <1>8, DeliveredNext DEF IInv, View
<1>10. /\ d = last => DoneBefore(d, p + 1)'
       /\ \A c \in Clients : c = last /\ d # last => DoneBefore(c, 1)'
  BY <1>2, <1>4, <1>8, DoneNext DEF IInv, View
<1>11. G_cmd_buffer[2].k = "magic"
  BY <1>1, PacketCells
<1>14. G_cmd_buffer[3].k = "size" /\ G_cmd_buffer[3].cur + 3 <= BufCap
  <2>1. 3 \in 1 .. 3 + k.cur
    BY <1>1
  <2>2. G_cmd_buffer[3] = PacketCell(k, 3)
    BY <1>4, <2>1, StreamCells
  <2>3. G_cmd_buffer[3] = [k |-> "size", cur |-> k.cur]
    BY <1>1, <2>2, PacketCells
  <2>4. k.cur + 3 <= BufCap
    <3> HIDE DEF k, s, left
    <3> QED BY <1>1
  <2> QED BY <2>3, <2>4
<1>12. CASE d = last
  <2>10. PICK cur \in Nat, at \in Nat, g \in Nat : cur = k.cur /\ at = s /\ g = got[d]
    BY <1>1
  <2>11. g = at + n /\ n \in Nat /\ n <= BufCap /\ BufCap \in Nat /\ 3 + cur <= n
    <3> HIDE DEF s, k
    <3> QED BY <1>1, <1>4, <1>12, <2>10
  <2>0. g = at + n /\ Start(d, p + 1) = at + 3 + cur /\ left = n - (3 + cur) /\ n \in Nat
        /\ n <= BufCap /\ BufCap \in Nat /\ 3 + cur <= n
    <3> HIDE DEF s, k
    <3> QED BY <1>1, <1>4, <1>12, <2>10
  <2>1. got[d] = Start(d, p + 1) + left
    <3>1. g = (at + 3 + cur) + (n - (3 + cur))
      BY <2>11
    <3> QED BY <2>0, <2>10, <3>1
  <2>2. ASSUME NEW i \in 1 .. left PROVE G_cmd_buffer'[i] = StreamCell(d, Start(d, p + 1) + i)
    <3>1. i \in 1 .. BufCap /\ 3 + k.cur + i \in 1 .. got[d] - s
          /\ s + (3 + k.cur + i) = Start(d, p + 1) + i
      <4>1. i \in 1 .. n - (3 + cur)
        BY <2>10
      <4>2. PICK b \in Nat, j \in Nat : b = BufCap /\ j = i /\ 1 <= j /\ j + 3 + cur <= n
        BY <2>11, <4>1
      <4>3. 1 <= j /\ j + 3 + cur <= n /\ n <= b /\ g = at + n /\ n \in Nat
        BY <2>11, <4>2
      <4>4. 1 <= j /\ j <= b /\ 1 <= 3 + cur + j /\ 3 + cur + j <= g - at
            /\ at + (3 + cur + j) = (at + 3 + cur) + j
        BY <4>3
      <4>5. j \in 1 .. b /\ 3 + cur + j \in 1 .. g - at
        BY <4>4
      <4> HIDE DEF s, k
      <4> QED BY <2>0, <2>10, <4>2, <4>4, <4>5
    <3>2. G_cmd_buffer'[i] = G_cmd_buffer[3 + k.cur + i]
      BY <1>2, <3>1
    <3>3. G_cmd_buffer[3 + k.cur + i] = StreamCell(d, s + (3 + k.cur + i))
      BY <3>1 DEF View, Held
    <3> QED BY <3>1, <3>2, <3>3
  <2>3. ASSUME NEW i \in 1 .. BufCap, i > left PROVE G_cmd_buffer'[i] = G_cmd_buffer[i]
    BY <1>2, <1>3, <2>3
  <2>4. PICK l \in Nat : l = left
    BY <1>3
  <2>5. PICK q \in Places(d) : q = p + 1
    BY <1>1
  <2>6. Held(d, q)' /\ Rested(d, q)' /\ StaleHead' /\ StaleSize'
    <3> HIDE DEF left
    <3> QED BY <1>1, <1>2, <1>3, <1>11, <1>14, <1>12, <2>1, <2>2, <2>3, <2>4, <2>5, ShiftedView DEF IInv
  <2>7. View(d, q)'
    BY <1>8, <1>10, <1>12, <2>5, <2>6 DEF View
  <2>8. Following'
    BY <1>2, <2>7, ClientsAssumption DEF Following
  <2> QED BY <1>8, <1>9, <2>8
<1>13. CASE d # last
  <2>1. PICK c \in Clients : c = last
    OBVIOUS
  <2>2. 1 \in Places(c) /\ Start(c, 1) = 0 /\ left = got[c] /\ k.cur = 0
    BY <1>1, <1>4, <1>13, <2>1, StartFacts
  <2>3. ASSUME NEW i \in 1 .. left PROVE G_cmd_buffer'[i] = StreamCell(c, Start(c, 1) + i)
    <3>1. i \in 1 .. BufCap /\ i \in 1 .. got[last] /\ 0 + i = i /\ 3 + 0 + i = 3 + i
      BY <1>1, <1>3, <2>1, <2>2
    <3>2. G_cmd_buffer'[i] = G_cmd_buffer[3 + i]
      BY <1>2, <2>2, <3>1
    <3>3. G_cmd_buffer[3 + i] = StreamCell(last, i)
      BY <1>13, <3>1 DEF View, Held, Head_Cells
    <3> QED BY <2>1, <2>2, <3>1, <3>2, <3>3
  <2>4. ASSUME NEW i \in 1 .. BufCap, i > left PROVE G_cmd_buffer'[i] = G_cmd_buffer[i]
    BY <1>2, <1>3, <2>4
  <2>5. PICK l \in Nat : l = left
    BY <1>3
  <2>6. got[c] = Start(c, 1) + left
    BY <1>3, <2>2
  <2>7. Held(c, 1)' /\ Rested(c, 1)' /\ StaleHead' /\ StaleSize'
    <3>1. /\ last' = c /\ got' = got /\ receiver'.pc = "parse" /\ l < n /\ n \in Nat /\ n <= BufCap
          /\ G_cmd_buf_index' = l /\ got[c] = Start(c, 1) + l /\ G_cmd_buffer[1].k = "SEND_CMD"
      BY <1>1, <1>2, <1>3, <2>1, <2>5, <2>6
    <3>2. /\ \A i \in 1 .. l : G_cmd_buffer'[i] = StreamCell(c, Start(c, 1) + i)
          /\ \A i \in 1 .. BufCap : i > l => G_cmd_buffer'[i] = G_cmd_buffer[i]
      BY <2>3, <2>4, <2>5
    <3>3. Types
      BY DEF IInv
    <3> HIDE DEF left
    <3> QED BY <1>11, <1>14, <2>2, <2>5, <3>1, <3>2, <3>3, ShiftedView
  <2>8. Assembled(c, 1)'
    <3>1. 1 \in DOMAIN Script[c] => Opens(Script[c][1])
      BY PacketFacts
    <3> QED BY <3>1 DEF Assembled
  <2>9. DoneBefore(c, 1)'
    BY <1>10, <1>13, <2>1
  <2>10. View(c, 1)'
    BY <2>7, <2>8, <2>9 DEF View
  <2>11. Following'
    BY <1>2, <2>1, <2>2, <2>10, ClientsAssumption DEF Following
  <2> QED BY <1>8, <1>9, <2>11
<1> QED BY <1>12, <1>13

LEMMA ParsePacketStep ==
    ASSUME IInv, ParsePacket
    PROVE  IInv'
<1>1. ~crashed /\ Types'
  BY ParseIs DEF IInv, ParsePacket
<1>2. PICK m, len, n : /\ Parsed(m, len, n)
                       /\ \/ Reaches(m, len, n) /\ Taken(m, len, n)
                          \/ ~Reaches(m, len, n) /\ Kept /\ crashed' = crashed
                          \/ ~Reaches(m, len, n) /\ Signed(n - (m + 3 + len)) >= 0 /\ Lost
  BY ParseIs DEF IInv
<1>3. /\ receiver.pc = "parse" /\ n = G_cmd_buf_index
      /\ got' = got /\ conn' = conn /\ last' = last /\ torn' = torn
      /\ new_fd' = new_fd /\ acceptor' = acceptor /\ connect_state' = connect_state
  BY <1>2 DEF Parsed
<1>4. Links'
  <2>1. receiver.fd = receiver'.fd /\ (receiver'.pc = "parse" => receiver.pc = "parse")
    BY <1>2, <1>3 DEF Taken, Kept, Lost
  <2> QED BY <1>3, <2>1 DEF IInv, Links
<1>5. CASE torn
  <2>1. Following' /\ CrashesExplained' /\ Delivered'
    BY <1>3, <1>5 DEF Following, CrashesExplained, Delivered, DeliveredWhole, DeliveredInOrder
  <2> QED BY <1>1, <1>4, <2>1 DEF IInv
<1>6. CASE ~torn
  <2>1. last # NoClient /\ last \in Clients
    BY <1>3 DEF IInv, Links, Types
  <2>2. PICK d \in Clients : \E p \in Places(d) : View(d, p)
    BY <1>6, <2>1 DEF IInv, Following
  <2>3. PICK p \in Places(d) : View(d, p)
    BY <2>2
  <2>4. /\ m = 0 /\ n \in Nat /\ n <= BufCap
        /\ \/ n < 3 /\ G_cmd_buffer[3] = Garbage
           \/ n < 3 /\ len \in Nat /\ len + 3 <= BufCap
           \/ /\ n > 3 /\ p \in DOMAIN Script[d] /\ len = Signed(Script[d][p].cur)
              /\ d = last \/ Script[d][p].cur = 0
              /\ G_cmd_buffer[1].k = "SEND_CMD"
              /\ G_cmd_buffer[2] = PacketCell(Script[d][p], 2)
              /\ G_cmd_buffer[3] = [k |-> "size", cur |-> Script[d][p].cur]
    BY <1>2, <2>1, <2>3, FrontParsed DEF IInv
  <2>5. /\ BufCap \in Nat /\ MaxRecv \in Nat /\ MaxRecv >= 1 /\ WordMod \in Nat
        /\ 2 * BufCap <= WordMod
    BY SizesAssumption
  <2>0. ASSUME NEW cur \in Nat, p \in DOMAIN Script[d], cur = Script[d][p].cur, len = Signed(cur), n > 3
        PROVE  \/ len = cur /\ 2 * cur < WordMod
               \/ len \in Int /\ len < 0 /\ cur >= BufCap
    <3>1. cur < WordMod
      <4>1. /\ Script[d][p].total \in 0 .. WordMod - 1 /\ Script[d][p].at \in Nat
            /\ Script[d][p].at + Script[d][p].cur <= Script[d][p].total
        BY <2>0, PacketFacts
      <4> QED BY <2>0, <2>5, <4>1
    <3>2. \/ 2 * cur < WordMod /\ Signed(cur) = cur
          \/ 2 * cur >= WordMod /\ Signed(cur) < 0
      BY <3>1, SignedFacts
    <3>3. cur \in Int /\ Signed(cur) \in Int
      BY SignedFacts
    <3> QED BY <2>0, <2>5, <3>2, <3>3
  <2>6. CASE Kept /\ ~Reaches(m, len, n) /\ crashed' = crashed
    <3>1. \/ G_cmd_buf_index < 3
          \/ G_cmd_buf_index = 3 /\ Script[d][p].cur = 0
          \/ G_cmd_buf_index < 3 + Script[d][p].cur
      <4>1. SUFFICES ASSUME n > 3 PROVE n < 3 + Script[d][p].cur
        BY <1>3, <2>4
      <4>2. PICK cur \in Nat : p \in DOMAIN Script[d] /\ cur = Script[d][p].cur /\ len = Signed(cur)
        BY <2>4, <4>1, PacketFacts
      <4>3. CASE len = cur
        BY <2>4, <2>6, <4>2, <4>3 DEF Reaches
      <4>4. CASE cur >= BufCap
        BY <2>4, <2>5, <4>2, <4>4
      <4> QED BY <2>0, <4>1, <4>2, <4>3, <4>4
    <3>2. View(d, p)'
      BY <1>3, <2>1, <2>3, <2>6, <3>1, PauseKeepsView DEF IInv
    <3>3. Following' /\ CrashesExplained'
      BY <1>1, <1>3, <2>1, <2>3, <2>6, <3>2 DEF Following, CrashesExplained
    <3>4. Delivered'
      BY <1>3, <2>6 DEF Kept, IInv, Delivered, DeliveredWhole, DeliveredInOrder
    <3> QED BY <1>1, <1>4, <3>3, <3>4 DEF IInv
  <2>7. CASE Reaches(m, len, n) /\ Taken(m, len, n)
    <3>1. n > 3 /\ len >= 0 /\ len \in Int
      <4>1. len \in Int
        <5>1. m \in Heads(G_cmd_buf_index) /\ len \in CurSizes(m)
          BY <1>2 DEF Parsed
        <5> QED BY <5>1, HeadsFacts DEF IInv
      <4> QED BY <2>4, <2>7, <4>1 DEF Reaches
    <3>2. PICK cur \in Nat : p \in DOMAIN Script[d] /\ cur = Script[d][p].cur /\ len = Signed(cur)
      BY <2>4, <3>1, PacketFacts
    <3>3. /\ m = 0 /\ p \in DOMAIN Script[d] /\ len = Script[d][p].cur
          /\ G_cmd_buffer[1].k = "SEND_CMD" /\ G_cmd_buffer[2] = PacketCell(Script[d][p], 2)
      BY <2>0, <2>4, <3>1, <3>2
    <3>4. Parsed(0, Script[d][p].cur, n) /\ Taken(0, Script[d][p].cur, n)
      BY <1>2, <2>7, <3>3
    <3>5. Following' /\ Delivered' /\ (crashed' => astray' # {})
      BY <1>1, <1>6, <2>1, <2>3, <3>1, <3>3, <3>4, TakenKeepsView
    <3> QED BY <1>1, <1>4, <3>5 DEF IInv, CrashesExplained
  <2>8. CASE ~Reaches(m, len, n) /\ Signed(n - (m + 3 + len)) >= 0 /\ Lost
    <3>1. CASE n < 3 /\ G_cmd_buffer[3] = Garbage
      <4>1. FirstHead
        BY <1>3, <3>1 DEF FirstHead, Head_Cells
      <4> QED BY <2>8, <4>1, LostKeeps
    <3>2. CASE n < 3 /\ len \in Nat /\ len + 3 <= BufCap
      <4>1. /\ n - (m + 3 + len) \in Int /\ 2 * (n - (m + 3 + len)) < WordMod
            /\ 2 * (n - (m + 3 + len)) >= -WordMod /\ n - (m + 3 + len) < 0
        BY <2>4, <2>5, <3>2
      <4>2. Signed(n - (m + 3 + len)) = n - (m + 3 + len)
        BY <4>1, SignedFacts
      <4> QED BY <2>8, <4>1, <4>2
    <3>3. CASE n > 3
      <4>1. PICK cur \in Nat : p \in DOMAIN Script[d] /\ cur = Script[d][p].cur /\ len = Signed(cur)
                                /\ G_cmd_buffer[3] = [k |-> "size", cur |-> cur]
        BY <2>4, <3>3, PacketFacts
      <4>2. CASE cur >= BufCap
        <5>1. TooLong
          BY <1>3, <2>4, <2>5, <3>3, <4>1, <4>2 DEF TooLong, Head_Cells
        <5> QED BY <2>8, <5>1, LostKeeps
      <4>3. CASE len = cur /\ 2 * cur < WordMod
        <5>1. n < 3 + cur
          BY <2>4, <2>8, <4>3 DEF Reaches
        <5>2. /\ n - (m + 3 + len) \in Int /\ 2 * (n - (m + 3 + len)) < WordMod
              /\ 2 * (n - (m + 3 + len)) >= -WordMod /\ n - (m + 3 + len) < 0
          BY <2>4, <2>5, <3>3, <4>3, <5>1
        <5>3. Signed(n - (m + 3 + len)) = n - (m + 3 + len)
          BY <5>2, SignedFacts
        <5> QED BY <2>8, <5>2, <5>3
      <4> QED BY <2>0, <3>3, <4>1, <4>2, <4>3
    <3> QED BY <2>4, <3>1, <3>2, <3>3
  <2> QED BY <1>2, <2>6, <2>7, <2>8
<1> QED BY <1>5, <1>6
-----------------------------------------------------------------------------
(* The specification *)

LEMMA InitInv == Init => IInv
<1> SUFFICES ASSUME Init PROVE IInv
  OBVIOUS
<1>1. Types /\ Links /\ Idle
  BY InitTypes
<1>2. last = NoClient /\ ~crashed /\ delivered = <<>>
  BY DEF Init
<1>3. Delivered
  BY <1>2 DEF Delivered, DeliveredWhole, DeliveredInOrder
<1> QED BY <1>1, <1>2, <1>3 DEF IInv, Following, CrashesExplained

LEMMA StepInv == IInv /\ [Next]_vars => IInv'
<1> SUFFICES ASSUME IInv, [Next]_vars PROVE IInv'
  OBVIOUS
<1>1. CASE Types' /\ Links' /\ Quiet
  BY <1>1, QuietKeepsView DEF IInv
<1>2. CASE Acceptor \/ AcceptFails \/ \E c \in Clients : CloseClient(c)
  BY <1>1, <1>2, AcceptorSteps DEF IInv, Acceptor
<1>3. CASE StartRecv \/ RecvClosed \/ RecvFails \/ ClearConnected
  BY <1>1, <1>3, ReceiverSteps DEF IInv
<1>4. ASSUME NEW n \in 1 .. MaxRecv, RecvData(n) \/ RecvOverflows(n) PROVE IInv'
  BY <1>4, RecvStep, OverflowStep
<1>5. CASE ParsePacket \/ ParseNothing
  BY <1>5, ParsePacketStep, ParseNothingStep
<1>6. CASE UNCHANGED vars
  <2>1. Types' /\ Links'
    BY <1>6 DEF vars, IInv, Types, Links
  <2>2. Quiet
    BY <1>6 DEF vars, Quiet, parseVars
  <2> QED BY <1>1, <2>1, <2>2
<1> QED BY <1>2, <1>3, <1>4, <1>5, <1>6 DEF Next, Receiver

LEMMA InvAlways == Spec => []IInv
<1> QED BY InitInv, StepInv, PTL DEF Spec

\* The indices stay within their buffers and the history is of commands; G_cmd_buffer,
\* which recv_loop_f appends to unchecked, is left by no step but the ones that
\* CrashesExplained names.
THEOREM TypeCorrect == Spec => []TypeOK
<1>1. IInv => TypeOK
  BY DEF IInv, Types, TypeOK
<1> QED BY <1>1, InvAlways, PTL

\* However TCP cuts what the clients write, deliver_cmd is given every command whole, once
\* and in its client's order, until a packet has run into another connection's; but a
\* command in parts that is begun at an index never set may reach it torn.
THEOREM DeliveredRight == Spec => []Delivered
<1>1. IInv => Delivered
  BY DEF IInv
<1> QED BY <1>1, InvAlways, PTL

\* The parse loop of recv_loop_f goes back to recv only when the packet at the front is not
\* all there, or has no data.
THEOREM NotHeld == Spec => []CompleteNotHeld
<1>1. IInv => CompleteNotHeld
  <2> SUFFICES ASSUME IInv, receiver.pc \in {"check", "recv"}, ~torn, G_cmd_buf_index >= Head_Cells
               PROVE  /\ G_cmd_buffer[1].k = "SEND_CMD"
                      /\ \/ G_cmd_buf_index < Head_Cells + G_cmd_buffer[Head_Cells].cur
                         \/ G_cmd_buf_index = Head_Cells /\ G_cmd_buffer[Head_Cells].cur = 0
    BY DEF CompleteNotHeld
  <2>1. G_cmd_buf_index \in Nat /\ G_cmd_buf_index >= 3
    BY SizesAssumption DEF IInv, Types, Head_Cells
  <2>2. last # NoClient /\ last \in Clients
    BY <2>1 DEF IInv, Types, Following, Idle
  <2>3. PICK d \in Clients : \E p \in Places(d) : View(d, p)
    BY <2>2 DEF IInv, Following
  <2>4. PICK p \in Places(d) : View(d, p)
    BY <2>3
  <2>5. /\ d = last /\ p \in DOMAIN Script[d]
        /\ \/ G_cmd_buf_index < 3 + Script[d][p].cur
           \/ Script[d][p].cur = 0 /\ G_cmd_buf_index = 3
    BY <2>1, <2>4 DEF View, Rested, Head_Cells
  <2>6. /\ got[d] \in Nat /\ Start(d, p) = Script[d][p].pos /\ Script[d][p].pos \in Nat
        /\ Script[d][p].cur \in Nat
    BY <2>5, StartFacts, PacketFacts DEF IInv, Types
  <2>7. got[d] - Start(d, p) = G_cmd_buf_index
    BY <2>4, <2>5 DEF View, Held
  <2>8. 3 \in 1 .. got[d] - Start(d, p) /\ 3 \in 1 .. 3 + Script[d][p].cur
    BY <2>1, <2>6, <2>7
  <2>9. G_cmd_buffer[3] = PacketCell(Script[d][p], 3)
    <3>1. G_cmd_buffer[3] = StreamCell(d, Script[d][p].pos + 3)
      BY <2>4, <2>6, <2>8 DEF View, Held
    <3> QED BY <2>5, <2>8, <3>1, StreamCells
  <2>10. G_cmd_buffer[3].cur = Script[d][p].cur
    BY <2>5, <2>6, <2>9, PacketCells
  <2>11. G_cmd_buffer[1].k = "SEND_CMD"
    BY <2>4 DEF View, StaleHead
  <2> QED BY <2>5, <2>10, <2>11 DEF Head_Cells
<1> QED BY <1>1, InvAlways, PTL
=============================================================================
