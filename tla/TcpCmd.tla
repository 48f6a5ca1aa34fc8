------------------------------- MODULE TcpCmd -------------------------------
(***************************************************************************)
(* Tcp_Cmd: commands to the camera over TCP.  One thread accepts clients,  *)
(* one receives from the client accepted last, appends what it gets to     *)
(* G_cmd_buffer and parses it: packets are found again in the byte stream  *)
(* however TCP cut it, and the parts of a long command are put together in *)
(* multi_pkt_buf.                                                          *)
(*                                                                         *)
(* A packet is a run of cells: the two bytes that mark a head (the second  *)
(* carries the other fields), the end of the head, which holds cur_size,   *)
(* and cur_size cells of data.  Data do not contain the two marking bytes, *)
(* so a cell is what it looks like.  Sizes are words that the code takes   *)
(* for ints, and nothing bounds what a client announces.                   *)
(***************************************************************************)
EXTENDS Integers, Sequences

CONSTANTS Clients,
          Ids,         \* of the clients' commands
          Script,      \* [Clients -> Seq(Pkt)]: the packets a client writes
          BufCap,      \* sizeof G_cmd_buffer (3000)
          MaxRecv,     \* MAX_BUF_SIZE (900)
          WordMod,     \* 2^32: check_pkt adds unsigned
          Uninit,      \* the values mpkt_write_index can have before it is set
          NoClient     \* new_fd before the first accept, and -1

Head_Cells == 3   \* sizeof(Tcp_Message_t), 16: pkt_head, magicnum and so on, cur_size

\* A packet, with the place of its data in the command and of its head in the stream.
Pkt == [id : Ids, type : {"single", "start", "mid", "end"}, total : Nat, cur : Nat,
        at : Nat, pos : Nat]
PacketEnd(k) == k.pos + Head_Cells + k.cur
Opens(k) == k.type \in {"single", "start"}
Closes(k) == k.type \in {"single", "end"}

\* k follows on h in the stream, and in its command if that is not complete.
FollowsOn(k, h) ==
    /\ k.pos = PacketEnd(h)
    /\ Closes(h) <=> Opens(k)
    /\ ~Opens(k) => k.id = h.id /\ k.total = h.total /\ k.at = h.at + h.cur

\* The buffer has room for a head and a recv, and is far shorter than an int can count.
ASSUME SizesAssumption == /\ BufCap \in Nat \ {0} /\ MaxRecv \in Nat \ {0} /\ WordMod \in Nat \ {0}
                          /\ Uninit \subseteq 0 .. WordMod - 1
                          /\ Head_Cells + MaxRecv <= BufCap /\ 2 * BufCap <= WordMod
ASSUME ClientsAssumption == NoClient \notin Clients
\* The clients keep to the protocol, though they may break off anywhere.
ASSUME ScriptAssumption ==
    \A c \in Clients :
      /\ Script[c] \in Seq(Pkt)
      /\ \A p \in DOMAIN Script[c] :
           LET k == Script[c][p]
           IN  /\ k.at + k.cur <= k.total /\ k.total < WordMod
               /\ Opens(k) => k.at = 0
               /\ Closes(k) => k.at + k.cur = k.total
               /\ p = 1 => k.pos = 0 /\ Opens(k)
               /\ p > 1 => FollowsOn(k, Script[c][p - 1])
\* An id names one command.
ASSUME IdsAssumption ==
    \A c, d \in Clients : \A p \in DOMAIN Script[c], q \in DOMAIN Script[d] :
      Closes(Script[c][p]) /\ Closes(Script[d][q]) /\ Script[c][p].id = Script[d][q].id
        => c = d /\ p = q
\* What a client writes for a packet, cell by cell.
PacketCell(k, j) == CASE j = 1 -> [k |-> "SEND_CMD"]
                      [] j = 2 -> [k |-> "magic", id |-> k.id, type |-> k.type, total |-> k.total]
                      [] j = 3 -> [k |-> "size", cur |-> k.cur]
                      [] OTHER -> [k |-> "data", id |-> k.id, at |-> k.at + j - Head_Cells]
Sent(c) == IF Script[c] = <<>> THEN 0 ELSE PacketEnd(Script[c][Len(Script[c])])
StreamCell(c, i) ==
    LET p == CHOOSE q \in DOMAIN Script[c] : Script[c][q].pos < i /\ i <= PacketEnd(Script[c][q])
    IN  PacketCell(Script[c][p], i - Script[c][p].pos)
\* The first n cells are whole packets.
Whole(c, n) == n = Sent(c) \/ \E p \in DOMAIN Script[c] : Script[c][p].pos = n

\* The command that a packet is of.
Data(k) == [i \in 1 .. k.total |-> [k |-> "data", id |-> k.id, at |-> i]]

Garbage == [k |-> "garbage"]
NoBuf == [set |-> FALSE, cells |-> <<>>]

VARIABLES got, conn,                \* the clients: cells received, state
          acceptor, new_fd, connect_state,
          receiver,                 \* recv_loop_f: counter and the descriptor it reads
          G_cmd_buffer, G_cmd_buf_index,
          multi_pkt_buf, mpkt_write_index, mpkt_total_size,
          crashed,                  \* find_msg or a memcpy has left its buffer, or may have
          delivered,                \* history: the commands given to the callbacks
          astray,                   \* history: commands begun at an index never set
          last,                     \* history: the client read last
          torn                      \* history: a packet has run into another connection's

clientVars == <<got, conn>>
linkVars == <<acceptor, new_fd, connect_state>>
parseVars == <<multi_pkt_buf, mpkt_write_index, mpkt_total_size, crashed, delivered, astray>>
vars == <<got, conn, acceptor, new_fd, connect_state, receiver, G_cmd_buffer, G_cmd_buf_index,
          multi_pkt_buf, mpkt_write_index, mpkt_total_size, crashed, delivered, astray, last, torn>>

Init == /\ got = [c \in Clients |-> 0]
        /\ conn = [c \in Clients |-> "off"]
        /\ acceptor = "accept" /\ new_fd = NoClient /\ connect_state = 0
        /\ receiver = [pc |-> "check", fd |-> NoClient]
        /\ G_cmd_buffer = [i \in 1 .. BufCap |-> Garbage] /\ G_cmd_buf_index = 0
        /\ multi_pkt_buf = NoBuf /\ mpkt_write_index \in Uninit /\ mpkt_total_size = 0
        /\ crashed = FALSE
        /\ delivered = <<>> /\ astray = {}
        /\ last = NoClient /\ torn = FALSE
-----------------------------------------------------------------------------
(* connect_loop_f, and the clients *)

Accept(c) ==
    /\ ~crashed
    /\ acceptor = "accept"
    /\ conn[c] = "off"
    /\ conn' = [conn EXCEPT ![c] = "open"]
    /\ new_fd' = c
    /\ acceptor' = "connected"
    /\ UNCHANGED <<got, connect_state, receiver, G_cmd_buffer, G_cmd_buf_index, last, torn>>
    /\ UNCHANGED parseVars

\* The client that was connected is forgotten all the same.
AcceptFails ==
    /\ ~crashed
    /\ acceptor = "accept"
    /\ new_fd' = NoClient
    /\ UNCHANGED <<acceptor, connect_state, receiver, G_cmd_buffer, G_cmd_buf_index, last, torn>>
    /\ UNCHANGED clientVars /\ UNCHANGED parseVars

SetConnected ==
    /\ ~crashed
    /\ acceptor = "connected"
    /\ connect_state' = 1
    /\ acceptor' = "accept"
    /\ UNCHANGED <<new_fd, receiver, G_cmd_buffer, G_cmd_buf_index, last, torn>>
    /\ UNCHANGED clientVars /\ UNCHANGED parseVars

\* A client closes when its script is sent, or breaks off before.
CloseClient(c) ==
    /\ ~crashed
    /\ conn[c] = "open"
    /\ conn' = [conn EXCEPT ![c] = "closed"]
    /\ UNCHANGED <<got, receiver, G_cmd_buffer, G_cmd_buf_index, last, torn>>
    /\ UNCHANGED linkVars /\ UNCHANGED parseVars
-----------------------------------------------------------------------------
(* recv_loop_f *)

StartRecv ==
    /\ ~crashed
    /\ receiver.pc = "check"
    /\ connect_state = 1
    /\ receiver' = [pc |-> "recv", fd |-> new_fd]
    /\ UNCHANGED <<G_cmd_buffer, G_cmd_buf_index, last, torn>>
    /\ UNCHANGED clientVars /\ UNCHANGED linkVars /\ UNCHANGED parseVars

\* recv gets n cells.
Receives(n) == /\ ~crashed
               /\ receiver.pc = "recv" /\ receiver.fd \in Clients
               /\ conn[receiver.fd] = "open" /\ got[receiver.fd] + n <= Sent(receiver.fd)

RecvData(n) ==
    /\ Receives(n)
    /\ G_cmd_buf_index + n <= BufCap
    /\ G_cmd_buf_index' = G_cmd_buf_index + n
    /\ G_cmd_buffer' = [i \in 1 .. BufCap |->
          IF i \in G_cmd_buf_index + 1 .. G_cmd_buf_index + n
          THEN StreamCell(receiver.fd, got[receiver.fd] + i - G_cmd_buf_index)
          ELSE G_cmd_buffer[i]]
    /\ got' = [got EXCEPT ![receiver.fd] = @ + n]
    /\ receiver' = [receiver EXCEPT !.pc = "parse"]
    /\ torn' = (torn \/ (last \notin {receiver.fd, NoClient} /\ ~Whole(last, got[last])))
    /\ last' = receiver.fd
    /\ UNCHANGED conn
    /\ UNCHANGED linkVars /\ UNCHANGED parseVars

\* They are appended without a look at the buffer's size.  The process is not followed
\* any further.
RecvOverflows(n) ==
    /\ Receives(n)
    /\ G_cmd_buf_index + n > BufCap
    /\ crashed' = TRUE
    /\ UNCHANGED <<receiver, G_cmd_buffer, G_cmd_buf_index, multi_pkt_buf, mpkt_write_index,
                   mpkt_total_size, delivered, astray, last, torn>>
    /\ UNCHANGED clientVars /\ UNCHANGED linkVars

RecvClosed ==
    /\ ~crashed
    /\ receiver.pc = "recv" /\ receiver.fd \in Clients
    /\ conn[receiver.fd] = "closed"
    /\ receiver' = [receiver EXCEPT !.pc = "closed"]
    /\ UNCHANGED <<G_cmd_buffer, G_cmd_buf_index, last, torn>>
    /\ UNCHANGED clientVars /\ UNCHANGED linkVars /\ UNCHANGED parseVars

\* Of -1, which is no descriptor.
RecvFails ==
    /\ ~crashed
    /\ receiver.pc = "recv" /\ receiver.fd = NoClient
    /\ receiver' = [receiver EXCEPT !.pc = "check"]
    /\ UNCHANGED <<G_cmd_buffer, G_cmd_buf_index, last, torn>>
    /\ UNCHANGED clientVars /\ UNCHANGED linkVars /\ UNCHANGED parseVars

ClearConnected ==
    /\ ~crashed
    /\ receiver.pc = "closed"
    /\ connect_state' = 0
    /\ receiver' = [receiver EXCEPT !.pc = "check"]
    /\ UNCHANGED <<acceptor, new_fd, G_cmd_buffer, G_cmd_buf_index, last, torn>>
    /\ UNCHANGED clientVars /\ UNCHANGED parseVars
-----------------------------------------------------------------------------
(* bufferred_cmd *)

\* Mutant: a scan that stops a head too early.
ScanEnd_Early(len) == IF len >= 2 * Head_Cells THEN len - 2 * Head_Cells ELSE 0

\* find_msg looks at the positions below len - sizeof(Tcp_Message_t), a difference of
\* unsigned numbers: with less than a head in the buffer it has no end.
ScanEnd(len) == IF len >= Head_Cells THEN len - Head_Cells ELSE BufCap

Heads(len) == {i \in 0 .. ScanEnd(len) - 1 : /\ i + 2 <= BufCap
                                              /\ G_cmd_buffer[i + 1].k = "SEND_CMD"
                                              /\ G_cmd_buffer[i + 2].k = "magic"}

\* A word, or a sum that leaves the range of an int once, as an int.
Signed(x) == IF 2 * x >= WordMod THEN x - WordMod ELSE IF 2 * x < -WordMod THEN x + WordMod ELSE x

\* msg->cur_size: the end of the head, which may be one of an earlier packet, or no size
\* at all, but what the memory held.
CurSizes(m) == {Signed(w) : w \in IF m + Head_Cells <= BufCap /\ G_cmd_buffer[m + Head_Cells].k = "size"
                                   THEN {G_cmd_buffer[m + Head_Cells].cur} ELSE 0 .. WordMod - 1}

\* The callback of a face command gets a copy whose 20th byte is cleared, though the
\* command be shorter: a face command has at least a Face_Upstream_First here, and malloc
\* a place for it.
Deliver(id, cells) == delivered' = Append(delivered, [id |-> id, cells |-> cells])

\* Mutant: every part put at the beginning of the buffer.
Overwritten_AtStart(cells, at, new) ==
    [i \in DOMAIN cells |-> IF i \in DOMAIN new THEN new[i] ELSE cells[i]]

\* memcpy at an index that counts modulo WordMod: what falls before the buffer hits others.
Overwritten(cells, at, new) ==
    [i \in DOMAIN cells |-> IF i \in at + 1 .. at + Len(new) THEN new[i - at]
                            ELSE IF i + WordMod \in at + 1 .. at + Len(new) THEN new[i + WordMod - at]
                            ELSE cells[i]]

\* Mutant: a last part that may not fill the command.
check_pkt_Strict(msg, cur, at, size, buf) == msg.total = size /\ (at + cur) % WordMod < size /\ buf.set

check_pkt(msg, cur, at, size, buf) == msg.total = size /\ (at + cur) % WordMod <= size /\ buf.set

\* memcpy of a part.  Where the sum has wrapped it is not within the buffer.
Copy(buf, at, cells) ==
    /\ multi_pkt_buf' = [buf EXCEPT !.cells = Overwritten(@, at, cells)]
    /\ crashed' \in IF at + Len(cells) >= WordMod THEN BOOLEAN ELSE {FALSE}

\* MUTIL_PKT_START.  The write index is reset only when a buffer was there to free.
StartPkt(msg, cells) ==
    LET at == IF multi_pkt_buf.set THEN 0 ELSE mpkt_write_index
        new == [set |-> TRUE, cells |-> [i \in 1 .. msg.total |-> Garbage]]
    IN  /\ mpkt_total_size' = msg.total
        /\ IF check_pkt(msg, Len(cells), at, msg.total, new)
           THEN /\ Copy(new, at, cells)
                /\ mpkt_write_index' = (at + Len(cells)) % WordMod
                /\ astray' = IF at = 0 THEN astray ELSE astray \cup {msg.id}
           ELSE multi_pkt_buf' = NoBuf /\ mpkt_write_index' = 0 /\ UNCHANGED <<crashed, astray>>
        /\ UNCHANGED delivered

MidPkt(msg, cells) ==
    /\ IF check_pkt(msg, Len(cells), mpkt_write_index, mpkt_total_size, multi_pkt_buf)
       THEN /\ Copy(multi_pkt_buf, mpkt_write_index, cells)
            /\ mpkt_write_index' = (mpkt_write_index + Len(cells)) % WordMod
       ELSE UNCHANGED <<multi_pkt_buf, mpkt_write_index, crashed>>
    /\ UNCHANGED <<mpkt_total_size, delivered, astray>>

\* MUTIL_PKT_END delivers the buffer and keeps it, the write index where it was.
EndPkt(msg, cells) ==
    /\ IF check_pkt(msg, Len(cells), mpkt_write_index, mpkt_total_size, multi_pkt_buf)
       THEN /\ Copy(multi_pkt_buf, mpkt_write_index, cells)
            /\ Deliver(msg.id, multi_pkt_buf'.cells)
       ELSE UNCHANGED <<multi_pkt_buf, delivered, crashed>>
    /\ UNCHANGED <<mpkt_write_index, mpkt_total_size, astray>>

\* process_data.  The response is filled in and never sent.
process_data(msg, cells) ==
    \/ /\ msg.type = "single"
       /\ Deliver(msg.id, cells)
       /\ UNCHANGED <<multi_pkt_buf, mpkt_write_index, mpkt_total_size, crashed, astray>>
    \/ msg.type = "start" /\ StartPkt(msg, cells)
    \/ msg.type = "mid" /\ MidPkt(msg, cells)
    \/ msg.type = "end" /\ EndPkt(msg, cells)

\* Mutant: the rest is taken from one cell too early.
Shifted_Early(end, left) ==
    [i \in 1 .. BufCap |-> IF i <= left THEN G_cmd_buffer[end - 1 + i] ELSE G_cmd_buffer[i]]

\* The memcpy of what follows the packet to the front; the cells behind it stay.  The two
\* may overlap: the destination is in front, and memcpy copies forwards.
Shifted(end, left) ==
    [i \in 1 .. BufCap |-> IF i <= left THEN G_cmd_buffer[end + i] ELSE G_cmd_buffer[i]]

\* One turn of the loop: the first packet found, if all of it is there.  A size that is
\* negative, or so large that the difference is not, passes for a packet that is there:
\* process_data or the memcpy behind it leaves the buffer, or the loop stays where it is.
\* The process is not followed any further.
ParsePacket ==
    /\ ~crashed
    /\ receiver.pc = "parse"
    /\ Heads(G_cmd_buf_index) # {}
    /\ LET m == CHOOSE i \in Heads(G_cmd_buf_index) : \A j \in Heads(G_cmd_buf_index) : i <= j
       IN  \E buf_len \in CurSizes(m) :
             LET end == m + Head_Cells + buf_len
                 last_size == Signed(G_cmd_buf_index - end)
             IN  IF end \in m + Head_Cells .. G_cmd_buf_index
                 THEN /\ process_data(G_cmd_buffer[m + 2],
                                      SubSeq(G_cmd_buffer, m + Head_Cells + 1, end))
                      /\ G_cmd_buffer' = Shifted(end, last_size)
                      /\ G_cmd_buf_index' = last_size
                      /\ UNCHANGED receiver
                 ELSE /\ IF last_size >= 0
                         THEN crashed' = TRUE /\ UNCHANGED receiver
                         ELSE receiver' = [receiver EXCEPT !.pc = "check"] /\ UNCHANGED crashed
                      /\ UNCHANGED <<G_cmd_buffer, G_cmd_buf_index, multi_pkt_buf,
                                     mpkt_write_index, mpkt_total_size, delivered, astray>>
    /\ UNCHANGED <<last, torn>>
    /\ UNCHANGED clientVars /\ UNCHANGED linkVars

\* No head: back to recv.  Where the scan has no end it leaves the buffer and may leave
\* the memory of the process.
ParseNothing ==
    /\ ~crashed
    /\ receiver.pc = "parse"
    /\ Heads(G_cmd_buf_index) = {}
    /\ receiver' = [receiver EXCEPT !.pc = "check"]
    /\ crashed' \in IF G_cmd_buf_index < Head_Cells THEN BOOLEAN ELSE {FALSE}
    /\ UNCHANGED <<G_cmd_buffer, G_cmd_buf_index, multi_pkt_buf, mpkt_write_index,
                   mpkt_total_size, delivered, astray, last, torn>>
    /\ UNCHANGED clientVars /\ UNCHANGED linkVars

Acceptor == (\E c \in Clients : Accept(c)) \/ SetConnected
Receiver == \/ StartRecv \/ RecvClosed \/ RecvFails \/ ClearConnected
            \/ \E n \in 1 .. MaxRecv : RecvData(n) \/ RecvOverflows(n)
            \/ ParsePacket \/ ParseNothing

Next == Acceptor \/ AcceptFails \/ Receiver \/ \E c \in Clients : CloseClient(c)

Spec == Init /\ [][Next]_vars

\* Both threads loop for ever; a client that is connected may stay so, and accept need not
\* fail.
FairSpec == Spec /\ WF_vars(Acceptor) /\ WF_vars(Receiver)
-----------------------------------------------------------------------------
(* Properties *)

Cell == {Garbage} \cup UNION {{StreamCell(c, i) : i \in 1 .. Sent(c)} : c \in Clients}

\* What the packet at the front announces leaves no room for a recv while it is waited for.
TooLong == /\ G_cmd_buf_index >= Head_Cells
           /\ Head_Cells + G_cmd_buffer[Head_Cells].cur - 1 + MaxRecv > BufCap

\* Part of a head is there, and the rest of it has never been written.
FirstHead == G_cmd_buf_index < Head_Cells /\ G_cmd_buffer[Head_Cells] = Garbage

\* The buffer, which recv appends to unchecked, is left only when the client announces more
\* than it can hold: no packet that fits waits long enough for it, and no stale byte is taken
\* for a size.  The scan without an end, and a size read where there is none, stop at the
\* head of an earlier packet, but for the very first.  A copy leaves its buffer only at an
\* index that was never set.
CrashesExplained == crashed => torn \/ astray # {} \/ TooLong \/ FirstHead

\* Types of the buffers, the indices, the threads and the history; and the buffer's room.
TypeOK ==
    /\ got \in [Clients -> Nat]
    /\ conn \in [Clients -> {"off", "open", "closed"}]
    /\ acceptor \in {"accept", "connected"} /\ connect_state \in {0, 1}
    /\ new_fd \in Clients \cup {NoClient} /\ last \in Clients \cup {NoClient}
    /\ receiver \in [pc : {"check", "recv", "parse", "closed"}, fd : Clients \cup {NoClient}]
    /\ G_cmd_buffer \in [1 .. BufCap -> Cell] /\ G_cmd_buf_index \in 0 .. BufCap
    /\ mpkt_write_index \in 0 .. WordMod - 1 /\ mpkt_total_size \in 0 .. WordMod - 1
    /\ multi_pkt_buf \in [set : BOOLEAN, cells : Seq(Cell)]
    /\ multi_pkt_buf.set => /\ Len(multi_pkt_buf.cells) = mpkt_total_size
                            /\ mpkt_write_index <= mpkt_total_size
    /\ crashed \in BOOLEAN /\ torn \in BOOLEAN
    /\ astray \subseteq Ids
    /\ delivered \in Seq([id : Ids, cells : Seq(Cell)])
    /\ CrashesExplained

\* However TCP cuts the stream, a command is given to its callback whole: what deliver_cmd
\* gets is what the client wrote, but for a command put together at an index never set.
DeliveredWhole ==
    torn \/ \A i \in DOMAIN delivered :
              \/ delivered[i].id \in astray
              \/ \E c \in Clients : \E p \in DOMAIN Script[c] :
                   delivered[i] = [id |-> Script[c][p].id, cells |-> Data(Script[c][p])]

\* And once, in the client's order: the stale bytes behind the index, which find_msg looks
\* at whenever less than a head is left, are never taken for a packet.
DeliveredInOrder ==
    torn \/ \A c \in Clients : \A p, q \in {r \in DOMAIN Script[c] : Closes(Script[c][r])} :
              \A i, j \in DOMAIN delivered :
                i < j /\ delivered[i].id = Script[c][p].id /\ delivered[j].id = Script[c][q].id
                  => p < q

\* What the callbacks get is what the clients sent; and only the first command in parts of
\* all can be put together at an index never set.
Delivered == DeliveredWhole /\ DeliveredInOrder

\* A packet that is all there does not wait for more bytes to come, except the one without
\* data, which find_msg's bound cannot see at the end of the buffer.
CompleteNotHeld ==
    receiver.pc \in {"check", "recv"} /\ ~torn /\ G_cmd_buf_index >= Head_Cells =>
      /\ G_cmd_buffer[1].k = "SEND_CMD"
      /\ \/ G_cmd_buf_index < Head_Cells + G_cmd_buffer[Head_Cells].cur
         \/ G_cmd_buf_index = Head_Cells /\ G_cmd_buffer[Head_Cells].cur = 0

\* A client that is alone, accepted last and not forgotten by connect_state is served: all
\* that it sends is delivered, but for the first command in parts, which a write index
\* that was never set may make check_pkt refuse.
ServedWhileAlone ==
    \A c \in Clients :
      <>[](/\ connect_state = 1 /\ new_fd = c /\ conn[c] = "open"
           /\ ~torn /\ ~crashed
           /\ \A b \in Clients \ {c} : conn[b] = "closed")
        => \A p \in {r \in DOMAIN Script[c] : Closes(Script[c][r])} :
             \/ Script[c][p].type = "end" /\ \A m \in 1 .. p - 1 : Script[c][m].type # "end"
             \/ <>[](\E i \in DOMAIN delivered : delivered[i].id = Script[c][p].id)
=============================================================================
