----------------------------- MODULE RtspServer -----------------------------
(***************************************************************************)
(* The RTSP server of the camera (rtspserver/src/net): one loop thread     *)
(* accepts connections, parses requests and deletes connections; the video *)
(* encoder's thread walks the track's list of RTP instances for every      *)
(* packet and takes no lock.  Descriptors are the process's: other threads *)
(* (photos, the command port, the database) open and close files of their  *)
(* own.                                                                    *)
(*                                                                         *)
(* Abstracted: a request is its method, whether its URL names the session  *)
(* and, for SETUP, its track and transport; replies are sent or fail.  A   *)
(* UDP instance's own two sockets belong to it alone and are left out, as  *)
(* is the RTCP instance beside it.  In a round the loop serves the ready   *)
(* descriptors in any order.                                               *)
(***************************************************************************)
EXTENDS Naturals, Sequences, FiniteSets, SequencesExt

CONSTANTS Fds,        \* descriptors a connection or another thread may get
          Insts,      \* storage for RtpInstance objects; the pool reuses it
          Transports, \* the transports clients ask for, of {"udp", "tcp"}
          MaxListed,  \* bound on the length of the live track's list
          MaxTheirs,  \* bound on the descriptors of other threads
          MaxLeft,    \* bound on the instances deleted without leaving the list
          Acceptor,   \* the listening socket
          NoInst

ASSUME RtspConstants ==
    /\ Transports \subseteq {"udp", "tcp"}
    /\ NoInst \notin Insts /\ Acceptor \notin Fds
    /\ MaxListed \in Nat /\ MaxTheirs \in Nat /\ MaxLeft \in Nat
    /\ IsFiniteSet(Fds)

VARIABLES
    loop,               \* where EventScheduler::loop stands
    ready,              \* what the poller found readable and has not served
    mTriggerEvents,     \* how many times the trigger has been queued
    mDisconnectionlist,
    mConnections,       \* the keys of the map
    conns,              \* the RtspConnection of each descriptor
    mRtpInstances,      \* the list of the live track
    allocated,          \* RtpInstance objects that exist
    alive,              \* mIsAlive of each
    mRtpType,           \* and its transport
    kernel,             \* who holds each descriptor: "closed", "conn", "other"
    theirs,             \* descriptors other threads believe they hold
    peer,               \* "up", or "down" once end of file is next to be read
    at,                 \* the node sendPacket stands on, 0 when it is idle
    stale,              \* that node has been freed
    crashed,            \* "no", or how the process died
    overlapped,         \* history: a node was freed under the sender in this walk
    undescribed,        \* history: instances deleted without leaving the list
    doubled             \* history: one descriptor was closed twice

fdVars == <<kernel, theirs>>
sender == <<at, stale>>
history == <<overlapped, undescribed, doubled>>
instVars == <<mRtpInstances, allocated, alive, mRtpType>>
vars == <<loop, ready, mTriggerEvents, mDisconnectionlist, mConnections, conns, instVars,
          fdVars, peer, sender, crashed, history>>

-----------------------------------------------------------------------------
(* A session has two tracks; main adds a sink to TrackId0 only, and the     *)
(* other track stays dead.                                                  *)
Tracks == {0, 1}
LiveTrack == 0

(* The constructor leaves mSession unset. *)
Fresh == [mSession |-> "unset", tcp |-> FALSE, inst |-> [t \in Tracks |-> NoInst]]

Conn == [mSession : {"unset", "session"}, tcp : BOOLEAN,
         inst : [Tracks -> Insts \cup {NoInst}]]

(* The instances of a connection. *)
Held(fd) == {conns[fd].inst[t] : t \in Tracks} \ {NoInst}

Init ==
    /\ loop = "triggers" /\ ready = {} /\ mTriggerEvents = 0 /\ mDisconnectionlist = <<>>
    /\ mConnections = {} /\ conns = [fd \in Fds |-> Fresh]
    /\ mRtpInstances = <<>> /\ allocated = {} /\ alive = [i \in Insts |-> FALSE]
    /\ mRtpType = [i \in Insts |-> "udp"]
    /\ kernel = [fd \in Fds |-> "closed"] /\ theirs = {} /\ peer = [fd \in Fds |-> "up"]
    /\ at = 0 /\ stale = FALSE /\ crashed = "no"
    /\ overlapped = FALSE /\ undescribed = 0 /\ doubled = FALSE

(* MediaSession::removeRtpInstance: the first node that holds i, if any. *)
Position(i) == CHOOSE k \in DOMAIN mRtpInstances :
                   /\ mRtpInstances[k] = i
                   /\ \A j \in 1 .. (k - 1) : mRtpInstances[j] # i

removeRtpInstance_Keep(i) == UNCHANGED <<mRtpInstances, sender, overlapped>>

removeRtpInstance(i) ==
    IF i \notin Range(mRtpInstances)
    THEN UNCHANGED <<mRtpInstances, sender, overlapped>>
    ELSE LET k == Position(i) IN
         /\ mRtpInstances' = RemoveAt(mRtpInstances, k)
         /\ at' = IF at > k THEN at - 1 ELSE at
         /\ stale' = (stale \/ at = k)
         /\ overlapped' = (overlapped \/ at = k)

-----------------------------------------------------------------------------
(* RtspServer::handleDisconnection: remember the descriptor, queue the trigger. *)
handleDisconnection_Silent(fd) == UNCHANGED <<mDisconnectionlist, mTriggerEvents>>

handleDisconnection(fd) ==
    /\ mDisconnectionlist' = Append(mDisconnectionlist, fd)
    /\ mTriggerEvents' = mTriggerEvents + 1

(* handleTriggerEvents with nothing queued. *)
NoTrigger ==
    /\ loop = "triggers" /\ mTriggerEvents = 0
    /\ loop' = "poll"
    /\ UNCHANGED <<ready, mTriggerEvents, mDisconnectionlist, mConnections, conns, instVars,
                   fdVars, peer, sender, crashed, history>>

(* An RTP-over-TCP instance holds the connection's own descriptor and its   *)
(* destructor closes it.                                                    *)
ClosesConnection_Always(i) == i \in Insts
ClosesConnection(i) == mRtpType[i] = "tcp"

(* handleDisconnectionList, for the first descriptor of the list; the      *)
(* assertion says that it has a connection.                                *)
BeginDelete ==
    /\ loop = "triggers" /\ mTriggerEvents > 0 /\ mDisconnectionlist # <<>>
    /\ IF Head(mDisconnectionlist) \in mConnections
       THEN loop' = "deleting" /\ UNCHANGED crashed
       ELSE crashed' = "assert" /\ UNCHANGED loop
    /\ UNCHANGED <<ready, mTriggerEvents, mDisconnectionlist, mConnections, conns, instVars,
                   fdVars, peer, sender, history>>

(* ~RtspConnection, for the next track that has an instance: it leaves the  *)
(* track's list, if mSession, never set without a DESCRIBE, allows it, and  *)
(* is deleted; what its storage holds then is not followed.                 *)
DeleteInstance ==
    /\ loop = "deleting"
    /\ \E t \in Tracks :
         LET fd == Head(mDisconnectionlist)
             i  == conns[fd].inst[t] IN
         /\ i # NoInst
         /\ \A u \in Tracks : u < t => conns[fd].inst[u] = NoInst
         /\ conns' = [conns EXCEPT ![fd].inst[t] = NoInst]
         /\ allocated' = allocated \ {i}
         /\ alive' = [alive EXCEPT ![i] = FALSE]
         /\ mRtpType' = [mRtpType EXCEPT ![i] = "udp"]
         /\ kernel' = IF ClosesConnection(i) THEN [kernel EXCEPT ![fd] = "closed"] ELSE kernel
         /\ doubled' = (doubled \/ mRtpType[i] = "tcp")
            (* unset, mSession may still be what the storage held: the session *)
         /\ \/ removeRtpInstance(i) /\ UNCHANGED <<undescribed, crashed>>
            \/ /\ conns[fd].mSession = "unset"
               /\ undescribed < MaxLeft /\ undescribed' = undescribed + 1
               /\ crashed' \in {"no", "session"}
               /\ UNCHANGED <<mRtpInstances, sender, overlapped>>
    /\ UNCHANGED <<loop, ready, mTriggerEvents, mDisconnectionlist, mConnections, theirs, peer>>

(* ~TcpConnection, ~TcpSocket and the erase: the descriptor is closed,      *)
(* whoever holds it by now.                                                 *)
Erased_Twice(list) == list
Erased(list) == Tail(list)

EndDelete ==
    /\ loop = "deleting" /\ Held(Head(mDisconnectionlist)) = {}
    /\ LET fd == Head(mDisconnectionlist) IN
       /\ kernel' = [kernel EXCEPT ![fd] = "closed"]
       /\ mConnections' = mConnections \ {fd}
       /\ conns' = [conns EXCEPT ![fd] = Fresh]
       /\ peer' = [peer EXCEPT ![fd] = "up"]
    /\ mDisconnectionlist' = Erased(mDisconnectionlist)
    /\ loop' = "triggers"
    /\ UNCHANGED <<ready, mTriggerEvents, instVars, theirs, sender, crashed, history>>

(* The list is handled; the other queued triggers find it empty.           *)
TriggersDone ==
    /\ loop = "triggers" /\ mTriggerEvents > 0 /\ mDisconnectionlist = <<>>
    /\ mTriggerEvents' = 0 /\ loop' = "poll"
    /\ UNCHANGED <<ready, mDisconnectionlist, mConnections, conns, instVars, fdVars, peer,
                   sender, crashed, history>>

-----------------------------------------------------------------------------
(* SelectPoller::handleEvent.  select fails when a registered descriptor is *)
(* closed, and the round then serves nobody.  A connection at end of file   *)
(* is readable.                                                             *)
Poll ==
    /\ loop = "poll"
    /\ IF \E fd \in mConnections : kernel[fd] = "closed"
       THEN ready' = {}
       ELSE \E R \in SUBSET (mConnections \cup {Acceptor}) :
                /\ {fd \in mConnections : peer[fd] = "down"} \subseteq R
                /\ ready' = R
    /\ loop' = "serve"
    /\ UNCHANGED <<mTriggerEvents, mDisconnectionlist, mConnections, conns, instVars, fdVars,
                   peer, sender, crashed, history>>

ServeDone ==
    /\ loop = "serve" /\ ready = {}
    /\ loop' = "triggers"
    /\ UNCHANGED <<ready, mTriggerEvents, mDisconnectionlist, mConnections, conns, instVars,
                   fdVars, peer, sender, crashed, history>>

(* Acceptor::handleRead.  A descriptor that already has a connection (it    *)
(* was closed under it) keeps the old one: insert does not replace.         *)
Accept(fd) ==
    /\ loop = "serve" /\ Acceptor \in ready /\ kernel[fd] = "closed"
    /\ ready' = ready \ {Acceptor}
    /\ kernel' = [kernel EXCEPT ![fd] = "conn"]
    /\ peer' = [peer EXCEPT ![fd] = "up"]
    /\ mConnections' = mConnections \cup {fd}
    /\ conns' = IF fd \in mConnections THEN conns ELSE [conns EXCEPT ![fd] = Fresh]
    /\ UNCHANGED <<loop, mTriggerEvents, mDisconnectionlist, instVars, theirs, sender, crashed,
                   history>>

(* accept fails for want of a descriptor: the connection made for -1 is     *)
(* never registered with the poller.                                        *)
AcceptFails ==
    /\ loop = "serve" /\ Acceptor \in ready /\ \A fd \in Fds : kernel[fd] # "closed"
    /\ ready' = ready \ {Acceptor}
    /\ UNCHANGED <<loop, mTriggerEvents, mDisconnectionlist, mConnections, conns, instVars,
                   fdVars, peer, sender, crashed, history>>

(* TcpConnection::handleRead reads nothing, an error, or another thread's   *)
(* file.                                                                    *)
ReadEnd(fd) ==
    /\ loop = "serve" /\ fd \in ready
    /\ peer[fd] = "down" \/ kernel[fd] # "conn"
    /\ ready' = ready \ {fd}
    /\ handleDisconnection(fd)
    /\ UNCHANGED <<loop, mConnections, conns, instVars, fdVars, peer,
                   sender, crashed, history>>

(* A request is read whole.  Serving(fd) is what the handlers share: the    *)
(* handler keeps the connection or, returning false, gives it up.           *)
Serving(fd) ==
    /\ loop = "serve" /\ fd \in ready /\ peer[fd] = "up"
    /\ ready' = ready \ {fd}
    /\ UNCHANGED <<loop, mConnections, fdVars, peer, sender, history>>

(* The reply is sent or fails; a client that has reset the connection makes *)
(* the write raise SIGPIPE, which nothing in the process ignores.           *)
KeepsOrDrops(fd) ==
    \/ UNCHANGED <<mDisconnectionlist, mTriggerEvents, crashed>>
    \/ handleDisconnection(fd) /\ UNCHANGED crashed
    \/ crashed' = "pipe" /\ UNCHANGED <<mDisconnectionlist, mTriggerEvents>>

(* OPTIONS, TEARDOWN, GET_PARAMETER (which returns no value), an interleaved *)
(* frame, a failed or incomplete parse, an unknown session: no state but the *)
(* connection's fate changes.  TEARDOWN does not stop the stream.            *)
OtherRequest(fd) ==
    /\ Serving(fd) /\ KeepsOrDrops(fd)
    /\ UNCHANGED <<conns, instVars>>

handleCmdDescribe(fd) ==
    /\ Serving(fd) /\ KeepsOrDrops(fd)
    /\ conns' = [conns EXCEPT ![fd].mSession = "session"]
    /\ UNCHANGED instVars

(* MediaSession::addRtpInstance: the dead track takes none. *)
addRtpInstance(track, i) ==
    mRtpInstances' = IF track = LiveTrack THEN Append(mRtpInstances, i) ELSE mRtpInstances

(* SETUP of a track.  The connection remembers that a transport was TCP     *)
(* even when the request is refused: for a track that has its instance,     *)
(* channels that do not parse, an unknown session, want of UDP sockets.     *)
(* What addRtpInstance returns is not looked at.                            *)
handleCmdSetup(fd, track, transport) ==
    LET overTcp == conns[fd].tcp \/ transport = "tcp" IN
    /\ Serving(fd)
    /\ \/ /\ handleDisconnection(fd)
          /\ conns' = [conns EXCEPT ![fd].tcp = overTcp]
          /\ UNCHANGED <<instVars, crashed>>
       \/ /\ conns[fd].inst[track] = NoInst
          /\ Len(mRtpInstances) < MaxListed
          /\ \E i \in Insts \ allocated :
                 /\ allocated' = allocated \cup {i}
                 /\ alive' = [alive EXCEPT ![i] = FALSE]
                 /\ mRtpType' = [mRtpType EXCEPT ![i] = IF overTcp THEN "tcp" ELSE "udp"]
                 /\ addRtpInstance(track, i)
                 /\ conns' = [conns EXCEPT ![fd].tcp = overTcp, ![fd].inst[track] = i]
          /\ KeepsOrDrops(fd)

(* PLAY looks the session up and uses it unchecked; the reply sent, every   *)
(* instance of the connection is alive.                                     *)
handleCmdPlay(fd, known) ==
    /\ Serving(fd)
    /\ \/ ~known /\ crashed' = "play" /\ UNCHANGED <<alive, mDisconnectionlist, mTriggerEvents>>
       \/ known /\ KeepsOrDrops(fd) /\ UNCHANGED alive
       \/ /\ known /\ UNCHANGED <<mDisconnectionlist, mTriggerEvents, crashed>>
          /\ alive' = [i \in Insts |-> alive[i] \/ i \in Held(fd)]
    /\ UNCHANGED <<conns, mRtpInstances, allocated, mRtpType>>

Request(fd) ==
    \/ OtherRequest(fd)
    \/ handleCmdDescribe(fd)
    \/ \E track \in Tracks, transport \in Transports : handleCmdSetup(fd, track, transport)
    \/ \E known \in BOOLEAN : handleCmdPlay(fd, known)

-----------------------------------------------------------------------------
(* MediaSession::sendPacket, in the encoder's thread: one step per node,    *)
(* no lock.  A freed node or instance is read all the same; a packet for a  *)
(* TCP viewer that has closed may raise SIGPIPE.                            *)
SendBegin ==
    /\ at = 0 /\ mRtpInstances # <<>>
    /\ at' = 1
    /\ UNCHANGED <<loop, ready, mTriggerEvents, mDisconnectionlist, mConnections, conns,
                   instVars, fdVars, peer, stale, crashed, history>>

NextNode_Past(k) == IF k <= Len(mRtpInstances) THEN k + 1 ELSE 0
NextNode(k) == IF k < Len(mRtpInstances) THEN k + 1 ELSE 0

WritesToClosed(i) ==
    /\ alive[i] /\ mRtpType[i] = "tcp"
    /\ \E fd \in mConnections : i \in Held(fd) /\ peer[fd] = "down"

SendNext ==
    /\ at # 0
    /\ IF stale \/ at > Len(mRtpInstances)
       THEN at' = 0 /\ stale' = FALSE /\ crashed' \in {"no", "sender"}
            /\ overlapped' = (overlapped /\ crashed' = "sender")
       ELSE /\ at' = NextNode(at) /\ stale' = FALSE
            /\ \/ UNCHANGED crashed
               \/ mRtpInstances[at] \notin allocated /\ crashed' = "sender"
               \/ WritesToClosed(mRtpInstances[at]) /\ crashed' = "pipe"
            /\ UNCHANGED overlapped
    /\ UNCHANGED <<loop, ready, mTriggerEvents, mDisconnectionlist, mConnections, conns,
                   instVars, fdVars, peer, undescribed, doubled>>

(* Threads of the program that open and close files of their own. *)
OtherOpens(fd) ==
    /\ kernel[fd] = "closed" /\ Cardinality(theirs) < MaxTheirs
    /\ kernel' = [kernel EXCEPT ![fd] = "other"] /\ theirs' = theirs \cup {fd}
    /\ UNCHANGED <<loop, ready, mTriggerEvents, mDisconnectionlist, mConnections, conns,
                   instVars, peer, sender, crashed, history>>

OtherCloses(fd) ==
    /\ fd \in theirs
    /\ kernel' = [kernel EXCEPT ![fd] = "closed"] /\ theirs' = theirs \ {fd}
    /\ UNCHANGED <<loop, ready, mTriggerEvents, mDisconnectionlist, mConnections, conns,
                   instVars, peer, sender, crashed, history>>

(* The client closes or resets the connection.  A client whose host vanishes *)
(* is like one that stays silent: the code asks for no keep-alive and never  *)
(* enforces the session's timeout of 60 seconds that PLAY announces, so no   *)
(* event comes and the connection and its stream stay.                       *)
PeerCloses(fd) ==
    /\ fd \in mConnections /\ peer[fd] = "up"
    /\ peer' = [peer EXCEPT ![fd] = "down"]
    /\ UNCHANGED <<loop, ready, mTriggerEvents, mDisconnectionlist, mConnections, conns,
                   instVars, fdVars, sender, crashed, history>>

-----------------------------------------------------------------------------
Loop ==
    /\ crashed = "no"
    /\ \/ NoTrigger \/ BeginDelete \/ DeleteInstance \/ EndDelete \/ TriggersDone
       \/ Poll \/ ServeDone \/ AcceptFails
       \/ \E fd \in Fds : Accept(fd) \/ ReadEnd(fd) \/ Request(fd)

Sender == crashed = "no" /\ (SendBegin \/ SendNext)

Others == crashed = "no" /\ \E fd \in Fds : OtherOpens(fd) \/ OtherCloses(fd) \/ PeerCloses(fd)

Next == Loop \/ Sender \/ Others

Spec == Init /\ [][Next]_vars

(* Both threads run for ever; nothing is assumed of clients and of the     *)
(* other threads.                                                          *)
FairSpec == Spec /\ WF_vars(Loop) /\ WF_vars(Sender)

-----------------------------------------------------------------------------
(* No instance outlives its connection, and the list the encoder's thread   *)
(* walks holds exactly the live track's instances of the connections, each  *)
(* once, as long as every deleted connection had asked for a DESCRIBE       *)
(* before its SETUP.  An instance of the dead track is in no list.          *)
ListedAreLive ==
    /\ allocated = UNION {Held(fd) : fd \in mConnections}
    /\ undescribed = 0 =>
          /\ IsInjective(mRtpInstances)
          /\ Range(mRtpInstances) = {conns[fd].inst[LiveTrack] : fd \in mConnections} \ {NoInst}

(* The types of the variables of the event loop, the server and the session; *)
(* and the session's list against the connections.                           *)
TypeOK ==
    /\ loop \in {"triggers", "deleting", "poll", "serve"}
    /\ ready \subseteq Fds \cup {Acceptor}
    /\ mTriggerEvents \in 0 .. Cardinality(Fds)
    /\ mDisconnectionlist \in Seq(Fds)
    /\ mConnections \subseteq Fds
    /\ conns \in [Fds -> Conn]
    /\ mRtpInstances \in Seq(Insts) /\ Len(mRtpInstances) <= MaxListed
    /\ allocated \subseteq Insts /\ alive \in [Insts -> BOOLEAN]
    /\ mRtpType \in [Insts -> {"udp", "tcp"}]
    /\ kernel \in [Fds -> {"closed", "conn", "other"}] /\ theirs \subseteq Fds
    /\ peer \in [Fds -> {"up", "down"}]
    /\ at \in 0 .. (MaxListed + 1) /\ stale \in BOOLEAN
    /\ crashed \in {"no", "assert", "session", "play", "sender", "pipe"}
    /\ overlapped \in BOOLEAN /\ undescribed \in 0 .. MaxLeft /\ doubled \in BOOLEAN
    /\ ListedAreLive

(* The assertion of handleDisconnectionList: every descriptor reported      *)
(* gone still has its connection, and is reported once, although a request  *)
(* can fail, the peer can close and the deletion is put off to a later      *)
(* round of the loop.                                                       *)
DisconnectsKnown ==
    /\ crashed # "assert"
    /\ Range(mDisconnectionlist) \subseteq mConnections
    /\ IsInjective(mDisconnectionlist)

(* sendPacket, which takes no lock, meets freed memory only when a          *)
(* connection is deleted under the very node it stands on, in that same     *)
(* walk, or after a connection that did SETUP without DESCRIBE; only the    *)
(* latter makes the deletion itself fail.                                   *)
FaultsExplained ==
    /\ crashed = "sender" => overlapped \/ undescribed > 0
    /\ crashed = "session" => undescribed > 0

(* A descriptor the server has a connection for is its socket, and one      *)
(* another thread opened is still that thread's file, until a connection    *)
(* with RTP over TCP is deleted: its descriptor is closed twice, and the    *)
(* second close may hit what another thread opened in between.              *)
OneOwner ==
    ~doubled =>
        /\ \A fd \in mConnections : kernel[fd] = "conn"
        /\ \A fd \in theirs : kernel[fd] = "other"

(* A connection whose client has closed it is deleted in the end, through   *)
(* read, list and trigger, unless the process dies or descriptors were      *)
(* mixed up.  Nothing is said of a client whose host vanished.              *)
PeerGoneDeleted ==
    \A fd \in Fds :
        (fd \in mConnections /\ peer[fd] = "down")
            ~> (fd \notin mConnections \/ crashed # "no" \/ doubled)
=============================================================================
