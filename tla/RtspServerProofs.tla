-------------------------- MODULE RtspServerProofs --------------------------
(***************************************************************************)
(* What RtspServer guarantees for any number of descriptors, instances and *)
(* any bound on the list.  The inductive invariant follows a descriptor    *)
(* around the loop (Round: ready, or on mDisconnectionlist, never both),   *)
(* an instance from SETUP to its deletion (Holdings, Listed) and the       *)
(* encoder's thread along the list (Walk).                                 *)
(***************************************************************************)
EXTENDS RtspServer, WellFoundedInduction, FiniteSetTheorems, SequenceTheorems, TLAPS

\* The types, without bounds.
Types ==
    /\ loop \in {"triggers", "deleting", "poll", "serve"}
    /\ ready \subseteq Fds \cup {Acceptor}
    /\ mTriggerEvents \in Nat
    /\ mDisconnectionlist \in Seq(Fds)
    /\ mConnections \subseteq Fds
    /\ conns \in [Fds -> Conn]
    /\ mRtpInstances \in Seq(Insts) /\ Len(mRtpInstances) <= MaxListed
    /\ allocated \subseteq Insts /\ alive \in [Insts -> BOOLEAN]
    /\ mRtpType \in [Insts -> {"udp", "tcp"}]
    /\ kernel \in [Fds -> {"closed", "conn", "other"}] /\ theirs \subseteq Fds
    /\ peer \in [Fds -> {"up", "down"}]
    /\ at \in 0 .. MaxListed /\ stale \in BOOLEAN
    /\ crashed \in {"no", "assert", "session", "play", "sender", "pipe"}
    /\ overlapped \in BOOLEAN /\ undescribed \in 0 .. MaxLeft /\ doubled \in BOOLEAN

\* A round of the loop: every trigger stands for a descriptor on the list, which was served
\* when it came there and is a connection's; the list is empty when the poller is asked.
Round ==
    /\ crashed # "assert"
    /\ ready \subseteq mConnections \cup {Acceptor}
    /\ Range(mDisconnectionlist) \subseteq mConnections \ ready
    /\ IsInjective(mDisconnectionlist)
    /\ mTriggerEvents <= Cardinality(Fds)
    /\ loop # "serve" => ready = {}
    /\ loop = "serve" => mTriggerEvents = Len(mDisconnectionlist)
    /\ loop \in {"triggers", "deleting"} => Len(mDisconnectionlist) <= mTriggerEvents
    /\ loop = "deleting" => mDisconnectionlist # <<>>
    /\ loop = "poll" => mDisconnectionlist = <<>> /\ mTriggerEvents = 0

\* An instance is one connection's, for one track, and without a connection there is none.
Holdings ==
    /\ \A fd \in Fds \ mConnections : conns[fd] = Fresh
    /\ \A fd, gd \in Fds, t, u \in Tracks :
          conns[fd].inst[t] = conns[gd].inst[u] => conns[fd].inst[t] = NoInst \/ (fd = gd /\ t = u)
    /\ \A fd \in Fds, t \in Tracks : conns[fd].inst[t] # NoInst => conns[fd].inst[t] \in allocated
    /\ \A i \in allocated : \E fd \in Fds, t \in Tracks : conns[fd].inst[t] = i

\* The list holds the instances of the live track.
Listed ==
    undescribed = 0 =>
        /\ IsInjective(mRtpInstances)
        /\ \A i \in Insts : i \in Range(mRtpInstances) <=> \E fd \in Fds : conns[fd].inst[LiveTrack] = i

\* What the encoder's thread walks, and where it stands.
Walk ==
    /\ at > Len(mRtpInstances) => stale
    /\ stale => overlapped /\ at # 0

IInv == Types /\ Round /\ Holdings /\ Listed /\ Walk /\ FaultsExplained /\ OneOwner
-----------------------------------------------------------------------------
(* Sequences *)

\* The smallest of a set of natural numbers.
LEMMA Smallest ==
    ASSUME NEW S \in SUBSET Nat, S # {}
    PROVE  \E i \in S : \A j \in S : i <= j
<1> DEFINE R == {ss \in Nat \X Nat : ss[1] < ss[2]}
<1>1. IsWellFoundedOn(R, Nat)
  BY NatLessThanWellFounded DEF OpToRel
<1>2. PICK i \in S : \A j \in S : ~(<<j, i>> \in R)
  BY <1>1, WFMin
<1>3. \A j \in S : ~(j < i)
  BY <1>2
<1> QED BY <1>2, <1>3

\* One element more.
LEMMA AppendNew ==
    ASSUME NEW S, NEW s \in Seq(S), NEW x \in S, x \notin Range(s), IsInjective(s)
    PROVE  /\ Append(s, x) \in Seq(S) /\ Len(Append(s, x)) = Len(s) + 1
           /\ IsInjective(Append(s, x))
           /\ Range(Append(s, x)) = Range(s) \cup {x}
<1>1. /\ Append(s, x) \in Seq(S) /\ Len(s) \in Nat /\ Len(Append(s, x)) = Len(s) + 1
      /\ DOMAIN s = 1 .. Len(s) /\ DOMAIN Append(s, x) = 1 .. Len(s) + 1
      /\ \A i \in 1 .. Len(s) : Append(s, x)[i] = s[i]
      /\ Append(s, x)[Len(s) + 1] = x
  OBVIOUS
<1>2. \A i \in 1 .. Len(s) : s[i] # x
  BY <1>1 DEF Range
<1>3. IsInjective(Append(s, x))
  BY <1>1, <1>2 DEF IsInjective
<1>4. Range(Append(s, x)) = Range(s) \cup {x}
  BY <1>1 DEF Range
<1> QED BY <1>1, <1>3, <1>4

\* The first element gone.
LEMMA TailRest ==
    ASSUME NEW S, NEW s \in Seq(S), s # <<>>, IsInjective(s)
    PROVE  /\ Tail(s) \in Seq(S) /\ Len(Tail(s)) = Len(s) - 1 /\ Len(s) \in Nat
           /\ Head(s) \in Range(s)
           /\ IsInjective(Tail(s))
           /\ Range(Tail(s)) = Range(s) \ {Head(s)}
<1>1. /\ Tail(s) \in Seq(S) /\ Len(s) \in Nat /\ Len(s) > 0 /\ Len(Tail(s)) = Len(s) - 1
      /\ DOMAIN s = 1 .. Len(s) /\ DOMAIN Tail(s) = 1 .. Len(s) - 1
      /\ \A i \in 1 .. Len(s) - 1 : Tail(s)[i] = s[i + 1]
      /\ Head(s) = s[1]
  BY HeadTailProperties
<1>2. Head(s) \in Range(s)
  BY <1>1 DEF Range
<1>3. IsInjective(Tail(s))
  BY <1>1 DEF IsInjective
<1>4. Range(Tail(s)) = Range(s) \ {Head(s)}
  <2>1. ASSUME NEW i \in 1 .. Len(s) - 1
        PROVE  Tail(s)[i] \in Range(s) /\ Tail(s)[i] # Head(s)
    BY <1>1 DEF Range, IsInjective
  <2>2. ASSUME NEW i \in 1 .. Len(s), s[i] # Head(s) PROVE s[i] \in Range(Tail(s))
    <3>1. i - 1 \in 1 .. Len(s) - 1 /\ Tail(s)[i - 1] = s[i]
      BY <1>1, <2>2
    <3> QED BY <1>1, <3>1 DEF Range
  <2> QED BY <1>1, <2>1, <2>2 DEF Range
<1> QED BY <1>1, <1>2, <1>3, <1>4

\* One element taken out.
LEMMA OneRemoved ==
    ASSUME NEW S, NEW s \in Seq(S), NEW k \in DOMAIN s
    PROVE  /\ RemoveAt(s, k) \in Seq(S) /\ Len(RemoveAt(s, k)) = Len(s) - 1 /\ Len(s) \in Nat
           /\ k \in 1 .. Len(s)
           /\ IsInjective(s) => /\ IsInjective(RemoveAt(s, k))
                                /\ Range(RemoveAt(s, k)) = Range(s) \ {s[k]}
<1> DEFINE a == SubSeq(s, 1, k - 1)
           b == SubSeq(s, k + 1, Len(s))
           r == RemoveAt(s, k)
<1>1. Len(s) \in Nat /\ DOMAIN s = 1 .. Len(s) /\ k \in 1 .. Len(s)
  OBVIOUS
<1>2. /\ a \in Seq(S) /\ Len(a) = k - 1 /\ \A i \in 1 .. k - 1 : a[i] = s[i]
  BY <1>1, SubSeqProperties
<1>3. /\ b \in Seq(S) /\ Len(b) = Len(s) - k /\ \A i \in 1 .. Len(s) - k : b[i] = s[k + i]
  BY <1>1, SubSeqProperties
<1>4. /\ r \in Seq(S) /\ Len(r) = Len(s) - 1
      /\ \A i \in 1 .. Len(s) - 1 : r[i] = IF i < k THEN s[i] ELSE s[i + 1]
  <2> HIDE DEF a, b
  <2>1. r = a \o b
    BY DEF RemoveAt, a, b
  <2>2. /\ a \o b \in Seq(S) /\ Len(a \o b) = Len(s) - 1
        /\ \A i \in 1 .. k - 1 : (a \o b)[i] = a[i]
        /\ \A i \in k .. Len(s) - 1 : (a \o b)[i] = b[i - (k - 1)]
    <3>1. /\ a \o b \in Seq(S) /\ Len(a \o b) = Len(a) + Len(b)
          /\ \A i \in 1 .. Len(a) + Len(b) :
                (a \o b)[i] = IF i <= Len(a) THEN a[i] ELSE b[i - Len(a)]
      BY <1>2, <1>3, ConcatProperties
    <3>2. Len(a) = k - 1 /\ Len(b) = Len(s) - k /\ k \in 1 .. Len(s) /\ Len(s) \in Nat
      BY <1>1, <1>2, <1>3
    <3>3. Len(a) + Len(b) = Len(s) - 1
      BY <3>2
    <3>4. \A i \in 1 .. k - 1 : i \in 1 .. Len(a) + Len(b) /\ i <= Len(a)
      BY <3>2
    <3>5. \A i \in k .. Len(s) - 1 : i \in 1 .. Len(a) + Len(b) /\ ~(i <= Len(a))
      BY <3>2
    <3> QED BY <3>1, <3>2, <3>3, <3>4, <3>5
  <2>3. ASSUME NEW i \in 1 .. Len(s) - 1 PROVE (a \o b)[i] = IF i < k THEN s[i] ELSE s[i + 1]
    <3>1. CASE i < k
      BY <1>1, <1>2, <2>2, <2>3, <3>1
    <3>2. CASE ~(i < k)
      <4>1. i - (k - 1) \in 1 .. Len(s) - k /\ k + (i - (k - 1)) = i + 1
        BY <1>1, <2>3, <3>2
      <4>2. i \in k .. Len(s) - 1
        BY <1>1, <2>3, <3>2
      <4>3. (a \o b)[i] = b[i - (k - 1)]
        BY <2>2, <4>2
      <4>4. b[i - (k - 1)] = s[i + 1]
        BY <1>3, <4>1
      <4> QED BY <1>1, <3>2, <4>2, <4>3, <4>4
    <3> QED BY <3>1, <3>2
  <2> QED BY <2>1, <2>2, <2>3
<1> HIDE DEF r
<1>5. ASSUME IsInjective(s) PROVE IsInjective(r) /\ Range(r) = Range(s) \ {s[k]}
  <2>1. DOMAIN r = 1 .. Len(s) - 1
    BY <1>4
  <2>2. \A i, j \in 1 .. Len(s) : s[i] = s[j] => i = j
    BY <1>1, <1>5 DEF IsInjective
  <2>3. IsInjective(r)
    BY <1>1, <1>4, <2>1, <2>2 DEF IsInjective
  <2>4. \A i \in 1 .. Len(s) - 1 : r[i] \in Range(s) \ {s[k]}
    <3>1. ASSUME NEW i \in 1 .. Len(s) - 1
          PROVE  \E j \in 1 .. Len(s) : j # k /\ r[i] = s[j]
      <4>1. CASE i < k
        BY <1>1, <1>4, <3>1, <4>1
      <4>2. CASE ~(i < k)
        <5>1. i + 1 \in 1 .. Len(s) /\ i + 1 # k /\ r[i] = s[i + 1]
          BY <1>1, <1>4, <3>1, <4>2
        <5> QED BY <5>1
      <4> QED BY <4>1, <4>2
    <3>2. DOMAIN s = 1 .. Len(s) /\ k \in 1 .. Len(s)
      BY <1>1
    <3> QED BY <2>2, <3>1, <3>2 DEF Range
  <2>5. ASSUME NEW i \in 1 .. Len(s), i # k PROVE s[i] \in Range(r)
    <3>1. CASE i < k
      BY <1>1, <1>4, <2>1, <3>1 DEF Range
    <3>2. CASE i > k
      <4>1. i - 1 \in 1 .. Len(s) - 1 /\ r[i - 1] = s[i]
        BY <1>1, <1>4, <3>2
      <4> QED BY <2>1, <4>1 DEF Range
    <3> QED BY <1>1, <2>5, <3>1, <3>2
  <2> QED BY <1>1, <2>1, <2>3, <2>4, <2>5 DEF Range
<1> QED BY <1>1, <1>4, <1>5 DEF r

\* Distinct descriptors are no more than there are.
LEMMA NotMoreThanAll ==
    ASSUME NEW S, IsFiniteSet(S), NEW s \in Seq(S), IsInjective(s)
    PROVE  Len(s) <= Cardinality(S)
<1>1. Len(s) \in Nat /\ DOMAIN s = 1 .. Len(s) /\ s \in [1 .. Len(s) -> S]
  OBVIOUS
<1>2. s \in Injection(1 .. Len(s), S)
  BY <1>1 DEF IsInjective, Injection
<1>3. Cardinality(1 .. Len(s)) <= Cardinality(S)
  BY <1>2, FS_Injection
<1>4. Cardinality(1 .. Len(s)) = Len(s)
  BY <1>1, FS_Interval
<1> QED BY <1>3, <1>4

\* MediaSession::removeRtpInstance finds the instance if the list has it.
LEMMA PositionFound ==
    ASSUME NEW i \in Range(mRtpInstances), mRtpInstances \in Seq(Insts)
    PROVE  Position(i) \in DOMAIN mRtpInstances /\ mRtpInstances[Position(i)] = i
<1> DEFINE Hits == {k \in DOMAIN mRtpInstances : mRtpInstances[k] = i}
<1>1. Hits # {} /\ Hits \subseteq Nat /\ DOMAIN mRtpInstances = 1 .. Len(mRtpInstances)
      /\ Len(mRtpInstances) \in Nat
  BY DEF Range
<1>2. PICK k \in Hits : \A j \in Hits : k <= j
  BY <1>1, Smallest
<1>3. \A j \in 1 .. (k - 1) : mRtpInstances[j] # i
  BY <1>1, <1>2
<1>4. \E m \in DOMAIN mRtpInstances :
         mRtpInstances[m] = i /\ \A j \in 1 .. (m - 1) : mRtpInstances[j] # i
  BY <1>2, <1>3
<1> QED BY <1>4 DEF Position
-----------------------------------------------------------------------------
(* Requests and deletions, as the invariant sees them *)

\* The descriptor goes on the list, or does not.
MayReport(fd) == handleDisconnection(fd) \/ UNCHANGED <<mDisconnectionlist, mTriggerEvents>>

\* A connection gets an instance that nobody has, for a track it has none for.
Gains(fd, c, t, i) ==
    /\ conns[fd].inst[t] = NoInst
    /\ c.inst = [conns[fd].inst EXCEPT ![t] = i]
    /\ allocated' = allocated \cup {i}
    /\ mRtpInstances' = IF t = LiveTrack THEN Append(mRtpInstances, i) ELSE mRtpInstances
    /\ Len(mRtpInstances) < MaxListed

\* What a request does: it may give the connection an instance.
Served(fd) ==
    /\ loop = "serve" /\ fd \in ready /\ fd \in mConnections
    /\ ready' = ready \ {fd}
    /\ UNCHANGED <<loop, mConnections, kernel, theirs, peer, at, stale, overlapped, undescribed, doubled>>
    /\ MayReport(fd)
    /\ crashed' \in {crashed, "play", "pipe"}
    /\ alive' \in [Insts -> BOOLEAN]
    /\ mRtpType' \in [Insts -> {"udp", "tcp"}]
    /\ \E c \in Conn :
         /\ conns' = [conns EXCEPT ![fd] = c]
         /\ \/ c.inst = conns[fd].inst /\ UNCHANGED <<mRtpInstances, allocated>>
            \/ \E t \in Tracks, i \in Insts \ allocated : Gains(fd, c, t, i)

\* The handlers of the requests, in one.
LEMMA Requests == ASSUME Types, Round, NEW fd \in Fds, Request(fd) PROVE Served(fd)
<1>1. /\ loop = "serve" /\ fd \in ready /\ ready' = ready \ {fd}
      /\ UNCHANGED <<loop, mConnections, kernel, theirs, peer, at, stale, overlapped, undescribed, doubled>>
  BY DEF Request, OtherRequest, handleCmdDescribe, handleCmdSetup, handleCmdPlay, Serving,
         fdVars, sender, history
<1>2. fd \in mConnections
  BY <1>1, RtspConstants DEF Round
<1>3. /\ conns \in [Fds -> Conn] /\ alive \in [Insts -> BOOLEAN] /\ conns[fd] \in Conn
      /\ mRtpType \in [Insts -> {"udp", "tcp"}]
  BY DEF Types
<1>4. conns = [conns EXCEPT ![fd] = conns[fd]]
  BY <1>3
<1>5. KeepsOrDrops(fd) => MayReport(fd) /\ crashed' \in {crashed, "play", "pipe"}
  BY DEF KeepsOrDrops, MayReport
<1>6. CASE OtherRequest(fd)
  BY <1>1, <1>2, <1>3, <1>4, <1>5, <1>6 DEF OtherRequest, Served, instVars
<1>7. CASE handleCmdDescribe(fd)
  <2> DEFINE c == [conns[fd] EXCEPT !.mSession = "session"]
  <2>1. c \in Conn /\ c.inst = conns[fd].inst
    BY <1>3 DEF Conn
  <2>2. conns' = [conns EXCEPT ![fd] = c]
    BY <1>7 DEF handleCmdDescribe
  <2> HIDE DEF c
  <2> QED BY <1>1, <1>2, <1>3, <1>5, <1>7, <2>1, <2>2 DEF handleCmdDescribe, Served, instVars
<1>8. ASSUME NEW track \in Tracks, NEW t \in Transports, handleCmdSetup(fd, track, t) PROVE Served(fd)
  <2> DEFINE overTcp == conns[fd].tcp \/ t = "tcp"
  <2>1. overTcp \in BOOLEAN
    OBVIOUS
  <2>2. CASE /\ handleDisconnection(fd)
             /\ conns' = [conns EXCEPT ![fd].tcp = overTcp]
             /\ UNCHANGED <<instVars, crashed>>
    <3> DEFINE c == [conns[fd] EXCEPT !.tcp = overTcp]
    <3>1. c \in Conn /\ c.inst = conns[fd].inst
      <4> HIDE DEF overTcp
      <4> QED BY <1>3, <2>1 DEF Conn
    <3>2. conns' = [conns EXCEPT ![fd] = c]
      BY <2>2
    <3> HIDE DEF c
    <3> QED BY <1>1, <1>2, <1>3, <2>2, <3>1, <3>2 DEF Served, MayReport, instVars
  <2>3. ASSUME NEW i \in Insts \ allocated,
               /\ conns[fd].inst[track] = NoInst
               /\ Len(mRtpInstances) < MaxListed
               /\ allocated' = allocated \cup {i}
               /\ alive' = [alive EXCEPT ![i] = FALSE]
               /\ mRtpType' = [mRtpType EXCEPT ![i] = IF overTcp THEN "tcp" ELSE "udp"]
               /\ addRtpInstance(track, i)
               /\ conns' = [conns EXCEPT ![fd].tcp = overTcp, ![fd].inst[track] = i]
               /\ KeepsOrDrops(fd)
        PROVE  Served(fd)
    <3> HIDE DEF overTcp
    <3> DEFINE c == [conns[fd] EXCEPT !.tcp = overTcp, !.inst[track] = i]
    <3>1. c \in Conn /\ c.inst = [conns[fd].inst EXCEPT ![track] = i]
      BY <1>3, <2>1 DEF Conn
    <3>2. conns' = [conns EXCEPT ![fd] = c]
      BY <1>3, <2>3 DEF Conn
    <3> HIDE DEF c
    <3>3. Gains(fd, c, track, i)
      BY <2>3, <3>1 DEF Gains, addRtpInstance
    <3>4. alive' \in [Insts -> BOOLEAN] /\ mRtpType' \in [Insts -> {"udp", "tcp"}]
      BY <1>3, <2>3
    <3>5. \E u \in Tracks, j \in Insts \ allocated : Gains(fd, c, u, j)
      BY <3>3
    <3> QED BY <1>1, <1>2, <1>5, <2>3, <3>1, <3>2, <3>4, <3>5 DEF Served
  <2> QED BY <1>8, <2>2, <2>3 DEF handleCmdSetup
<1>9. ASSUME NEW known \in BOOLEAN, handleCmdPlay(fd, known) PROVE Served(fd)
  <2>1. /\ MayReport(fd) /\ crashed' \in {crashed, "play", "pipe"} /\ alive' \in [Insts -> BOOLEAN]
        /\ UNCHANGED <<conns, mRtpInstances, allocated, mRtpType>>
    BY <1>3, <1>5, <1>9 DEF handleCmdPlay, MayReport
  <2> QED BY <1>1, <1>2, <1>3, <1>4, <2>1 DEF Served
<1> QED BY <1>6, <1>7, <1>8, <1>9 DEF Request

\* The descriptor whose connection is deleted, and what its deletion may do to the list.
Doomed == Head(mDisconnectionlist)

Unlisted(i) ==
    /\ i \in Range(mRtpInstances)
    /\ \E k \in DOMAIN mRtpInstances :
         /\ mRtpInstances[k] = i
         /\ mRtpInstances' = RemoveAt(mRtpInstances, k)
         /\ at' = IF at > k THEN at - 1 ELSE at
         /\ stale' = (stale \/ at = k)
         /\ overlapped' = (overlapped \/ at = k)

\* The instance of one track is deleted.
Deleted(t, i) ==
    /\ loop = "deleting" /\ Doomed \in mConnections
    /\ conns[Doomed].inst[t] = i
    /\ \E c \in Conn : /\ conns' = [conns EXCEPT ![Doomed] = c]
                       /\ c.inst = [conns[Doomed].inst EXCEPT ![t] = NoInst]
    /\ allocated' = allocated \ {i}
    /\ alive' \in [Insts -> BOOLEAN]
    /\ mRtpType' \in [Insts -> {"udp", "tcp"}]
    /\ \/ kernel' = kernel
       \/ kernel' = [kernel EXCEPT ![Doomed] = "closed"] /\ doubled' = TRUE
    /\ doubled' \in {doubled, TRUE}
    /\ \/ Unlisted(i) /\ UNCHANGED <<undescribed, crashed>>
       \/ /\ UNCHANGED <<mRtpInstances, at, stale, overlapped>>
          /\ \/ i \notin Range(mRtpInstances) /\ UNCHANGED <<undescribed, crashed>>
             \/ undescribed' = undescribed + 1 /\ undescribed < MaxLeft /\ crashed' \in {"no", "session"}
    /\ UNCHANGED <<loop, ready, mTriggerEvents, mDisconnectionlist, mConnections, theirs, peer>>

\* MediaSession::removeRtpInstance, of an instance that is in the list.
LEMMA Removals ==
    ASSUME NEW i \in Range(mRtpInstances), mRtpInstances \in Seq(Insts), removeRtpInstance(i)
    PROVE  Unlisted(i)
<1>1. Position(i) \in DOMAIN mRtpInstances /\ mRtpInstances[Position(i)] = i
  BY PositionFound
<1>2. /\ mRtpInstances' = RemoveAt(mRtpInstances, Position(i))
      /\ at' = IF at > Position(i) THEN at - 1 ELSE at
      /\ stale' = (stale \/ at = Position(i))
      /\ overlapped' = (overlapped \/ at = Position(i))
  BY Zenon DEF removeRtpInstance
<1>3. PICK k \in DOMAIN mRtpInstances : k = Position(i)
  BY <1>1
<1>4. /\ mRtpInstances[k] = i
      /\ mRtpInstances' = RemoveAt(mRtpInstances, k)
      /\ at' = IF at > k THEN at - 1 ELSE at
      /\ stale' = (stale \/ at = k)
      /\ overlapped' = (overlapped \/ at = k)
  BY <1>1, <1>2, <1>3, Zenon
<1> QED BY <1>4, Zenon DEF Unlisted

\* ~RtspConnection, as the invariant sees it.
LEMMA Deletions ==
    ASSUME Types, Round, DeleteInstance
    PROVE  \E t \in Tracks, i \in Insts : Deleted(t, i)
<1>1. /\ loop = "deleting" /\ mDisconnectionlist # <<>>
      /\ UNCHANGED <<loop, ready, mTriggerEvents, mDisconnectionlist, mConnections, theirs, peer>>
  BY DEF DeleteInstance, Round
<1>2. Doomed \in mConnections /\ Doomed \in Fds
  BY <1>1, TailRest DEF Types, Round, Doomed
<1>3. conns \in [Fds -> Conn] /\ conns[Doomed] \in Conn /\ doubled \in BOOLEAN
      /\ mRtpInstances \in Seq(Insts) /\ alive \in [Insts -> BOOLEAN]
      /\ mRtpType \in [Insts -> {"udp", "tcp"}]
  BY <1>2 DEF Types
<1>4. PICK t \in Tracks :
         /\ conns[Doomed].inst[t] # NoInst
         /\ conns' = [conns EXCEPT ![Doomed].inst[t] = NoInst]
         /\ allocated' = allocated \ {conns[Doomed].inst[t]}
         /\ alive' = [alive EXCEPT ![conns[Doomed].inst[t]] = FALSE]
         /\ mRtpType' = [mRtpType EXCEPT ![conns[Doomed].inst[t]] = "udp"]
         /\ kernel' = IF ClosesConnection(conns[Doomed].inst[t])
                      THEN [kernel EXCEPT ![Doomed] = "closed"] ELSE kernel
         /\ doubled' = (doubled \/ mRtpType[conns[Doomed].inst[t]] = "tcp")
         /\ \/ removeRtpInstance(conns[Doomed].inst[t]) /\ UNCHANGED <<undescribed, crashed>>
            \/ /\ undescribed < MaxLeft /\ undescribed' = undescribed + 1
               /\ crashed' \in {"no", "session"}
               /\ UNCHANGED <<mRtpInstances, sender, overlapped>>
  BY DEF DeleteInstance, Doomed
<1>5. PICK i \in Insts : i = conns[Doomed].inst[t]
  BY <1>3, <1>4 DEF Conn
<1>6. /\ \/ kernel' = kernel
         \/ kernel' = [kernel EXCEPT ![Doomed] = "closed"] /\ doubled' = TRUE
      /\ doubled' \in {doubled, TRUE}
  BY <1>3, <1>4, <1>5 DEF ClosesConnection
<1>7. \E c \in Conn : /\ conns' = [conns EXCEPT ![Doomed] = c]
                     /\ c.inst = [conns[Doomed].inst EXCEPT ![t] = NoInst]
  <2> DEFINE c == [conns[Doomed] EXCEPT !.inst[t] = NoInst]
  <2>1. c \in Conn /\ c.inst = [conns[Doomed].inst EXCEPT ![t] = NoInst]
    BY <1>3 DEF Conn
  <2>2. conns' = [conns EXCEPT ![Doomed] = c]
    BY <1>4
  <2> HIDE DEF c
  <2> QED BY <2>1, <2>2
<1>8. removeRtpInstance(i) =>
         \/ Unlisted(i)
         \/ i \notin Range(mRtpInstances) /\ UNCHANGED <<mRtpInstances, at, stale, overlapped>>
  <2>1. CASE i \in Range(mRtpInstances)
    BY <1>3, <2>1, Removals
  <2>2. CASE i \notin Range(mRtpInstances)
    BY <2>2 DEF removeRtpInstance, sender
  <2> QED BY <2>1, <2>2
<1>9. \/ Unlisted(i) /\ UNCHANGED <<undescribed, crashed>>
      \/ /\ UNCHANGED <<mRtpInstances, at, stale, overlapped>>
         /\ \/ i \notin Range(mRtpInstances) /\ UNCHANGED <<undescribed, crashed>>
            \/ undescribed' = undescribed + 1 /\ undescribed < MaxLeft /\ crashed' \in {"no", "session"}
  BY <1>4, <1>5, <1>8 DEF sender
<1>10. alive' \in [Insts -> BOOLEAN] /\ mRtpType' \in [Insts -> {"udp", "tcp"}]
  BY <1>3, <1>4
<1>11. allocated' = allocated \ {i} /\ conns[Doomed].inst[t] = i
  BY <1>4, <1>5
<1>12. Deleted(t, i)
  BY <1>1, <1>2, <1>6, <1>7, <1>9, <1>10, <1>11 DEF Deleted
<1> QED BY <1>5, <1>12
-----------------------------------------------------------------------------
(* Types and rounds *)

\* A descriptor that was ready goes on the list, or does not.
LEMMA Reported ==
    ASSUME Types, Round, NEW fd \in Fds, loop = "serve", fd \in ready, fd \in mConnections,
           ready' = ready \ {fd}, UNCHANGED <<loop, mConnections>>, MayReport(fd),
           crashed' # "assert"
    PROVE  Round' /\ mDisconnectionlist' \in Seq(Fds) /\ mTriggerEvents' \in Nat
<1>1. /\ mDisconnectionlist \in Seq(Fds) /\ IsInjective(mDisconnectionlist)
      /\ fd \notin Range(mDisconnectionlist) /\ mTriggerEvents = Len(mDisconnectionlist)
  BY DEF Types, Round
<1>2. CASE UNCHANGED <<mDisconnectionlist, mTriggerEvents>>
  BY <1>1, <1>2 DEF Types, Round
<1>3. CASE handleDisconnection(fd)
  <2>1. /\ mDisconnectionlist' \in Seq(Fds) /\ Len(mDisconnectionlist') = Len(mDisconnectionlist) + 1
        /\ IsInjective(mDisconnectionlist')
        /\ Range(mDisconnectionlist') = Range(mDisconnectionlist) \cup {fd}
        /\ mTriggerEvents' = mTriggerEvents + 1
    BY <1>1, <1>3, AppendNew DEF handleDisconnection
  <2>2. Len(mDisconnectionlist') <= Cardinality(Fds)
    BY <2>1, RtspConstants, NotMoreThanAll
  <2> QED BY <1>1, <2>1, <2>2 DEF Types, Round
<1> QED BY <1>2, <1>3 DEF MayReport

\* A round goes on as it should,
LEMMA RoundStep == ASSUME Types, Round, [Next]_vars PROVE Round'
<1> USE DEF fdVars, sender, history, instVars
<1>1. CASE NoTrigger
  <2>1. mDisconnectionlist = <<>>
    BY <1>1 DEF NoTrigger, Types, Round
  <2> QED BY <1>1, <2>1 DEF NoTrigger, Types, Round
<1>2. CASE BeginDelete \/ DeleteInstance
  <2>1. CASE BeginDelete
    <3>1. mDisconnectionlist # <<>> /\ Doomed \in mConnections
      BY <2>1, TailRest DEF BeginDelete, Types, Round, Doomed
    <3> QED BY <2>1, <3>1 DEF BeginDelete, Round, Doomed
  <2>2. ASSUME NEW t \in Tracks, NEW i \in Insts, Deleted(t, i) PROVE Round'
    <3>1. crashed' \in {crashed, "no", "session"}
      BY <2>2 DEF Deleted
    <3> QED BY <2>2, <3>1 DEF Deleted, Round
  <2> QED BY <1>2, <2>1, <2>2, Deletions
<1>3. CASE EndDelete
  <2>1. /\ Len(mDisconnectionlist') = Len(mDisconnectionlist) - 1 /\ Len(mDisconnectionlist) \in Nat
        /\ IsInjective(mDisconnectionlist')
        /\ Range(mDisconnectionlist') = Range(mDisconnectionlist) \ {Head(mDisconnectionlist)}
        /\ mConnections' = mConnections \ {Head(mDisconnectionlist)}
        /\ UNCHANGED <<ready, mTriggerEvents, crashed>> /\ loop = "deleting" /\ loop' = "triggers"
    BY <1>3, TailRest DEF EndDelete, Erased, Types, Round
  <2> QED BY <2>1 DEF Round, Types
<1>4. CASE TriggersDone
  <2>1. Range(<<>>) = {} /\ Len(<<>>) = 0
    BY DEF Range
  <2> QED BY <1>4, <2>1, FS_CardinalityType, RtspConstants DEF TriggersDone, Round, Types
<1>5. CASE Poll
  <2>1. Range(<<>>) = {} /\ Len(<<>>) = 0 /\ mDisconnectionlist = <<>>
    BY <1>5 DEF Poll, Round, Range
  <2> QED BY <1>5, <2>1 DEF Poll, Round, Types
<1>6. CASE ServeDone
  BY <1>6 DEF ServeDone, Round, Types
<1>7. CASE AcceptFails
  BY <1>7 DEF AcceptFails, Round, Types
<1>8. ASSUME NEW fd \in Fds, Accept(fd) PROVE Round'
  BY <1>8 DEF Accept, Round, Types
<1>9. ASSUME NEW fd \in Fds, ReadEnd(fd) PROVE Round'
  <2>1. fd \in mConnections
    BY <1>9, RtspConstants DEF ReadEnd, Round
  <2> QED BY <1>9, <2>1, Reported DEF ReadEnd, MayReport, Round
<1>10. ASSUME NEW fd \in Fds, Request(fd) PROVE Round'
  BY <1>10, Requests, Reported DEF Served, Round
<1>11. CASE SendBegin \/ SendNext
  BY <1>11 DEF SendBegin, SendNext, Round
<1>12. ASSUME NEW fd \in Fds, OtherOpens(fd) \/ OtherCloses(fd) \/ PeerCloses(fd) PROVE Round'
  BY <1>12 DEF OtherOpens, OtherCloses, PeerCloses, Round
<1>13. CASE UNCHANGED vars
  BY <1>13 DEF vars, Round
<1> QED BY <1>1, <1>2, <1>3, <1>4, <1>5, <1>6, <1>7, <1>8, <1>9, <1>10, <1>11, <1>12, <1>13
        DEF Next, Loop, Sender, Others

\* within its types.
LEMMA TypesStep == ASSUME Types, Round, Walk, [Next]_vars PROVE Types'
<1> USE DEF fdVars, sender, history, instVars
<1>1. CASE NoTrigger \/ TriggersDone \/ Poll \/ ServeDone \/ AcceptFails \/ BeginDelete
  <2>1. /\ loop' \in {"triggers", "deleting", "poll", "serve"} /\ ready' \subseteq Fds \cup {Acceptor}
        /\ mTriggerEvents' \in {0, mTriggerEvents}
    BY <1>1 DEF NoTrigger, TriggersDone, Poll, ServeDone, AcceptFails, BeginDelete, Types
  <2>2. crashed' \in {crashed, "assert"}
    BY <1>1 DEF NoTrigger, TriggersDone, Poll, ServeDone, AcceptFails, BeginDelete
  <2> QED BY <1>1, <2>1, <2>2
          DEF NoTrigger, TriggersDone, Poll, ServeDone, AcceptFails, BeginDelete, Types
<1>2. ASSUME NEW t \in Tracks, NEW i \in Insts, Deleted(t, i) PROVE Types'
  <2>1. mRtpInstances' \in Seq(Insts) /\ Len(mRtpInstances') <= MaxListed
    <3>1. CASE Unlisted(i)
      <4>1. PICK k \in DOMAIN mRtpInstances : mRtpInstances' = RemoveAt(mRtpInstances, k)
        BY <3>1 DEF Unlisted
      <4>2. /\ mRtpInstances' \in Seq(Insts) /\ Len(mRtpInstances') = Len(mRtpInstances) - 1
            /\ Len(mRtpInstances) \in Nat
        BY <4>1, OneRemoved DEF Types
      <4> QED BY <4>2, RtspConstants DEF Types
    <3> QED BY <1>2, <3>1 DEF Deleted, Types
  <2>2. at' \in 0 .. MaxListed /\ stale' \in BOOLEAN /\ overlapped' \in BOOLEAN
    <3>1. CASE Unlisted(i)
      <4>1. PICK k \in DOMAIN mRtpInstances : /\ at' = IF at > k THEN at - 1 ELSE at
                                              /\ stale' = (stale \/ at = k)
                                              /\ overlapped' = (overlapped \/ at = k)
        BY <3>1 DEF Unlisted
      <4>2. k \in 1 .. Len(mRtpInstances) /\ Len(mRtpInstances) \in Nat
        BY DEF Types
      <4> QED BY <4>1, <4>2, RtspConstants DEF Types
    <3> QED BY <1>2, <3>1 DEF Deleted, Types
  <2>3. kernel' \in [Fds -> {"closed", "conn", "other"}]
    BY <1>2 DEF Deleted, Types
  <2>4. crashed' \in {"no", "assert", "session", "play", "sender", "pipe"}
    BY <1>2 DEF Deleted, Types
  <2>5. undescribed' \in 0 .. MaxLeft
    BY <1>2, RtspConstants DEF Deleted, Types
  <2>6. conns' \in [Fds -> Conn]
    BY <1>2 DEF Deleted, Types
  <2>7. allocated' \subseteq Insts /\ doubled' \in BOOLEAN
    BY <1>2 DEF Deleted, Types
  <2> QED BY <1>2, <2>1, <2>2, <2>3, <2>4, <2>5, <2>6, <2>7 DEF Deleted, Types
<1>3. CASE EndDelete
  <2>1. mDisconnectionlist' \in Seq(Fds) /\ Fresh \in Conn
    BY <1>3, TailRest DEF EndDelete, Erased, Types, Round, Fresh, Conn
  <2>2. conns' \in [Fds -> Conn] /\ kernel' \in [Fds -> {"closed", "conn", "other"}]
        /\ peer' \in [Fds -> {"up", "down"}]
    BY <1>3, <2>1 DEF EndDelete, Types
  <2> QED BY <1>3, <2>1, <2>2 DEF EndDelete, Types
<1>4. ASSUME NEW fd \in Fds, Accept(fd) PROVE Types'
  <2>1. Fresh \in Conn
    BY DEF Fresh, Conn
  <2>2. conns' \in [Fds -> Conn]
    BY <1>4, <2>1 DEF Accept, Types
  <2> QED BY <1>4, <2>2 DEF Accept, Types
<1>5. ASSUME NEW fd \in Fds, ReadEnd(fd) PROVE Types'
  <2>1. fd \in mConnections
    BY <1>5, RtspConstants DEF ReadEnd, Round
  <2>2. mDisconnectionlist' \in Seq(Fds) /\ mTriggerEvents' \in Nat
    BY <1>5, <2>1, Reported DEF ReadEnd, MayReport, Round
  <2> QED BY <1>5, <2>2 DEF ReadEnd, Types
<1>6. ASSUME NEW fd \in Fds, Request(fd) PROVE Types'
  <2>1. Served(fd)
    BY <1>6, Requests
  <2>2. mDisconnectionlist' \in Seq(Fds) /\ mTriggerEvents' \in Nat
    BY <2>1, Reported DEF Served, Round
  <2>3. conns' \in [Fds -> Conn]
    BY <2>1 DEF Served, Types
  <2>4. mRtpInstances' \in Seq(Insts) /\ Len(mRtpInstances') <= MaxListed /\ allocated' \subseteq Insts
    <3>1. mRtpInstances \in Seq(Insts) /\ Len(mRtpInstances) \in Nat
      BY DEF Types
    <3>2. CASE UNCHANGED <<mRtpInstances, allocated>>
      BY <3>2 DEF Types
    <3>3. ASSUME NEW i \in Insts, NEW t \in Tracks, NEW c, Gains(fd, c, t, i)
          PROVE  mRtpInstances' \in Seq(Insts) /\ Len(mRtpInstances') <= MaxListed
                 /\ allocated' \subseteq Insts
      BY <3>1, <3>3, RtspConstants DEF Types, Gains
    <3> QED BY <2>1, <3>2, <3>3 DEF Served
  <2>5. crashed' \in {"no", "assert", "session", "play", "sender", "pipe"}
    BY <2>1 DEF Served, Types
  <2> QED BY <2>1, <2>2, <2>3, <2>4, <2>5 DEF Served, Types
<1>7. CASE SendBegin
  <2>1. at' = 1 /\ 1 <= MaxListed
    BY <1>7, RtspConstants DEF SendBegin, Types
  <2>2. at' \in 0 .. MaxListed
    BY <2>1, RtspConstants
  <2> QED BY <1>7, <2>2 DEF SendBegin, Types
<1>8. CASE SendNext
  <2>1. at' \in 0 .. MaxListed
    BY <1>8, RtspConstants DEF SendNext, NextNode, Types
  <2>2. stale' \in BOOLEAN /\ crashed' \in {"no", "assert", "session", "play", "sender", "pipe"}
    BY <1>8 DEF SendNext, Types
  <2> QED BY <1>8, <2>1, <2>2 DEF SendNext, Types
<1>9. ASSUME NEW fd \in Fds, OtherOpens(fd) \/ OtherCloses(fd) \/ PeerCloses(fd) PROVE Types'
  <2>1. CASE OtherOpens(fd)
    BY <2>1 DEF OtherOpens, Types
  <2>2. CASE OtherCloses(fd)
    BY <2>2 DEF OtherCloses, Types
  <2>3. CASE PeerCloses(fd)
    BY <2>3 DEF PeerCloses, Types
  <2> QED BY <1>9, <2>1, <2>2, <2>3
<1>10. CASE UNCHANGED vars
  BY <1>10 DEF vars, Types
<1> QED BY <1>1, <1>2, <1>3, <1>4, <1>5, <1>6, <1>7, <1>8, <1>9, <1>10, Deletions
        DEF Next, Loop, Sender, Others
-----------------------------------------------------------------------------
(* Instances, the sender and the descriptors *)

\* Each connection has its own instances,
LEMMA HoldingsStep == ASSUME Types, Round, Holdings, [Next]_vars PROVE Holdings'
<1> USE DEF fdVars, sender, history, instVars
<1>0. conns \in [Fds -> Conn] /\ mConnections \subseteq Fds /\ NoInst \notin Insts
  BY RtspConstants DEF Types
<1>1. ASSUME NEW t \in Tracks, NEW i \in Insts, Deleted(t, i) PROVE Holdings'
  <2>1. PICK c \in Conn : /\ conns' = [conns EXCEPT ![Doomed] = c]
                          /\ c.inst = [conns[Doomed].inst EXCEPT ![t] = NoInst]
    BY <1>1 DEF Deleted
  <2>2. /\ Doomed \in mConnections /\ conns[Doomed].inst[t] = i /\ allocated' = allocated \ {i}
        /\ mConnections' = mConnections
    BY <1>1 DEF Deleted
  <2>3. conns[Doomed].inst \in [Tracks -> Insts \cup {NoInst}]
    BY <1>0, <2>2 DEF Conn
  <2>4. \A fd \in Fds, u \in Tracks :
           conns'[fd].inst[u] = IF fd = Doomed /\ u = t THEN NoInst ELSE conns[fd].inst[u]
    BY <1>0, <2>1, <2>2, <2>3
  <2>5. \A fd \in Fds, u \in Tracks : conns[fd].inst[u] = i => fd = Doomed /\ u = t
    BY <1>0, <2>2 DEF Holdings
  <2>6. \A fd \in Fds \ mConnections' : conns'[fd] = Fresh
    BY <1>0, <2>1, <2>2 DEF Holdings
  <2>7. \A fd, gd \in Fds, u, v \in Tracks :
          conns'[fd].inst[u] = conns'[gd].inst[v] => conns'[fd].inst[u] = NoInst \/ (fd = gd /\ u = v)
    BY <2>4 DEF Holdings
  <2>8. \A fd \in Fds, u \in Tracks : conns'[fd].inst[u] # NoInst => conns'[fd].inst[u] \in allocated'
    BY <2>2, <2>4, <2>5 DEF Holdings
  <2>9. \A j \in allocated' : \E fd \in Fds, u \in Tracks : conns'[fd].inst[u] = j
    <3>1. ASSUME NEW j \in allocated' PROVE \E fd \in Fds, u \in Tracks : conns'[fd].inst[u] = j
      <4>1. j \in allocated /\ j # i
        BY <2>2
      <4>2. PICK fd \in Fds, u \in Tracks : conns[fd].inst[u] = j
        BY <4>1 DEF Holdings
      <4> QED BY <2>2, <2>4, <4>1, <4>2
    <3> QED BY <3>1
  <2> QED BY <2>6, <2>7, <2>8, <2>9 DEF Holdings
<1>2. CASE EndDelete
  <2>1. /\ allocated' = allocated /\ Held(Doomed) = {}
        /\ mConnections' = mConnections \ {Doomed} /\ conns' = [conns EXCEPT ![Doomed] = Fresh]
    BY <1>2 DEF EndDelete, Doomed
  <2>2. \A u \in Tracks : conns[Doomed].inst[u] = NoInst
    BY <2>1 DEF Held
  <2>3. \A fd \in Fds, u \in Tracks : conns'[fd].inst[u] = conns[fd].inst[u]
    BY <1>0, <2>1, <2>2 DEF Fresh
  <2>4. \A fd \in Fds \ mConnections' : conns'[fd] = Fresh
    BY <1>0, <2>1 DEF Holdings
  <2> QED BY <2>1, <2>3, <2>4 DEF Holdings
<1>3. ASSUME NEW fd \in Fds, Accept(fd) PROVE Holdings'
  <2>1. /\ allocated' = allocated /\ mConnections' = mConnections \cup {fd}
        /\ conns' = IF fd \in mConnections THEN conns ELSE [conns EXCEPT ![fd] = Fresh]
    BY <1>3 DEF Accept
  <2>2. conns' = conns
    BY <1>0, <2>1 DEF Holdings
  <2> QED BY <2>1, <2>2 DEF Holdings
<1>4. ASSUME NEW fd \in Fds, Request(fd) PROVE Holdings'
  <2>1. Served(fd)
    BY <1>4, Requests
  <2>2. PICK c \in Conn :
         /\ conns' = [conns EXCEPT ![fd] = c]
         /\ \/ c.inst = conns[fd].inst /\ UNCHANGED <<mRtpInstances, allocated>>
            \/ \E t \in Tracks, i \in Insts \ allocated : Gains(fd, c, t, i)
    BY <2>1 DEF Served
  <2>3. fd \in mConnections /\ mConnections' = mConnections
    BY <2>1 DEF Served
  <2>4. \A gd \in Fds \ mConnections' : conns'[gd] = Fresh
    BY <1>0, <2>2, <2>3 DEF Holdings
  <2>5. CASE c.inst = conns[fd].inst /\ allocated' = allocated
    <3>1. \A gd \in Fds, u \in Tracks : conns'[gd].inst[u] = conns[gd].inst[u]
      BY <1>0, <2>2, <2>5
    <3>2. /\ \A gd, hd \in Fds, u, v \in Tracks :
             conns'[gd].inst[u] = conns'[hd].inst[v] => conns'[gd].inst[u] = NoInst \/ (gd = hd /\ u = v)
          /\ \A gd \in Fds, u \in Tracks : conns'[gd].inst[u] # NoInst => conns'[gd].inst[u] \in allocated'
      BY <2>5, <3>1 DEF Holdings
    <3>3. \A j \in allocated' : \E gd \in Fds, u \in Tracks : conns'[gd].inst[u] = j
      BY <2>5, <3>1 DEF Holdings
    <3> QED BY <2>4, <3>2, <3>3 DEF Holdings
  <2>6. ASSUME NEW t \in Tracks, NEW i \in Insts \ allocated, Gains(fd, c, t, i) PROVE Holdings'
    <3>1. conns[fd].inst \in [Tracks -> Insts \cup {NoInst}]
      BY <1>0 DEF Conn
    <3>2. \A gd \in Fds, u \in Tracks :
             conns'[gd].inst[u] = IF gd = fd /\ u = t THEN i ELSE conns[gd].inst[u]
      BY <1>0, <2>2, <2>6, <3>1 DEF Gains
    <3>3. conns[fd].inst[t] = NoInst /\ allocated' = allocated \cup {i}
      BY <2>6 DEF Gains
    <3>4. \A gd \in Fds, u \in Tracks : conns[gd].inst[u] # i
      BY <1>0, <2>6 DEF Holdings
    <3>5. \A gd, hd \in Fds, u, v \in Tracks :
          conns'[gd].inst[u] = conns'[hd].inst[v] => conns'[gd].inst[u] = NoInst \/ (gd = hd /\ u = v)
      BY <3>2, <3>4 DEF Holdings
    <3>6. \A gd \in Fds, u \in Tracks : conns'[gd].inst[u] # NoInst => conns'[gd].inst[u] \in allocated'
      BY <3>2, <3>3 DEF Holdings
    <3>7. \A j \in allocated' : \E gd \in Fds, u \in Tracks : conns'[gd].inst[u] = j
      <4>1. ASSUME NEW j \in allocated' PROVE \E gd \in Fds, u \in Tracks : conns'[gd].inst[u] = j
        <5>1. CASE j = i
          BY <3>2, <5>1
        <5>2. CASE j \in allocated
          <6>1. PICK gd \in Fds, u \in Tracks : conns[gd].inst[u] = j
            BY <5>2 DEF Holdings
          <6>2. j # NoInst
            BY <1>0, <5>2 DEF Types
          <6> QED BY <3>2, <3>3, <6>1, <6>2
        <5> QED BY <3>3, <5>1, <5>2
      <4> QED BY <4>1
    <3> QED BY <2>4, <3>5, <3>6, <3>7 DEF Holdings
  <2> QED BY <2>2, <2>5, <2>6
<1>5. ASSUME UNCHANGED <<mConnections, conns, allocated>> PROVE Holdings'
  BY <1>5 DEF Holdings
<1>6. CASE NoTrigger \/ BeginDelete \/ TriggersDone \/ Poll \/ ServeDone \/ AcceptFails \/ SendBegin \/ SendNext
  BY <1>5, <1>6 DEF NoTrigger, BeginDelete, TriggersDone, Poll, ServeDone, AcceptFails, SendBegin, SendNext
<1>7. ASSUME NEW fd \in Fds, ReadEnd(fd) \/ OtherOpens(fd) \/ OtherCloses(fd) \/ PeerCloses(fd) PROVE Holdings'
  BY <1>5, <1>7 DEF ReadEnd, OtherOpens, OtherCloses, PeerCloses
<1>8. CASE UNCHANGED vars
  BY <1>5, <1>8 DEF vars
<1> QED BY <1>1, <1>2, <1>3, <1>4, <1>6, <1>7, <1>8, Deletions DEF Next, Loop, Sender, Others

\* and the list has those of the live track.
LEMMA ListedStep == ASSUME Types, Round, Holdings, Listed, [Next]_vars PROVE Listed'
<1> USE DEF fdVars, sender, history, instVars
<1>0. conns \in [Fds -> Conn] /\ mConnections \subseteq Fds /\ NoInst \notin Insts
      /\ mRtpInstances \in Seq(Insts) /\ undescribed \in Nat /\ LiveTrack \in Tracks
  BY RtspConstants DEF Types, LiveTrack, Tracks
<1>1. ASSUME NEW t \in Tracks, NEW i \in Insts, Deleted(t, i), undescribed' = 0
      PROVE  /\ IsInjective(mRtpInstances)'
             /\ \A j \in Insts : j \in Range(mRtpInstances') <=> \E fd \in Fds : conns'[fd].inst[LiveTrack] = j
  <2>1. PICK c \in Conn : /\ conns' = [conns EXCEPT ![Doomed] = c]
                          /\ c.inst = [conns[Doomed].inst EXCEPT ![t] = NoInst]
    BY <1>1 DEF Deleted
  <2>2. Doomed \in mConnections /\ conns[Doomed].inst[t] = i
    BY <1>1 DEF Deleted
  <2>3. conns[Doomed].inst \in [Tracks -> Insts \cup {NoInst}]
    BY <1>0, <2>2 DEF Conn
  <2>4. \A fd \in Fds, u \in Tracks :
           conns'[fd].inst[u] = IF fd = Doomed /\ u = t THEN NoInst ELSE conns[fd].inst[u]
    BY <1>0, <2>1, <2>2, <2>3
  <2>5. \A fd \in Fds, u \in Tracks : conns[fd].inst[u] = i => fd = Doomed /\ u = t
    BY <1>0, <2>2 DEF Holdings
  <2>6. /\ undescribed = 0
        /\ Unlisted(i) \/ (i \notin Range(mRtpInstances) /\ UNCHANGED mRtpInstances)
    BY <1>0, <1>1 DEF Deleted
  <2>7. /\ IsInjective(mRtpInstances)
        /\ \A j \in Insts : j \in Range(mRtpInstances) <=> \E fd \in Fds : conns[fd].inst[LiveTrack] = j
    BY <2>6 DEF Listed
  <2>8. IsInjective(mRtpInstances)' /\ Range(mRtpInstances') = Range(mRtpInstances) \ {i}
    <3>1. CASE Unlisted(i)
      <4>1. PICK k \in DOMAIN mRtpInstances : mRtpInstances[k] = i /\ mRtpInstances' = RemoveAt(mRtpInstances, k)
        BY <3>1 DEF Unlisted
      <4> QED BY <1>0, <2>7, <4>1, OneRemoved
    <3>2. CASE i \notin Range(mRtpInstances) /\ UNCHANGED mRtpInstances
      BY <2>7, <3>2
    <3> QED BY <2>6, <3>1, <3>2
  <2>9. ASSUME NEW j \in Insts
        PROVE  j \in Range(mRtpInstances) \ {i} <=> \E fd \in Fds : conns'[fd].inst[LiveTrack] = j
    <3>1. CASE j = i
      BY <1>0, <2>4, <2>5, <3>1
    <3>2. CASE j # i
      <4>1. \A fd \in Fds : conns'[fd].inst[LiveTrack] = j <=> conns[fd].inst[LiveTrack] = j
        BY <1>0, <2>2, <2>4, <3>2
      <4> QED BY <2>7, <3>2, <4>1
    <3> QED BY <3>1, <3>2
  <2> QED BY <2>8, <2>9
<1>2. CASE EndDelete
  <2>1. /\ UNCHANGED <<mRtpInstances, undescribed>> /\ Held(Doomed) = {}
        /\ conns' = [conns EXCEPT ![Doomed] = Fresh]
    BY <1>2 DEF EndDelete, Doomed
  <2>2. \A u \in Tracks : conns[Doomed].inst[u] = NoInst
    BY <2>1 DEF Held
  <2>3. \A fd \in Fds, u \in Tracks : conns'[fd].inst[u] = conns[fd].inst[u]
    BY <1>0, <2>1, <2>2 DEF Fresh
  <2> QED BY <1>0, <2>1, <2>3 DEF Listed
<1>3. ASSUME NEW fd \in Fds, Accept(fd) PROVE Listed'
  <2>1. /\ UNCHANGED <<mRtpInstances, undescribed>>
        /\ conns' = IF fd \in mConnections THEN conns ELSE [conns EXCEPT ![fd] = Fresh]
    BY <1>3 DEF Accept
  <2>2. conns' = conns
    BY <1>0, <2>1 DEF Holdings
  <2> QED BY <2>1, <2>2 DEF Listed
<1>4. ASSUME NEW fd \in Fds, Request(fd) PROVE Listed'
  <2>1. Served(fd)
    BY <1>4, Requests
  <2>2. PICK c \in Conn :
         /\ conns' = [conns EXCEPT ![fd] = c]
         /\ \/ c.inst = conns[fd].inst /\ UNCHANGED <<mRtpInstances, allocated>>
            \/ \E t \in Tracks, i \in Insts \ allocated : Gains(fd, c, t, i)
    BY <2>1 DEF Served
  <2>3. undescribed' = undescribed
    BY <2>1 DEF Served
  <2>4. CASE c.inst = conns[fd].inst /\ UNCHANGED mRtpInstances
    <3>1. \A gd \in Fds, u \in Tracks : conns'[gd].inst[u] = conns[gd].inst[u]
      BY <1>0, <2>2, <2>4
    <3> QED BY <1>0, <2>3, <2>4, <3>1 DEF Listed
  <2>5. ASSUME NEW t \in Tracks, NEW i \in Insts \ allocated, Gains(fd, c, t, i), undescribed = 0
        PROVE  /\ IsInjective(mRtpInstances)'
               /\ \A j \in Insts : j \in Range(mRtpInstances') <=> \E gd \in Fds : conns'[gd].inst[LiveTrack] = j
    <3>1. conns[fd].inst \in [Tracks -> Insts \cup {NoInst}]
      BY <1>0 DEF Conn
    <3>2. \A gd \in Fds, u \in Tracks :
             conns'[gd].inst[u] = IF gd = fd /\ u = t THEN i ELSE conns[gd].inst[u]
      BY <1>0, <2>2, <2>5, <3>1 DEF Gains
    <3>3. /\ conns[fd].inst[t] = NoInst
          /\ mRtpInstances' = IF t = LiveTrack THEN Append(mRtpInstances, i) ELSE mRtpInstances
      BY <2>5 DEF Gains
    <3>4. \A gd \in Fds, u \in Tracks : conns[gd].inst[u] # i
      BY <1>0, <2>5 DEF Holdings
    <3>5. /\ IsInjective(mRtpInstances)
          /\ \A j \in Insts : j \in Range(mRtpInstances) <=> \E gd \in Fds : conns[gd].inst[LiveTrack] = j
      BY <2>5 DEF Listed
    <3>6. CASE t = LiveTrack
      <4>1. i \notin Range(mRtpInstances)
        BY <1>0, <3>4, <3>5
      <4>2. IsInjective(mRtpInstances)' /\ Range(mRtpInstances') = Range(mRtpInstances) \cup {i}
        BY <1>0, <3>3, <3>5, <3>6, <4>1, AppendNew
      <4>3. ASSUME NEW j \in Insts
            PROVE  j \in Range(mRtpInstances') <=> \E gd \in Fds : conns'[gd].inst[LiveTrack] = j
        <5>1. CASE j = i
          BY <1>0, <3>2, <3>6, <4>2, <5>1
        <5>2. CASE j # i
          <6>1. \A gd \in Fds : conns'[gd].inst[LiveTrack] = j <=> conns[gd].inst[LiveTrack] = j
            BY <1>0, <3>2, <3>3, <3>6, <5>2
          <6> QED BY <3>5, <4>2, <5>2, <6>1
        <5> QED BY <5>1, <5>2
      <4> QED BY <4>2, <4>3
    <3>7. CASE t # LiveTrack
      <4>1. \A gd \in Fds : conns'[gd].inst[LiveTrack] = conns[gd].inst[LiveTrack]
        BY <1>0, <3>2, <3>7
      <4> QED BY <3>3, <3>5, <3>7, <4>1
    <3> QED BY <3>6, <3>7
  <2> QED BY <2>2, <2>3, <2>4, <2>5 DEF Listed
<1>5. ASSUME UNCHANGED <<conns, mRtpInstances, undescribed>> PROVE Listed'
  BY <1>5 DEF Listed
<1>6. CASE NoTrigger \/ BeginDelete \/ TriggersDone \/ Poll \/ ServeDone \/ AcceptFails \/ SendBegin \/ SendNext
  BY <1>5, <1>6 DEF NoTrigger, BeginDelete, TriggersDone, Poll, ServeDone, AcceptFails, SendBegin, SendNext
<1>7. ASSUME NEW fd \in Fds, ReadEnd(fd) \/ OtherOpens(fd) \/ OtherCloses(fd) \/ PeerCloses(fd) PROVE Listed'
  BY <1>5, <1>7 DEF ReadEnd, OtherOpens, OtherCloses, PeerCloses
<1>8. CASE UNCHANGED vars
  BY <1>5, <1>8 DEF vars
<1>9. CASE DeleteInstance
  <2>1. PICK t \in Tracks, i \in Insts : Deleted(t, i)
    BY <1>9, Deletions
  <2> QED BY <1>1, <2>1 DEF Listed
<1> QED BY <1>2, <1>3, <1>4, <1>6, <1>7, <1>8, <1>9 DEF Next, Loop, Sender, Others

\* A node freed under the sender is known to be.
LEMMA WalkStep ==
    ASSUME Types, Round, Holdings, Listed, Walk, FaultsExplained, [Next]_vars
    PROVE  Walk' /\ FaultsExplained'
<1> USE DEF fdVars, sender, history, instVars
<1>1. ASSUME NEW t \in Tracks, NEW i \in Insts, Deleted(t, i) PROVE Walk' /\ FaultsExplained'
  <2>1. mRtpInstances \in Seq(Insts) /\ Len(mRtpInstances) \in Nat /\ undescribed \in Nat
    BY RtspConstants DEF Types
  <2>2. ASSUME Unlisted(i), UNCHANGED <<undescribed, crashed>> PROVE Walk' /\ FaultsExplained'
    <3>1. PICK k \in DOMAIN mRtpInstances :
         /\ mRtpInstances[k] = i
         /\ mRtpInstances' = RemoveAt(mRtpInstances, k)
         /\ at' = IF at > k THEN at - 1 ELSE at
         /\ stale' = (stale \/ at = k)
         /\ overlapped' = (overlapped \/ at = k)
      BY <2>2 DEF Unlisted
    <3>2. Len(mRtpInstances') = Len(mRtpInstances) - 1 /\ k \in 1 .. Len(mRtpInstances)
      BY <2>1, <3>1, OneRemoved
    <3>3. (at' > Len(mRtpInstances') => stale') /\ (stale' => overlapped' /\ at' # 0)
      <4>1. at \in Nat /\ k \in Nat /\ overlapped \in BOOLEAN
        BY <2>1, <3>2, RtspConstants DEF Types
      <4>2. (at > Len(mRtpInstances) => stale) /\ (stale => overlapped /\ at # 0)
        BY DEF Walk
      <4>3. at' > Len(mRtpInstances') => at > Len(mRtpInstances) \/ at = k
        BY <2>1, <3>1, <3>2, <4>1
      <4>4. (at # 0 => at' # 0) /\ (at = k => at' # 0)
        BY <2>1, <3>1, <3>2, <4>1
      <4> QED BY <3>1, <4>2, <4>3, <4>4, Zenon
    <3>4. FaultsExplained'
      BY <2>2, <3>1 DEF FaultsExplained, Types
    <3> QED BY <3>3, <3>4 DEF Walk
  <2>3. ASSUME UNCHANGED <<mRtpInstances, at, stale, overlapped, undescribed, crashed>>
        PROVE  Walk' /\ FaultsExplained'
    BY <2>3 DEF Walk, FaultsExplained
  <2>4. ASSUME UNCHANGED <<mRtpInstances, at, stale, overlapped>>, undescribed' = undescribed + 1,
               crashed' \in {"no", "session"}
        PROVE  Walk' /\ FaultsExplained'
    BY <2>1, <2>4 DEF Walk, FaultsExplained
  <2> QED BY <1>1, <2>2, <2>3, <2>4 DEF Deleted
<1>2. CASE SendBegin
  <2>1. Len(mRtpInstances) >= 1 /\ Len(mRtpInstances) \in Nat
    BY <1>2 DEF SendBegin, Types
  <2> QED BY <1>2, <2>1 DEF SendBegin, Walk, FaultsExplained, Types
<1>3. CASE SendNext
  <2>1. Len(mRtpInstances) \in Nat /\ at \in Nat /\ DOMAIN mRtpInstances = 1 .. Len(mRtpInstances)
    BY RtspConstants DEF Types
  <2>2. CASE stale \/ at > Len(mRtpInstances)
    <3>1. stale /\ overlapped /\ at' = 0 /\ stale' = FALSE
      BY <1>3, <2>2 DEF SendNext, Walk
    <3>2. /\ UNCHANGED <<mRtpInstances, allocated, undescribed>>
          /\ overlapped' = (overlapped /\ crashed' = "sender") /\ crashed' \in {"no", "sender"}
      BY <1>3, <2>2 DEF SendNext
    <3>3. Walk'
      BY <2>1, <3>1, <3>2 DEF Walk
    <3>4. CASE crashed' = "sender"
      <4>1. overlapped'
        BY <3>1, <3>2, <3>4
      <4> QED BY <3>3, <3>4, <4>1 DEF FaultsExplained
    <3>5. CASE crashed' = "no"
      BY <3>3, <3>5 DEF FaultsExplained
    <3> QED BY <3>2, <3>4, <3>5
  <2>3. CASE ~(stale \/ at > Len(mRtpInstances))
    <3>1. /\ at' = NextNode(at) /\ stale' = FALSE /\ at # 0
          /\ \/ crashed' \in {crashed, "pipe"}
             \/ mRtpInstances[at] \notin allocated /\ crashed' = "sender"
          /\ UNCHANGED <<mRtpInstances, allocated, overlapped, undescribed>>
      BY <1>3, <2>3 DEF SendNext
    <3>2. at' <= Len(mRtpInstances)
      BY <2>1, <2>3, <3>1 DEF NextNode
    <3>3. mRtpInstances[at] \notin allocated => undescribed > 0
      <4>1. at \in DOMAIN mRtpInstances /\ mRtpInstances[at] \in Insts
        BY <2>1, <2>3, <3>1 DEF Types
      <4>2. mRtpInstances[at] \in Range(mRtpInstances)
        BY <4>1 DEF Range
      <4>3. undescribed = 0 => mRtpInstances[at] \in allocated
        BY <4>1, <4>2, RtspConstants DEF Listed, Holdings, LiveTrack, Tracks
      <4>4. undescribed \in Nat
        BY RtspConstants DEF Types
      <4> QED BY <4>3, <4>4
    <3>4. at' \in Nat
      BY <2>1, <3>1 DEF NextNode
    <3> QED BY <2>1, <3>1, <3>2, <3>3, <3>4 DEF Walk, FaultsExplained
  <2> QED BY <2>2, <2>3
<1>4. ASSUME NEW fd \in Fds, Request(fd) PROVE Walk' /\ FaultsExplained'
  <2>1. Served(fd)
    BY <1>4, Requests
  <2>2. UNCHANGED <<at, stale, overlapped, undescribed>> /\ crashed' \in {crashed, "play", "pipe"}
        /\ mRtpInstances \in Seq(Insts)
    BY <2>1 DEF Served, Types
  <2>3. FaultsExplained'
    BY <2>2 DEF FaultsExplained
  <2>4. CASE UNCHANGED mRtpInstances
    BY <2>2, <2>3, <2>4 DEF Walk
  <2>5. ASSUME NEW t \in Tracks, NEW i \in Insts, NEW c, Gains(fd, c, t, i) PROVE Walk'
    <3>1. Len(mRtpInstances') \in {Len(mRtpInstances), Len(mRtpInstances) + 1}
          /\ Len(mRtpInstances) \in Nat /\ at \in Nat
      BY <2>2, <2>5, RtspConstants DEF Types, Gains
    <3> QED BY <2>2, <3>1 DEF Walk
  <2> QED BY <2>1, <2>3, <2>4, <2>5 DEF Served
<1>5. ASSUME UNCHANGED <<mRtpInstances, at, stale, overlapped, undescribed, crashed>>
      PROVE  Walk' /\ FaultsExplained'
  BY <1>5 DEF Walk, FaultsExplained
<1>6. CASE NoTrigger \/ BeginDelete \/ EndDelete \/ TriggersDone \/ Poll \/ ServeDone \/ AcceptFails
  <2>1. CASE BeginDelete
    <3>1. UNCHANGED <<mRtpInstances, at, stale, overlapped, undescribed>> /\ crashed' \in {crashed, "assert"}
      BY <2>1 DEF BeginDelete
    <3> QED BY <3>1 DEF Walk, FaultsExplained
  <2> QED BY <1>5, <1>6, <2>1 DEF NoTrigger, EndDelete, TriggersDone, Poll, ServeDone, AcceptFails
<1>7. ASSUME NEW fd \in Fds, \/ Accept(fd) \/ ReadEnd(fd)
                             \/ OtherOpens(fd) \/ OtherCloses(fd) \/ PeerCloses(fd)
      PROVE  Walk' /\ FaultsExplained'
  BY <1>5, <1>7 DEF Accept, ReadEnd, OtherOpens, OtherCloses, PeerCloses
<1>8. CASE UNCHANGED vars
  BY <1>5, <1>8 DEF vars
<1> QED BY <1>1, <1>2, <1>3, <1>4, <1>6, <1>7, <1>8, Deletions DEF Next, Loop, Sender, Others

\* Descriptors change hands only when they are closed.
LEMMA OneOwnerStep == ASSUME Types, Round, OneOwner, [Next]_vars PROVE OneOwner'
<1> USE DEF fdVars, sender, history, instVars
<1>1. CASE BeginDelete
  BY <1>1 DEF BeginDelete, OneOwner
<1>0. ASSUME NEW t \in Tracks, NEW i \in Insts, Deleted(t, i) PROVE OneOwner'
  <2>1. UNCHANGED <<mConnections, theirs>>
    BY <1>0 DEF Deleted
  <2>2. CASE doubled' = TRUE
    BY <2>2 DEF OneOwner
  <2>3. CASE doubled' = doubled /\ kernel' = kernel
    BY <2>1, <2>3 DEF OneOwner
  <2>4. doubled' = TRUE \/ (doubled' = doubled /\ kernel' = kernel)
    BY <1>0, Zenon DEF Deleted
  <2> QED BY <2>2, <2>3, <2>4
<1>2. CASE EndDelete
  <2>1. /\ Doomed \in mConnections /\ kernel' = [kernel EXCEPT ![Doomed] = "closed"]
        /\ mConnections' = mConnections \ {Doomed} /\ UNCHANGED <<theirs, doubled>>
    BY <1>2, TailRest DEF EndDelete, Doomed, Types, Round
  <2> QED BY <2>1 DEF OneOwner, Types
<1>3. ASSUME NEW fd \in Fds, Accept(fd) \/ OtherOpens(fd) \/ OtherCloses(fd) PROVE OneOwner'
  BY <1>3 DEF Accept, OtherOpens, OtherCloses, OneOwner, Types
<1>4. ASSUME UNCHANGED <<mConnections, kernel, theirs, doubled>> PROVE OneOwner'
  BY <1>4 DEF OneOwner
<1>5. ASSUME NEW fd \in Fds, Request(fd) \/ ReadEnd(fd) \/ PeerCloses(fd) PROVE OneOwner'
  BY <1>4, <1>5, Requests DEF Served, ReadEnd, PeerCloses
<1>6. CASE NoTrigger \/ TriggersDone \/ Poll \/ ServeDone \/ AcceptFails \/ SendBegin \/ SendNext
  BY <1>4, <1>6 DEF NoTrigger, TriggersDone, Poll, ServeDone, AcceptFails, SendBegin, SendNext
<1>7. CASE UNCHANGED vars
  BY <1>4, <1>7 DEF vars
<1> QED BY <1>0, <1>1, <1>2, <1>3, <1>5, <1>6, <1>7, Deletions DEF Next, Loop, Sender, Others

\* Nobody is connected yet.
LEMMA InitInv == Init => IInv
<1> SUFFICES ASSUME Init PROVE IInv
  OBVIOUS
<1>1. Range(<<>>) = {} /\ IsInjective(<<>>) /\ Len(<<>>) = 0 /\ Fresh \in Conn
      /\ \A t \in Tracks : Fresh.inst[t] = NoInst
  BY DEF Range, IsInjective, Fresh, Conn
<1>2. Types
  <2>1. mDisconnectionlist \in Seq(Fds) /\ mRtpInstances \in Seq(Insts) /\ Len(mRtpInstances) <= MaxListed
    BY <1>1, RtspConstants DEF Init
  <2>2. at \in 0 .. MaxListed /\ mTriggerEvents \in Nat
    BY RtspConstants DEF Init
  <2>3. conns \in [Fds -> Conn] /\ alive \in [Insts -> BOOLEAN] /\ peer \in [Fds -> {"up", "down"}]
        /\ mRtpType \in [Insts -> {"udp", "tcp"}] /\ undescribed \in 0 .. MaxLeft
        /\ kernel \in [Fds -> {"closed", "conn", "other"}]
    BY <1>1, RtspConstants DEF Init
  <2> QED BY <2>1, <2>2, <2>3 DEF Init, Types
<1>3. Round
  <2>1. Cardinality(Fds) \in Nat
    BY FS_CardinalityType, RtspConstants
  <2> QED BY <1>1, <2>1 DEF Init, Round
<1>4. \A fd \in Fds, t \in Tracks : conns[fd] = Fresh /\ conns[fd].inst[t] = NoInst
  BY <1>1 DEF Init
<1>5. Holdings
  BY <1>4 DEF Init, Holdings
<1>6. Listed
  <2>1. \A i \in Insts : ~ \E fd \in Fds : conns[fd].inst[LiveTrack] = i
    BY <1>4, RtspConstants DEF LiveTrack, Tracks
  <2>2. mRtpInstances = <<>>
    BY DEF Init
  <2> QED BY <1>1, <2>1, <2>2 DEF Listed
<1>7. Walk /\ FaultsExplained /\ OneOwner
  BY <1>1 DEF Init, Walk, FaultsExplained, OneOwner
<1> QED BY <1>2, <1>3, <1>5, <1>6, <1>7 DEF IInv

\* The inductive invariant.
LEMMA IInvHolds == Spec => []IInv
<1>1. IInv /\ [Next]_vars => IInv'
  BY TypesStep, RoundStep, HoldingsStep, ListedStep, WalkStep, OneOwnerStep DEF IInv
<1> QED BY <1>1, InitInv, PTL DEF Spec
-----------------------------------------------------------------------------
(* What the server guarantees *)

\* The types of the loop, the server and the session, with their bounds: no more triggers
\* are queued than there are descriptors; and ListedAreLive: no instance outlives its
\* connection, and the list the encoder's thread walks holds exactly the live track's
\* instances of the connections, each once, as long as no connection was deleted that did
\* SETUP without DESCRIBE.
THEOREM TypeCorrect == Spec => []TypeOK
<1>1. IInv => TypeOK
  <2> SUFFICES ASSUME IInv PROVE TypeOK
    OBVIOUS
  <2>1. Cardinality(Fds) \in Nat /\ MaxListed \in Nat
    BY FS_CardinalityType, RtspConstants
  <2>2. mTriggerEvents \in 0 .. Cardinality(Fds) /\ at \in 0 .. (MaxListed + 1)
    BY <2>1 DEF IInv, Types, Round
  <2>3. ListedAreLive
    <3>1. /\ conns \in [Fds -> Conn] /\ mConnections \subseteq Fds /\ allocated \subseteq Insts
          /\ mRtpInstances \in Seq(Insts)
      BY DEF IInv, Types
    <3>2. \A fd \in Fds, t \in Tracks : conns[fd].inst[t] # NoInst => fd \in mConnections
      BY DEF IInv, Holdings, Fresh
    <3>3. allocated = UNION {Held(fd) : fd \in mConnections}
      <4>1. ASSUME NEW i \in allocated PROVE \E fd \in mConnections : i \in Held(fd)
        <5>1. PICK fd \in Fds, t \in Tracks : conns[fd].inst[t] = i
          BY DEF IInv, Holdings
        <5>2. i # NoInst
          BY <3>1, RtspConstants
        <5> QED BY <3>2, <5>1, <5>2 DEF Held
      <4>2. ASSUME NEW fd \in mConnections, NEW i \in Held(fd) PROVE i \in allocated
        BY <3>1, <4>2 DEF IInv, Holdings, Held
      <4> QED BY <4>1, <4>2
    <3>4. ASSUME undescribed = 0
          PROVE  Range(mRtpInstances) = {conns[fd].inst[LiveTrack] : fd \in mConnections} \ {NoInst}
      <4>1. LiveTrack \in Tracks /\ NoInst \notin Insts
        BY RtspConstants DEF LiveTrack, Tracks
      <4>2. \A fd \in Fds : conns[fd].inst[LiveTrack] \in Insts \cup {NoInst}
        BY <3>1, <4>1 DEF Conn
      <4>3. Range(mRtpInstances) \subseteq Insts
        BY <3>1 DEF Range
      <4>4. \A i \in Insts : i \in Range(mRtpInstances) <=> \E fd \in Fds : conns[fd].inst[LiveTrack] = i
        BY <3>4 DEF IInv, Listed
      <4>5. ASSUME NEW i \in Insts, NEW fd \in Fds, conns[fd].inst[LiveTrack] = i PROVE fd \in mConnections
        BY <3>2, <4>1, <4>5
      <4> QED BY <3>1, <4>1, <4>2, <4>3, <4>4, <4>5
    <3> QED BY <3>3, <3>4 DEF ListedAreLive, IInv, Listed
  <2> QED BY <2>2, <2>3 DEF TypeOK, IInv, Types
<1> QED BY <1>1, IInvHolds, PTL

\* The assertion of handleDisconnectionList holds: every descriptor on the list has its
\* connection, and is there once, however requests fail, peers close and deletions wait.
THEOREM DisconnectsAlwaysKnown == Spec => []DisconnectsKnown
<1>1. IInv => DisconnectsKnown
  BY DEF IInv, Round, DisconnectsKnown
<1> QED BY <1>1, IInvHolds, PTL

\* The encoder's thread, which walks the list without a lock, meets freed memory only if a
\* node was deleted under it or an instance outlived its deletion in the list.
THEOREM FaultsAlwaysExplained == Spec => []FaultsExplained
<1>1. IInv => FaultsExplained
  BY DEF IInv
<1> QED BY <1>1, IInvHolds, PTL

\* Until a connection with RTP over TCP is deleted, a connection's descriptor is its socket
\* and another thread's file is that thread's.
THEOREM OwnersKept == Spec => []OneOwner
<1>1. IInv => OneOwner
  BY DEF IInv
<1> QED BY <1>1, IInvHolds, PTL
=============================================================================
