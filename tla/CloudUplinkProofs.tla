------------------------- MODULE CloudUplinkProofs -------------------------
(***************************************************************************)
(* What CloudUplink guarantees for any users, any limit of the lists and   *)
(* any clock whose hours have at least two minutes.  Three invariants rest *)
(* on one another: what each thread knows of the lists it reads (Flow),    *)
(* where the photos are (PhotoInv), and which users the marks hold back    *)
(* (ReportInv).                                                            *)
(***************************************************************************)
EXTENDS CloudUplink, WellFoundedInduction, SequenceTheorems, TLAPS

\* What a thread learned from a size it read without the lock still holds when it uses it:
\* only the thread itself takes from the list.
Flow == /\ publisher.pc = "publish" => publisher.size <= Len(up_fifo)
        /\ saver.pc = "pop" => save_file_fifo # <<>>
        /\ saver.pc = "push" => saver.file \in Times
        /\ uploader.pc # "size" => ftp_up_fifo.size >= 1
        /\ uploader.pc \in {"put", "pop"} => /\ ftp_up_fifo.nodes # <<>>
                                             /\ uploader.file = Head(ftp_up_fifo.nodes)
        /\ ~overlapped => ftp_up_fifo.size = Len(ftp_up_fifo.nodes)
        /\ detector.pc # "callback" => detector.users # <<>>

-----------------------------------------------------------------------------
(* Lists *)

LEMMA PopList ==
    ASSUME NEW S, NEW s \in Seq(S), s # <<>>
    PROVE  /\ Head(s) \in S /\ Tail(s) \in Seq(S) /\ Len(Tail(s)) = Len(s) - 1
           /\ Len(s) \in Nat \ {0}
           /\ ToSet(s) = {Head(s)} \cup ToSet(Tail(s))
<1>1. /\ Head(s) \in S /\ Tail(s) \in Seq(S) /\ Len(Tail(s)) = Len(s) - 1
      /\ Len(s) \in Nat \ {0} /\ DOMAIN s = 1 .. Len(s) /\ Head(s) = s[1]
      /\ DOMAIN Tail(s) = 1 .. Len(s) - 1
      /\ \A i \in DOMAIN Tail(s) : Tail(s)[i] = s[i + 1]
  OBVIOUS
<1>2. \A i \in DOMAIN s : i = 1 \/ (i - 1 \in DOMAIN Tail(s) /\ Tail(s)[i - 1] = s[i])
  BY <1>1
<1>3. ToSet(s) \subseteq {Head(s)} \cup ToSet(Tail(s))
  <2> SUFFICES ASSUME NEW i \in DOMAIN s PROVE s[i] \in {Head(s)} \cup ToSet(Tail(s))
    BY DEF ToSet
  <2>1. CASE i = 1
    BY <1>1, <2>1
  <2>2. CASE i - 1 \in DOMAIN Tail(s) /\ Tail(s)[i - 1] = s[i]
    BY <2>2 DEF ToSet
  <2> QED BY <1>2, <2>1, <2>2
<1>4. {Head(s)} \cup ToSet(Tail(s)) \subseteq ToSet(s)
  <2>1. \A i \in DOMAIN Tail(s) : i + 1 \in DOMAIN s
    BY <1>1
  <2>2. 1 \in DOMAIN s
    BY <1>1
  <2> QED BY <1>1, <2>1, <2>2 DEF ToSet
<1> QED BY <1>1, <1>3, <1>4

LEMMA PushList ==
    ASSUME NEW S, NEW s \in Seq(S), NEW e \in S
    PROVE  /\ Append(s, e) \in Seq(S) /\ Len(Append(s, e)) = Len(s) + 1
           /\ ToSet(Append(s, e)) = ToSet(s) \cup {e}
<1>1. /\ Append(s, e) \in Seq(S) /\ Len(Append(s, e)) = Len(s) + 1 /\ Len(s) \in Nat
      /\ DOMAIN s = 1 .. Len(s) /\ DOMAIN Append(s, e) = 1 .. Len(s) + 1
      /\ \A i \in DOMAIN s : Append(s, e)[i] = s[i]
      /\ Append(s, e)[Len(s) + 1] = e
  OBVIOUS
<1>2. DOMAIN Append(s, e) = DOMAIN s \cup {Len(s) + 1}
  BY <1>1
<1> QED BY <1>1, <1>2 DEF ToSet

\* Lists of times in the order they were asked for.
Increasing(s) == \A i, j \in DOMAIN s : i < j => s[i] < s[j]

LEMMA PopIncreasing ==
    ASSUME NEW s \in Seq(Times), s # <<>>, Increasing(s)
    PROVE  Increasing(Tail(s)) /\ \A e \in ToSet(Tail(s)) : Head(s) < e
<1>1. /\ Len(s) \in Nat \ {0} /\ DOMAIN s = 1 .. Len(s) /\ Head(s) = s[1]
      /\ DOMAIN Tail(s) = 1 .. Len(s) - 1
      /\ \A i \in DOMAIN Tail(s) : Tail(s)[i] = s[i + 1]
  OBVIOUS
<1> QED BY <1>1 DEF Increasing, ToSet

LEMMA PushIncreasing ==
    ASSUME NEW s \in Seq(Times), NEW e \in Times, Increasing(s), \A a \in ToSet(s) : a < e
    PROVE  Increasing(Append(s, e))
<1>1. /\ Len(s) \in Nat /\ DOMAIN s = 1 .. Len(s) /\ DOMAIN Append(s, e) = 1 .. Len(s) + 1
      /\ \A i \in DOMAIN s : Append(s, e)[i] = s[i]
      /\ Append(s, e)[Len(s) + 1] = e
  OBVIOUS
<1>2. \A i \in DOMAIN s : s[i] < e
  BY DEF ToSet
<1> QED BY <1>1, <1>2 DEF Increasing

LEMMA ConcatIncreasing ==
    ASSUME NEW s \in Seq(Times), NEW t \in Seq(Times), Increasing(s), Increasing(t),
           \A a \in ToSet(s), b \in ToSet(t) : a < b
    PROVE  /\ s \o t \in Seq(Times) /\ Increasing(s \o t)
           /\ ToSet(s \o t) = ToSet(s) \cup ToSet(t)
<1>1. /\ s \o t \in Seq(Times) /\ Len(s) \in Nat /\ Len(t) \in Nat
      /\ DOMAIN s = 1 .. Len(s) /\ DOMAIN t = 1 .. Len(t)
      /\ DOMAIN (s \o t) = 1 .. Len(s) + Len(t)
      /\ \A i \in DOMAIN (s \o t) : (s \o t)[i] = IF i <= Len(s) THEN s[i] ELSE t[i - Len(s)]
  OBVIOUS
<1>2. \A i \in DOMAIN s, j \in DOMAIN t : s[i] < t[j]
  BY DEF ToSet
<1>3. \A i \in DOMAIN (s \o t) : IF i <= Len(s) THEN i \in DOMAIN s ELSE i - Len(s) \in DOMAIN t
  BY <1>1
<1>4. Increasing(s \o t)
  <2> SUFFICES ASSUME NEW i \in DOMAIN (s \o t), NEW j \in DOMAIN (s \o t), i < j
               PROVE  (s \o t)[i] < (s \o t)[j]
    BY DEF Increasing
  <2>1. CASE j <= Len(s)
    BY <1>1, <1>3, <2>1 DEF Increasing
  <2>2. CASE i <= Len(s) /\ ~(j <= Len(s))
    BY <1>1, <1>2, <1>3, <2>2
  <2>3. CASE ~(i <= Len(s))
    <3>1. i - Len(s) \in DOMAIN t /\ j - Len(s) \in DOMAIN t /\ i - Len(s) < j - Len(s)
          /\ ~(j <= Len(s))
      BY <1>1, <1>3, <2>3
    <3> QED BY <1>1, <2>3, <3>1 DEF Increasing
  <2> QED BY <2>1, <2>2, <2>3
<1>5. ToSet(s \o t) \subseteq ToSet(s) \cup ToSet(t)
  BY <1>1, <1>3 DEF ToSet
<1>6. ToSet(s) \cup ToSet(t) \subseteq ToSet(s \o t)
  <2>1. \A i \in DOMAIN s : i \in DOMAIN (s \o t) /\ (s \o t)[i] = s[i]
    BY <1>1
  <2>2. \A i \in DOMAIN t : Len(s) + i \in DOMAIN (s \o t) /\ (s \o t)[Len(s) + i] = t[i]
    BY <1>1
  <2> QED BY <2>1, <2>2 DEF ToSet
<1> QED BY <1>1, <1>4, <1>5, <1>6

-----------------------------------------------------------------------------
(* Types, and what the threads know *)

\* Indices have a least one.
LEMMA LeastNat ==
    ASSUME NEW S \in SUBSET Nat, S # {}
    PROVE  \E i \in S : \A j \in S : i <= j
<1> DEFINE R == {ss \in Nat \X Nat : ss[1] < ss[2]}
<1>1. IsWellFoundedOn(R, Nat)
  BY NatLessThanWellFounded DEF OpToRel
<1>2. PICK i \in S : \A j \in S : ~(<<j, i>> \in R)
  BY <1>1, WFMin
<1>3. \A j \in S : ~(j < i)
  BY <1>2
<1> QED BY <1>2, <1>3

\* A mark of one more user keeps the marks distinct.
LEMMA MarkOne ==
    ASSUME TypeOK, NEW u \in Entry, NEW t \in Times, ~has_marked(mark_list, u),
           mark_list' = Append(mark_list, [user |-> u, time |-> t])
    PROVE  MarksDistinct' /\ mark_list' \in Seq([user : Entry, time : Times])
<1>1. /\ mark_list \in Seq([user : Entry, time : Times]) /\ Len(mark_list) \in Nat
      /\ DOMAIN mark_list = 1 .. Len(mark_list) /\ DOMAIN mark_list' = 1 .. Len(mark_list) + 1
      /\ \A i \in DOMAIN mark_list : mark_list'[i] = mark_list[i]
      /\ mark_list'[Len(mark_list) + 1] = [user |-> u, time |-> t]
      /\ mark_list' \in Seq([user : Entry, time : Times])
  BY DEF TypeOK
<1>2. \A i \in DOMAIN mark_list : mark_list[i].user # u
  BY DEF has_marked
<1> QED BY <1>1, <1>2 DEF TypeOK, MarksDistinct

\* check_timeout keeps the marks from the first fresh one on, or none.
LEMMA KeptMarks ==
    ASSUME TypeOK, NEW t \in Times
    PROVE  /\ check_timeout(t) \in Seq([user : Entry, time : Times])
           /\ \A i, j \in DOMAIN check_timeout(t) :
                 check_timeout(t)[i].user = check_timeout(t)[j].user => i = j
           /\ \A i \in DOMAIN check_timeout(t) : \E k \in DOMAIN mark_list :
                 check_timeout(t)[i] = mark_list[k]
           /\ \A k \in DOMAIN mark_list : Fresh(mark_list[k], t) =>
                 \E i \in DOMAIN check_timeout(t) : check_timeout(t)[i] = mark_list[k]
<1> DEFINE fresh == {i \in DOMAIN mark_list : Fresh(mark_list[i], t)}
           first == CHOOSE i \in fresh : \A j \in fresh : i <= j
<1>1. /\ mark_list \in Seq([user : Entry, time : Times]) /\ Len(mark_list) \in Nat
      /\ DOMAIN mark_list = 1 .. Len(mark_list)
  BY DEF TypeOK
<1>2. CASE fresh = {}
  <2>1. check_timeout(t) = <<>>
    BY <1>2 DEF check_timeout
  <2> QED BY <1>2, <2>1
<1>3. CASE fresh # {}
  <2>1. \E i \in fresh : \A j \in fresh : i <= j
    <3>1. fresh \in SUBSET Nat
      BY <1>1
    <3> QED BY <1>3, <3>1, LeastNat
  <2>2. first \in fresh /\ \A j \in fresh : first <= j
    BY <2>1
  <2> HIDE DEF first
  <2>3. check_timeout(t) = SubSeq(mark_list, first, Len(mark_list))
    BY <1>3 DEF check_timeout, first
  <2>4. /\ check_timeout(t) \in Seq([user : Entry, time : Times])
        /\ DOMAIN check_timeout(t) = 1 .. Len(mark_list) - first + 1
        /\ \A i \in 1 .. Len(mark_list) - first + 1 :
              check_timeout(t)[i] = mark_list[first + i - 1]
    <3>1. first \in 1 .. Len(mark_list)
      BY <1>1, <2>2
    <3>2. \A i \in first .. Len(mark_list) : mark_list[i] \in [user : Entry, time : Times]
      <4>1. \A i \in 1 .. Len(mark_list) : mark_list[i] \in [user : Entry, time : Times]
        BY ONLY <1>1, ElementOfSeq
      <4>2. \A i \in first .. Len(mark_list) : i \in 1 .. Len(mark_list)
        BY ONLY <1>1, <3>1
      <4> QED BY ONLY <4>1, <4>2
    <3> QED BY <1>1, <2>3, <3>1, <3>2, SubSeqProperties
  <2>5. \A k \in DOMAIN mark_list : k >= first =>
          /\ k - first + 1 \in 1 .. Len(mark_list) - first + 1
          /\ mark_list[first + (k - first + 1) - 1] = mark_list[k]
    BY <1>1, <2>2
  <2>6. \A i \in 1 .. Len(mark_list) - first + 1 : first + i - 1 \in DOMAIN mark_list
    BY <1>1, <2>2
  <2>7. \A i, j \in 1 .. Len(mark_list) - first + 1 :
          mark_list[first + i - 1].user = mark_list[first + j - 1].user => i = j
    <3> TAKE i, j \in 1 .. Len(mark_list) - first + 1
    <3>1. mark_list[first + i - 1].user = mark_list[first + j - 1].user
            => first + i - 1 = first + j - 1
      BY <2>6 DEF TypeOK, MarksDistinct
    <3> QED BY <1>1, <2>2, <3>1
  <2>8. \A k \in DOMAIN mark_list : Fresh(mark_list[k], t) =>
          \E i \in DOMAIN check_timeout(t) : check_timeout(t)[i] = mark_list[k]
    <3> SUFFICES ASSUME NEW k \in DOMAIN mark_list, Fresh(mark_list[k], t)
                 PROVE  \E i \in DOMAIN check_timeout(t) : check_timeout(t)[i] = mark_list[k]
      OBVIOUS
    <3>1. k >= first
      BY <2>2
    <3> QED BY <2>4, <2>5, <3>1
  <2> QED BY <2>4, <2>6, <2>7, <2>8
<1> QED BY <1>2, <1>3

\* What a callback's boxes become when the marked users are overwritten.
LEMMA FilteredUsers ==
    ASSUME NEW users \in Boxes, NEW marks
    PROVE  /\ Filtered(users, marks) \in Seq(Entry) /\ Filtered(users, marks) # <<>>
           /\ \A e \in ToSet(Filtered(users, marks)) : e # Gone => ~has_marked(marks, e)
<1>1. users \in Seq(Users) /\ users # <<>>
  BY BoxesAssumption
<1>2. Len(users) \in Nat \ {0} /\ DOMAIN users = 1 .. Len(users)
      /\ \A j \in 1 .. Len(users) : users[j] \in Users
  BY <1>1
<1>3. Filtered(users, marks) \in [1 .. Len(users) -> Entry]
  BY <1>2 DEF Filtered, Entry
<1>4. Filtered(users, marks) \in Seq(Entry)
  BY <1>2, <1>3
<1>5. Filtered(users, marks) # <<>>
  <2>1. DOMAIN Filtered(users, marks) # {}
    BY <1>2, <1>3
  <2> QED BY <2>1
<1>6. \A e \in ToSet(Filtered(users, marks)) : e # Gone => ~has_marked(marks, e)
  BY DEF ToSet, Filtered
<1> QED BY <1>4, <1>5, <1>6

TypeFlow == TypeOK /\ Flow

\* The types, apart for the marks and events, for the photos on their way, and the rest.
ReportTypes ==
    /\ mark_list \in Seq([user : Entry, time : Times]) /\ MarksDistinct
    /\ up_fifo \in Seq(Event) /\ Len(up_fifo) <= FifoLimit
    /\ publisher \in [pc : {"size", "publish"}, size : 0 .. FifoLimit]
    /\ lastUp \in [Users -> Times \cup {Never}]
PhotoTypes ==
    /\ ftp_up_fifo.nodes \in Seq(Times) /\ ftp_up_fifo.size \in Nat
    /\ saver \in [pc : {"size", "pop", "push"}, file : Times \cup {Never}]
    /\ uploader \in [pc : {"size", "front", "put", "pop"}, file : Times \cup {Never}]
    /\ ftp_init_flag \in BOOLEAN
    /\ disk \in SUBSET Times /\ stray \in SUBSET Times
    /\ overlapped \in BOOLEAN
DetectorTypes ==
    /\ now \in Times
    /\ save_file_fifo \in Seq(Times) /\ Len(save_file_fifo) <= FifoLimit
    /\ lastSaved \in [min : 0 .. MinsPerHour - 1, sec : 0 .. SecsPerMin - 1]
    /\ detector \in [pc : {"callback", "photo", "event", "mark"}, users : Seq(Entry), time : Times]
    /\ crashed \in BOOLEAN

LEMMA TypeParts ==
    /\ TypeOK <=> ReportTypes /\ PhotoTypes /\ DetectorTypes
    /\ TypeOK' <=> ReportTypes' /\ PhotoTypes' /\ DetectorTypes'
BY DEF TypeOK, ReportTypes, PhotoTypes, DetectorTypes

LEMMA ReportTypesKept == ASSUME ReportTypes, UNCHANGED reportVars PROVE ReportTypes'
BY DEF ReportTypes, reportVars, MarksDistinct

LEMMA PhotoTypesKept == ASSUME PhotoTypes, UNCHANGED photoVars PROVE PhotoTypes'
BY DEF PhotoTypes, photoVars

LEMMA DetectorTypesKept ==
    ASSUME DetectorTypes, UNCHANGED <<now, save_file_fifo, lastSaved, detector>>,
           crashed' \in BOOLEAN
    PROVE  DetectorTypes'
BY DEF DetectorTypes

LEMMA InitTypeFlow == Init => TypeFlow
<1> SUFFICES ASSUME Init PROVE TypeFlow
  OBVIOUS
<1> USE ClockAssumption, LimitAssumption
<1>1. ReportTypes
  BY DEF Init, ReportTypes, MarksDistinct
<1>2. PhotoTypes
  <2>1. ftp_up_fifo.nodes = <<>> /\ ftp_up_fifo.size = 0 /\ <<>> \in Seq(Times)
    BY DEF Init
  <2>2. /\ saver \in [pc : {"size", "pop", "push"}, file : Times \cup {Never}]
        /\ uploader \in [pc : {"size", "front", "put", "pop"}, file : Times \cup {Never}]
    BY DEF Init
  <2>3. ftp_init_flag \in BOOLEAN /\ overlapped \in BOOLEAN
        /\ disk \in SUBSET Times /\ stray \in SUBSET Times
    BY DEF Init
  <2> QED BY <2>1, <2>2, <2>3 DEF PhotoTypes
<1>3. DetectorTypes
  <2>1. 0 \in 0 .. MinsPerHour - 1 /\ 0 \in 0 .. SecsPerMin - 1 /\ 0 \in Times
    BY DEF Times
  <2>2. <<>> \in Seq(Times) /\ Len(<<>>) <= FifoLimit /\ <<>> \in Seq(Entry)
    OBVIOUS
  <2> QED BY <2>1, <2>2 DEF Init, AtCallback, DetectorTypes
<1>4. Flow
  BY DEF Init, AtCallback, Flow
<1> QED BY <1>1, <1>2, <1>3, <1>4, TypeParts DEF TypeFlow

LEMMA DetectorTypeFlow == ASSUME TypeFlow, Detector PROVE TypeFlow'
<1>1. ReportTypes /\ PhotoTypes /\ DetectorTypes /\ Flow /\ TypeOK
  BY TypeParts DEF TypeFlow
<1>2. UNCHANGED photoVars
  BY DEF Detector, Callback, QueuePhoto, trigger_up, mark_face
<1>3. PhotoTypes'
  BY <1>1, <1>2, PhotoTypesKept
<1> SUFFICES ReportTypes' /\ DetectorTypes' /\ Flow'
  BY <1>3, TypeParts DEF TypeFlow
<1> USE <1>1, <1>2 DEF photoVars
<1>4. ASSUME NEW users \in Boxes, Callback(users) PROVE ReportTypes' /\ DetectorTypes' /\ Flow'
  <2> DEFINE marks == check_timeout(now)
             left == Filtered(users, marks)
  <2>1. /\ marks \in Seq([user : Entry, time : Times])
        /\ \A i, j \in DOMAIN marks : marks[i].user = marks[j].user => i = j
    <3>1. now \in Times
      BY DEF DetectorTypes
    <3> QED BY <3>1, KeptMarks
  <2>2. left \in Seq(Entry) /\ left # <<>>
    BY FilteredUsers
  <2>3. mark_list' = marks
        /\ detector' \in {detector, [pc |-> "photo", users |-> left, time |-> now]}
    BY <1>4 DEF Callback
  <2> HIDE DEF marks, left
  <2>4. ReportTypes'
    BY <1>4, <2>1, <2>3 DEF Callback, ReportTypes, MarksDistinct
  <2>5. DetectorTypes'
    BY <1>4, <2>2, <2>3 DEF Callback, DetectorTypes
  <2>6. Flow'
    BY <1>4, <2>2, <2>3 DEF Callback, Flow
  <2> QED BY <2>4, <2>5, <2>6
<1>5. CASE QueuePhoto
  <2>1. save_file_fifo' \in Seq(Times) /\ Len(save_file_fifo') <= FifoLimit
        /\ (save_file_fifo # <<>> => save_file_fifo' # <<>>)
    <3>1. /\ detector.time \in Times /\ save_file_fifo \in Seq(Times)
          /\ Len(save_file_fifo) <= FifoLimit /\ FifoLimit \in Nat
      BY LimitAssumption DEF DetectorTypes
    <3>2. \/ save_file_fifo' = save_file_fifo
          \/ save_file_fifo' = Append(save_file_fifo, detector.time)
             /\ Len(save_file_fifo) < FifoLimit
      BY <1>5 DEF QueuePhoto, HasRoom
    <3> QED BY <3>1, <3>2
  <2>2. lastSaved' \in [min : 0 .. MinsPerHour - 1, sec : 0 .. SecsPerMin - 1]
    <3>1. min(detector.time) \in 0 .. MinsPerHour - 1
          /\ sec(detector.time) \in 0 .. SecsPerMin - 1
      BY ClockAssumption DEF DetectorTypes, min, sec, Times
    <3> QED BY <1>5, <3>1 DEF QueuePhoto
  <2>3. detector' \in [pc : {"callback", "photo", "event", "mark"}, users : Seq(Entry),
                       time : Times] /\ detector'.users = detector.users
    BY <1>5 DEF QueuePhoto, DetectorTypes
  <2>4. ReportTypes'
    BY <1>5, ReportTypesKept DEF QueuePhoto
  <2>5. DetectorTypes'
    BY <1>5, <2>1, <2>2, <2>3 DEF QueuePhoto, DetectorTypes
  <2>6. Flow'
    BY <1>5, <2>1, <2>3 DEF QueuePhoto, Flow, reportVars
  <2> QED BY <2>4, <2>5, <2>6
<1>6. CASE trigger_up
  <2>1. /\ up_fifo' \in Seq(Event) /\ Len(up_fifo') <= FifoLimit
        /\ Len(up_fifo) \in Nat /\ Len(up_fifo) <= Len(up_fifo')
    <3> DEFINE item == [users |-> detector.users, time |-> detector.time]
    <3>1. /\ item \in Event /\ up_fifo \in Seq(Event)
          /\ Len(up_fifo) <= FifoLimit /\ FifoLimit \in Nat
      BY LimitAssumption DEF DetectorTypes, ReportTypes, Event
    <3>2. \/ up_fifo' = up_fifo
          \/ up_fifo' = Append(up_fifo, item) /\ Len(up_fifo) < FifoLimit
      BY <1>6 DEF trigger_up, HasRoom
    <3> HIDE DEF item
    <3> QED BY <3>1, <3>2
  <2>2. lastUp' \in [Users -> Times \cup {Never}]
    BY <1>6 DEF trigger_up, ReportTypes, DetectorTypes
  <2>3. detector' \in [pc : {"callback", "photo", "event", "mark"}, users : Seq(Entry),
                       time : Times] /\ detector'.users = detector.users
    BY <1>6 DEF trigger_up, DetectorTypes
  <2>4. ReportTypes'
    BY <1>6, <2>1, <2>2 DEF trigger_up, ReportTypes, MarksDistinct
  <2>5. DetectorTypes'
    BY <1>6, <2>3 DEF trigger_up, DetectorTypes
  <2>6. Flow'
    <3>1. publisher' = publisher /\ publisher.size \in Nat /\ Len(up_fifo') \in Nat
      BY <1>6, <2>1 DEF trigger_up, ReportTypes
    <3> QED BY <1>6, <2>1, <2>3, <3>1 DEF trigger_up, Flow
  <2> QED BY <2>4, <2>5, <2>6
<1>7. CASE mark_face
  <2>1. Head(detector.users) \in Entry /\ Tail(detector.users) \in Seq(Entry)
        /\ detector.time \in Times
    BY <1>7 DEF mark_face, DetectorTypes, Flow
  <2>2. MarksDistinct' /\ mark_list' \in Seq([user : Entry, time : Times])
    <3>1. CASE has_marked(mark_list, Head(detector.users))
      BY <1>7, <3>1 DEF mark_face, ReportTypes, MarksDistinct
    <3>2. CASE ~has_marked(mark_list, Head(detector.users))
      BY <1>7, <2>1, <3>2, MarkOne DEF mark_face
    <3> QED BY <3>1, <3>2
  <2>3. detector' \in [pc : {"callback", "photo", "event", "mark"}, users : Seq(Entry),
                       time : Times]
        /\ (detector'.pc # "callback" => detector'.users # <<>>)
    <3>1. AtCallback \in [pc : {"callback", "photo", "event", "mark"}, users : Seq(Entry),
                          time : Times]
      BY ClockAssumption DEF AtCallback, Times
    <3>2. CASE Rest(detector.users) = <<>>
      BY <1>7, <3>1, <3>2 DEF mark_face, AtCallback
    <3>3. CASE Rest(detector.users) # <<>>
      <4>1. detector' = [detector EXCEPT !.users = Tail(detector.users)]
        BY <1>7, <3>3 DEF mark_face, Rest
      <4> QED BY <2>1, <3>3, <4>1 DEF DetectorTypes, Rest
    <3> QED BY <3>2, <3>3
  <2>4. ReportTypes'
    BY <1>7, <2>2 DEF mark_face, ReportTypes
  <2>5. DetectorTypes'
    BY <1>7, <2>3 DEF mark_face, DetectorTypes
  <2>6. Flow'
    BY <1>7, <2>3 DEF mark_face, Flow
  <2> QED BY <2>4, <2>5, <2>6
<1> QED BY <1>4, <1>5, <1>6, <1>7 DEF Detector

LEMMA PublisherTypeFlow == ASSUME TypeFlow, Publisher PROVE TypeFlow'
<1>1. ReportTypes /\ PhotoTypes /\ DetectorTypes /\ Flow
  BY TypeParts DEF TypeFlow
<1>2. UNCHANGED photoVars /\ crashed' \in BOOLEAN
      /\ UNCHANGED <<now, save_file_fifo, lastSaved, detector>>
  BY <1>1 DEF Publisher, UpSize, UpPublish, DetectorTypes
<1>3. PhotoTypes' /\ DetectorTypes'
  BY <1>1, <1>2, PhotoTypesKept, DetectorTypesKept
<1> SUFFICES ReportTypes' /\ Flow'
  BY <1>3, TypeParts DEF TypeFlow
<1> USE <1>1, <1>2 DEF photoVars
<1>4. CASE UpSize
  <2>1. Len(up_fifo) \in 0 .. FifoLimit
    BY LimitAssumption DEF ReportTypes
  <2> QED BY <1>4, <2>1 DEF UpSize, ReportTypes, Flow, MarksDistinct
<1>5. CASE UpPublish
  <2>1. publisher.size \in Nat /\ publisher.size <= Len(up_fifo)
        /\ up_fifo \in Seq(Event) /\ Len(up_fifo) \in Nat /\ Len(up_fifo) <= FifoLimit
    BY <1>5 DEF UpPublish, ReportTypes, Flow
  <2>2. up_fifo' = SubSeq(up_fifo, publisher.size + 1, Len(up_fifo))
    BY <1>5, <2>1 DEF UpPublish, Batch
  <2>3. \A i \in publisher.size + 1 .. Len(up_fifo) : up_fifo[i] \in Event
    BY <2>1
  <2>4. up_fifo' \in Seq(Event) /\ Len(up_fifo') <= FifoLimit
    BY <2>1, <2>2, <2>3, SubSeqProperties, LimitAssumption
  <2> QED BY <1>5, <2>4, LimitAssumption DEF UpPublish, ReportTypes, Flow, MarksDistinct
<1> QED BY <1>4, <1>5 DEF Publisher

LEMMA SaverTypeFlow == ASSUME TypeFlow, Saver PROVE TypeFlow'
<1>1. ReportTypes /\ PhotoTypes /\ DetectorTypes /\ Flow
  BY TypeParts DEF TypeFlow
<1>2. UNCHANGED reportVars /\ UNCHANGED <<now, lastSaved, detector>> /\ crashed' \in BOOLEAN
  BY <1>1 DEF Saver, SaveSize, SavePop, SavePush, DetectorTypes
<1>3. ReportTypes'
  BY <1>1, <1>2, ReportTypesKept
<1> SUFFICES DetectorTypes' /\ PhotoTypes' /\ Flow'
  BY <1>3, TypeParts DEF TypeFlow
<1> USE <1>1, <1>2 DEF reportVars
<1>4. CASE SaveSize
  BY <1>4 DEF SaveSize, PhotoTypes, DetectorTypes, Flow
<1>5. CASE SavePop
  <2>1. save_file_fifo # <<>> /\ save_file_fifo \in Seq(Times) /\ Len(save_file_fifo) <= FifoLimit
    BY <1>5 DEF SavePop, Flow, DetectorTypes
  <2>2. Head(save_file_fifo) \in Times /\ Tail(save_file_fifo) \in Seq(Times)
        /\ Len(Tail(save_file_fifo)) <= FifoLimit
    BY <2>1, LimitAssumption
  <2>3. DetectorTypes'
    BY <1>5, <2>1, <2>2 DEF SavePop, DetectorTypes
  <2>4. PhotoTypes'
    BY <1>5, <2>1, <2>2 DEF SavePop, PhotoTypes
  <2>5. Flow'
    BY <1>5, <2>1, <2>2 DEF SavePop, Flow
  <2> QED BY <2>3, <2>4, <2>5
<1>6. CASE SavePush
  <2>1. saver.file \in Times /\ ftp_up_fifo.nodes \in Seq(Times) /\ ftp_up_fifo.size \in Nat
    BY <1>6 DEF SavePush, Flow, PhotoTypes
  <2>2. /\ Append(ftp_up_fifo.nodes, saver.file) \in Seq(Times)
        /\ Len(Append(ftp_up_fifo.nodes, saver.file)) = Len(ftp_up_fifo.nodes) + 1
        /\ Append(ftp_up_fifo.nodes, saver.file) # <<>>
        /\ ftp_up_fifo.nodes # <<>> =>
              Head(Append(ftp_up_fifo.nodes, saver.file)) = Head(ftp_up_fifo.nodes)
    BY <2>1
  <2>3. PhotoTypes'
    <3>1. /\ ftp_up_fifo' \in {ftp_up_fifo, PushBack(ftp_up_fifo, saver.file)}
          /\ stray' \in {stray, stray \cup {saver.file}}
      BY <1>6 DEF SavePush
    <3>2. ftp_up_fifo'.nodes \in Seq(Times) /\ ftp_up_fifo'.size \in Nat /\ stray' \in SUBSET Times
      <4>1. stray \in SUBSET Times
        BY DEF PhotoTypes
      <4>2. /\ PushBack(ftp_up_fifo, saver.file).nodes \in Seq(Times)
            /\ PushBack(ftp_up_fifo, saver.file).size \in Nat
        BY <2>1, <2>2 DEF PushBack
      <4> QED BY <2>1, <3>1, <4>1, <4>2
    <3> QED BY <1>6, <3>2 DEF SavePush, PhotoTypes
  <2>4. DetectorTypes'
    BY <1>6 DEF SavePush, DetectorTypes
  <2>5. Flow'
    BY <1>6, <2>1, <2>2 DEF SavePush, PushBack, Flow
  <2> QED BY <2>3, <2>4, <2>5
<1> QED BY <1>4, <1>5, <1>6 DEF Saver

LEMMA UploaderTypeFlow == ASSUME TypeFlow, Uploader PROVE TypeFlow'
<1>1. ReportTypes /\ PhotoTypes /\ DetectorTypes /\ Flow
  BY TypeParts DEF TypeFlow
<1>2. UNCHANGED reportVars /\ UNCHANGED <<now, save_file_fifo, lastSaved, detector>>
      /\ crashed' \in BOOLEAN
  BY <1>1 DEF Uploader, FtpSize, FtpFront, ftpup, FtpPop, PopMeetsPush, PopBreaksList,
     DetectorTypes
<1>3. ReportTypes' /\ DetectorTypes'
  BY <1>1, <1>2, ReportTypesKept, DetectorTypesKept
<1> SUFFICES PhotoTypes' /\ Flow'
  BY <1>3, TypeParts DEF TypeFlow
<1> USE <1>1, <1>2 DEF reportVars
<1>4. CASE FtpSize
  BY <1>4 DEF FtpSize, PhotoTypes, Flow
<1>5. CASE FtpFront
  <2>1. ftp_up_fifo.nodes # <<>> => Head(ftp_up_fifo.nodes) \in Times
    BY DEF PhotoTypes
  <2> QED BY <1>5, <2>1 DEF FtpFront, PhotoTypes, Flow
<1>6. CASE ftpup
  <2>1. uploader.file \in Times
    BY <1>6 DEF ftpup, PhotoTypes, Flow
  <2> QED BY <1>6, <2>1 DEF ftpup, Removed, PhotoTypes, Flow
<1>7. CASE FtpPop
  <2>1. /\ ftp_up_fifo.nodes \in Seq(Times) /\ ftp_up_fifo.nodes # <<>>
        /\ ftp_up_fifo.size \in Nat /\ ftp_up_fifo.size >= 1
    BY <1>7 DEF FtpPop, PhotoTypes, Flow
  <2>2. Tail(ftp_up_fifo.nodes) \in Seq(Times)
        /\ Len(Tail(ftp_up_fifo.nodes)) = Len(ftp_up_fifo.nodes) - 1
    BY <2>1, PopList
  <2> QED BY <1>7, <2>1, <2>2 DEF FtpPop, PopFront, PhotoTypes, Flow
<1>8. ASSUME NEW size \in 0 .. FifoLimit + 2, NEW kept \in BOOLEAN, PopMeetsPush(size, kept)
      PROVE  PhotoTypes' /\ Flow'
  <2>1. /\ ftp_up_fifo.nodes \in Seq(Times) /\ ftp_up_fifo.nodes # <<>>
        /\ saver.file \in Times
    BY <1>8 DEF PopMeetsPush, PhotoTypes, Flow
  <2>2. Append(Tail(ftp_up_fifo.nodes), saver.file) \in Seq(Times)
    BY <2>1
  <2>3. ftp_up_fifo'.nodes \in Seq(Times) /\ ftp_up_fifo'.size \in Nat
    BY <1>8, <2>2, LimitAssumption DEF PopMeetsPush
  <2>4. PhotoTypes'
    BY <1>8, <2>1, <2>3 DEF PopMeetsPush, PhotoTypes
  <2>5. Flow'
    BY <1>8 DEF PopMeetsPush, Flow
  <2> QED BY <2>4, <2>5
<1>9. CASE PopBreaksList
  BY <1>9 DEF PopBreaksList, PhotoTypes, Flow
<1> QED BY <1>4, <1>5, <1>6, <1>7, <1>8, <1>9 DEF Uploader

LEMMA NextTypeFlow == ASSUME TypeFlow, [Next]_vars PROVE TypeFlow'
<1>1. ReportTypes /\ PhotoTypes /\ DetectorTypes /\ Flow
  BY TypeParts DEF TypeFlow
<1>2. CASE Tick
  <2>1. DetectorTypes'
    BY <1>1, <1>2, ClockAssumption DEF Tick, DetectorTypes, Times
  <2>2. Flow'
    BY <1>1, <1>2 DEF Tick, Flow, reportVars, photoVars
  <2> QED BY <1>1, <1>2, <2>1, <2>2, TypeParts, ReportTypesKept, PhotoTypesKept DEF Tick, TypeFlow
<1>3. CASE ftp_init
  <2>1. DetectorTypes' /\ PhotoTypes'
    BY <1>1, <1>3 DEF ftp_init, DetectorTypes, PhotoTypes
  <2>2. Flow'
    BY <1>1, <1>3 DEF ftp_init, Flow, reportVars
  <2> QED BY <1>1, <1>3, <2>1, <2>2, TypeParts, ReportTypesKept DEF ftp_init, TypeFlow
<1>4. CASE UNCHANGED vars
  BY <1>1, <1>4, TypeParts DEF vars, TypeFlow, ReportTypes, PhotoTypes, DetectorTypes, Flow,
     MarksDistinct
<1> QED BY <1>2, <1>3, <1>4, DetectorTypeFlow, PublisherTypeFlow, SaverTypeFlow,
        UploaderTypeFlow DEF Next

LEMMA TypeFlowHolds == Spec => []TypeFlow
BY InitTypeFlow, NextTypeFlow, PTL DEF Spec

\* Types of the lists and of the threads' locals: the limits of the lists hold, and no
\* user is marked twice.
THEOREM Types == Spec => []TypeOK
<1>1. TypeFlow => TypeOK
  BY DEF TypeFlow
<1> QED BY <1>1, TypeFlowHolds, PTL

\* A thread finds a list empty that it read a size of only after a race.
LEMMA NextNoFrontOfEmpty ==
    ASSUME TypeFlow, NoFrontOfEmpty, [Next]_vars PROVE NoFrontOfEmpty'
<1> SUFFICES ASSUME crashed', ~overlapped' PROVE FALSE
  BY DEF NoFrontOfEmpty
<1>1. CASE UpPublish
  <2>1. publisher.size \in Nat /\ Len(up_fifo) \in Nat /\ publisher.size <= Len(up_fifo)
    BY <1>1 DEF UpPublish, TypeFlow, TypeOK, Flow
  <2>2. ~(Batch(publisher.size) > Len(up_fifo))
    BY <2>1 DEF Batch
  <2> QED BY <1>1, <2>2 DEF UpPublish, photoVars, NoFrontOfEmpty
<1>2. CASE SavePop
  BY <1>2 DEF SavePop, TypeFlow, Flow, NoFrontOfEmpty
<1>3. CASE FtpFront
  <2>1. ~overlapped
    BY <1>3 DEF FtpFront
  <2>2. ftp_up_fifo.nodes # <<>>
    BY <1>3, <2>1 DEF FtpFront, TypeFlow, Flow
  <2> QED BY <1>3, <2>1, <2>2 DEF FtpFront, NoFrontOfEmpty
<1>4. CASE PopBreaksList
  BY <1>4 DEF PopBreaksList
<1>5. CASE ~(UpPublish \/ SavePop \/ FtpFront \/ PopBreaksList)
  <2>1. crashed' = crashed /\ (overlapped' = overlapped \/ overlapped')
    BY <1>5 DEF Next, Tick, ftp_init, Detector, Callback, QueuePhoto, trigger_up, mark_face,
       Publisher, UpSize, Saver, SaveSize, SavePush, Uploader, FtpSize, ftpup, FtpPop,
       PopMeetsPush, vars, photoVars
  <2> QED BY <2>1 DEF NoFrontOfEmpty
<1> QED BY <1>1, <1>2, <1>3, <1>4, <1>5

\* The size of a list read before its lock is taken is safe to use: the program dies of it
\* only after process_ftpup's unlocked pop_front has met a push_back.
THEOREM NoEmptyFront == Spec => []NoFrontOfEmpty
<1>1. Init => NoFrontOfEmpty
  BY DEF Init, NoFrontOfEmpty
<1> QED BY <1>1, NextNoFrontOfEmpty, TypeFlowHolds, PTL DEF Spec

-----------------------------------------------------------------------------
(* The photos *)

\* The photo in the saver's hands, and the photos of the three places.
Carried == IF saver.pc = "push" THEN {saver.file} ELSE {}
Photos == ToSet(ftp_up_fifo.nodes) \cup Carried \cup ToSet(save_file_fifo)

\* The two lists are in order, and so are the places.
InOrder ==
    /\ Increasing(ftp_up_fifo.nodes) /\ Increasing(save_file_fifo)
    /\ \A a \in ToSet(ftp_up_fifo.nodes), b \in Carried \cup ToSet(save_file_fifo) : a < b
    /\ \A a \in Carried, b \in ToSet(save_file_fifo) : a < b

\* A photo of the moment t is the last that was asked for.
NoneAfter(e, t) == e <= t /\ (e = t => lastSaved = [min |-> min(e), sec |-> sec(e)])

Dated ==
    /\ detector.time <= now
    /\ \A e \in Photos : NoneAfter(e, now) /\ (detector.pc = "photo" => NoneAfter(e, detector.time))

\* Where a file on disk belongs; the one that the uploader is about to unlink is gone.
OnDisk ==
    /\ DiskAccounted
    /\ saver.pc # "push" => saver.file = Never
    /\ uploader.pc = "pop" => uploader.file \notin disk \/ uploader.file \in stray

PhotoInv == InOrder /\ Dated /\ OnDisk

LEMMA NeverIsNoTime == Never \notin Times /\ \A t \in Times : t \in Int
BY ClockAssumption DEF Never, Times

LEMMA PhotosAreTimes == ASSUME TypeFlow PROVE Photos \in SUBSET Times
BY DEF TypeFlow, TypeOK, Flow, Photos, Carried, ToSet

LEMMA InitPhotoInv == Init => PhotoInv
<1> SUFFICES ASSUME Init PROVE PhotoInv
  OBVIOUS
<1>1. ToSet(ftp_up_fifo.nodes) = {} /\ ToSet(save_file_fifo) = {} /\ Carried = {}
  BY DEF Init, ToSet, Carried
<1>2. InOrder
  BY <1>1 DEF Init, InOrder, Increasing
<1>3. Dated /\ OnDisk
  BY <1>1 DEF Init, AtCallback, Dated, OnDisk, DiskAccounted, Photos
<1> QED BY <1>2, <1>3 DEF PhotoInv

\* Steps of the detection thread and the clock that ask for no photo.
LEMMA NothingAsked ==
    ASSUME TypeFlow, PhotoInv, UNCHANGED <<photoVars, save_file_fifo, lastSaved>>,
           now' \in Times, now <= now', detector'.time <= now',
           detector'.pc = "photo" =>
              \/ detector'.time = now
              \/ detector.pc = "photo" /\ detector'.time = detector.time
    PROVE  PhotoInv'
<1> USE DEF PhotoInv, photoVars
<1>1. Carried' = Carried /\ Photos' = Photos
  BY DEF Carried, Photos
<1>2. InOrder'
  BY <1>1 DEF InOrder
<1>3. OnDisk'
  BY DEF OnDisk, DiskAccounted, InFlight
<1>4. \A e, t : NoneAfter(e, t)' <=> NoneAfter(e, t)
  BY DEF NoneAfter
<1>5. \A e \in Photos : NoneAfter(e, now')
  <2> TAKE e \in Photos
  <2>1. e \in Int /\ now \in Int /\ now' \in Int
    BY PhotosAreTimes, NeverIsNoTime DEF TypeFlow, TypeOK
  <2> QED BY <2>1 DEF Dated, NoneAfter
<1>6. Dated'
  BY <1>1, <1>4, <1>5 DEF Dated, NoneAfter
<1> QED BY <1>2, <1>3, <1>6

LEMMA QueuePhotoInv == ASSUME TypeFlow, PhotoInv, QueuePhoto PROVE PhotoInv'
<1> USE DEF PhotoInv, photoVars
<1>1. /\ save_file_fifo \in Seq(Times) /\ detector.time \in Times /\ now \in Times
      /\ detector.time <= now
  BY DEF TypeFlow, TypeOK, Dated
<1>2. /\ Carried' = Carried /\ UNCHANGED photoVars /\ now' = now
      /\ detector'.time = detector.time /\ detector'.pc = "event"
      /\ lastSaved' = [min |-> min(detector.time), sec |-> sec(detector.time)]
  BY DEF QueuePhoto, Carried, TypeFlow, TypeOK
<1>3. ToSet(ftp_up_fifo.nodes)' = ToSet(ftp_up_fifo.nodes)
  BY <1>2
<1>4. OnDisk'
  BY <1>2 DEF OnDisk, DiskAccounted, InFlight
<1>5. \A e \in Photos : NoneAfter(e, detector.time) /\ e \in Int
  BY PhotosAreTimes, NeverIsNoTime DEF QueuePhoto, Dated
<1>6. \A e \in Photos : NoneAfter(e, now)'
  BY <1>1, <1>2, <1>5, NeverIsNoTime DEF NoneAfter
<1>7. CASE save_file_fifo' = save_file_fifo
  <2>1. Photos' = Photos
    BY <1>2, <1>3, <1>7 DEF Photos
  <2>2. InOrder'
    BY <1>2, <1>7 DEF InOrder
  <2>3. Dated'
    BY <1>1, <1>2, <1>6, <2>1 DEF Dated
  <2> QED BY <1>4, <2>2, <2>3
<1>8. CASE is_need_save_pic /\ save_file_fifo' = Append(save_file_fifo, detector.time)
  <2>1. \A e \in Photos : e < detector.time
    BY <1>1, <1>5, <1>8, NeverIsNoTime DEF NoneAfter, is_need_save_pic
  <2>2. ToSet(save_file_fifo)' = ToSet(save_file_fifo) \cup {detector.time}
    BY <1>1, <1>8, PushList
  <2>3. Increasing(save_file_fifo)'
    BY <1>1, <1>8, <2>1, PushIncreasing DEF InOrder, Photos
  <2>4. InOrder'
    BY <1>2, <1>3, <2>1, <2>2, <2>3 DEF InOrder, Photos
  <2>5. Photos' = Photos \cup {detector.time}
    BY <1>2, <1>3, <2>2 DEF Photos
  <2>6. NoneAfter(detector.time, now)'
    BY <1>1, <1>2 DEF NoneAfter
  <2>7. Dated'
    BY <1>1, <1>2, <1>6, <2>5, <2>6 DEF Dated
  <2> QED BY <1>4, <2>4, <2>7
<1> QED BY <1>7, <1>8 DEF QueuePhoto

LEMMA DetectorPhotoInv == ASSUME TypeFlow, PhotoInv, Detector PROVE PhotoInv'
<1>1. now \in Times /\ detector.time <= now /\ now <= now
  BY NeverIsNoTime DEF TypeFlow, TypeOK, PhotoInv, Dated
<1>2. ASSUME NEW users \in Boxes, Callback(users) PROVE PhotoInv'
  BY <1>1, <1>2, NothingAsked DEF Callback
<1>3. CASE trigger_up
  BY <1>1, <1>3, NothingAsked DEF trigger_up, TypeFlow, TypeOK
<1>4. CASE mark_face
  <2>1. detector'.pc # "photo" /\ detector'.time <= now
    BY <1>1, <1>4, ClockAssumption DEF mark_face, AtCallback, TypeFlow, TypeOK, Times
  <2> QED BY <1>1, <1>4, <2>1, NothingAsked DEF mark_face
<1> QED BY <1>2, <1>3, <1>4, QueuePhotoInv DEF Detector

\* A step of the saver or the uploader keeps the dates of the photos that are left.
LEMMA DatedKept ==
    ASSUME PhotoInv, UNCHANGED <<now, lastSaved, detector>>, Photos' \subseteq Photos
    PROVE  Dated'
BY DEF PhotoInv, Dated, NoneAfter

LEMMA SaverPhotoInv == ASSUME TypeFlow, PhotoInv, Saver PROVE PhotoInv'
<1> USE DEF PhotoInv
<1>1. CASE SaveSize
  <2>1. Carried' = Carried /\ Photos' = Photos
    BY <1>1 DEF SaveSize, Carried, Photos, TypeFlow, TypeOK
  <2>2. InOrder' /\ OnDisk'
    BY <1>1, <2>1 DEF SaveSize, InOrder, OnDisk, DiskAccounted, InFlight, TypeFlow, TypeOK
  <2> QED BY <1>1, <2>1, <2>2, DatedKept DEF SaveSize
<1>2. CASE SavePop
  <2> DEFINE file == Head(save_file_fifo)
  <2>1. /\ save_file_fifo \in Seq(Times) /\ save_file_fifo # <<>>
        /\ saver.pc = "pop" /\ saver.file = Never
    BY <1>2 DEF SavePop, TypeFlow, TypeOK, Flow, OnDisk
  <2>2. /\ save_file_fifo' = Tail(save_file_fifo) /\ disk' = disk \cup {file}
        /\ saver' = [pc |-> "push", file |-> file] /\ ftp_up_fifo' = ftp_up_fifo
        /\ uploader' = uploader /\ stray' = stray
    BY <1>2, <2>1 DEF SavePop
  <2>3. /\ file \in ToSet(save_file_fifo) /\ ToSet(save_file_fifo') \subseteq ToSet(save_file_fifo)
        /\ Increasing(save_file_fifo') /\ \A e \in ToSet(save_file_fifo') : file < e
    BY <2>1, <2>2, PopList, PopIncreasing DEF InOrder
  <2>4. Carried = {} /\ Carried' = {file}
    BY <2>1, <2>2 DEF Carried
  <2>5. Photos' \subseteq Photos
    BY <2>2, <2>3, <2>4 DEF Photos
  <2>6. InOrder'
    BY <2>2, <2>3, <2>4 DEF InOrder
  <2>7. DiskAccounted'
    <3>1. disk \subseteq ToSet(ftp_up_fifo.nodes) \cup stray
      BY <2>1, NeverIsNoTime DEF OnDisk, DiskAccounted, InFlight, TypeFlow, TypeOK
    <3> QED BY <2>2, <3>1 DEF DiskAccounted, InFlight
  <2>8. OnDisk'
    <3>1. uploader.pc = "pop" => uploader.file \in ToSet(ftp_up_fifo.nodes)
      <4>1. ftp_up_fifo.nodes # <<>> => Head(ftp_up_fifo.nodes) \in ToSet(ftp_up_fifo.nodes)
        BY PopList DEF TypeFlow, TypeOK
      <4> QED BY <4>1 DEF TypeFlow, Flow
    <3>2. uploader.pc = "pop" => uploader.file # file
      <4>1. \A a \in ToSet(ftp_up_fifo.nodes) : a < file /\ a \in Int /\ file \in Int
        BY <2>3, PhotosAreTimes, NeverIsNoTime DEF InOrder, Photos
      <4> QED BY <3>1, <4>1
    <3> QED BY <2>2, <2>7, <3>2 DEF OnDisk
  <2> QED BY <1>2, <2>5, <2>6, <2>8, DatedKept DEF SavePop
<1>3. CASE SavePush
  <2>1. /\ saver.file \in Times /\ ftp_up_fifo.nodes \in Seq(Times) /\ Carried = {saver.file}
        /\ Carried' = {} /\ saver'.file = Never /\ saver'.pc = "size"
        /\ save_file_fifo' = save_file_fifo /\ uploader' = uploader /\ disk' = disk
    BY <1>3 DEF SavePush, TypeFlow, TypeOK, Flow, Carried
  <2>2. CASE HasRoom(ftp_up_fifo.size)
    <3>1. ftp_up_fifo'.nodes = Append(ftp_up_fifo.nodes, saver.file) /\ stray' = stray
      BY <1>3, <2>2 DEF SavePush, PushBack
    <3>2. ToSet(ftp_up_fifo'.nodes) = ToSet(ftp_up_fifo.nodes) \cup {saver.file}
      BY <2>1, <3>1, PushList
    <3>3. Increasing(ftp_up_fifo'.nodes)
      BY <2>1, <3>1, PushIncreasing DEF InOrder
    <3>4. InOrder'
      BY <2>1, <3>2, <3>3 DEF InOrder
    <3>5. Photos' \subseteq Photos
      BY <2>1, <3>2 DEF Photos
    <3>6. OnDisk'
      BY <2>1, <3>1, <3>2 DEF OnDisk, DiskAccounted, InFlight
    <3> QED BY <1>3, <3>4, <3>5, <3>6, DatedKept DEF SavePush
  <2>3. CASE ~HasRoom(ftp_up_fifo.size)
    <3>1. ftp_up_fifo' = ftp_up_fifo /\ stray' = stray \cup {saver.file}
      BY <1>3, <2>3 DEF SavePush
    <3>2. InOrder' /\ Photos' \subseteq Photos
      BY <2>1, <3>1 DEF InOrder, Photos
    <3>3. OnDisk'
      BY <2>1, <3>1 DEF OnDisk, DiskAccounted, InFlight
    <3> QED BY <1>3, <3>2, <3>3, DatedKept DEF SavePush
  <2> QED BY <2>2, <2>3
<1> QED BY <1>1, <1>2, <1>3 DEF Saver

LEMMA UploaderPhotoInv == ASSUME TypeFlow, PhotoInv, Uploader PROVE PhotoInv'
<1> USE DEF PhotoInv
<1>1. CASE FtpSize \/ FtpFront
  <2>1. Carried' = Carried /\ Photos' = Photos
    BY <1>1 DEF FtpSize, FtpFront, Carried, Photos
  <2>2. InOrder' /\ OnDisk'
    BY <1>1, <2>1 DEF FtpSize, FtpFront, InOrder, OnDisk, DiskAccounted, InFlight, TypeFlow, TypeOK
  <2> QED BY <1>1, <2>1, <2>2, DatedKept DEF FtpSize, FtpFront
<1>2. CASE ftpup
  <2>1. Carried' = Carried /\ Photos' = Photos /\ uploader'.file = uploader.file
    BY <1>2 DEF ftpup, Carried, Photos, TypeFlow, TypeOK
  <2>2. InOrder'
    BY <1>2, <2>1 DEF ftpup, InOrder
  <2>3. OnDisk'
    BY <1>2, <2>1 DEF ftpup, Removed, OnDisk, DiskAccounted, InFlight
  <2> QED BY <1>2, <2>1, <2>2, <2>3, DatedKept DEF ftpup
<1>3. CASE FtpPop
  <2>1. /\ ftp_up_fifo.nodes \in Seq(Times) /\ ftp_up_fifo.nodes # <<>>
        /\ uploader.file = Head(ftp_up_fifo.nodes)
    BY <1>3 DEF FtpPop, TypeFlow, TypeOK, Flow
  <2>2. /\ ftp_up_fifo'.nodes = Tail(ftp_up_fifo.nodes) /\ uploader'.pc = "size"
        /\ UNCHANGED <<saver, save_file_fifo, disk, stray>>
    BY <1>3 DEF FtpPop, PopFront
  <2>3. /\ ToSet(ftp_up_fifo.nodes) = {uploader.file} \cup ToSet(ftp_up_fifo'.nodes)
        /\ Increasing(ftp_up_fifo'.nodes)
    BY <2>1, <2>2, PopList, PopIncreasing DEF InOrder
  <2>4. Carried' = Carried /\ Photos' \subseteq Photos
    BY <2>2, <2>3 DEF Carried, Photos
  <2>5. InOrder'
    BY <2>2, <2>3, <2>4 DEF InOrder
  <2>6. OnDisk'
    BY <1>3, <2>2, <2>3 DEF FtpPop, OnDisk, DiskAccounted, InFlight
  <2> QED BY <1>3, <2>4, <2>5, <2>6, DatedKept DEF FtpPop
<1>4. ASSUME NEW size \in 0 .. FifoLimit + 2, NEW kept \in BOOLEAN, PopMeetsPush(size, kept)
      PROVE  PhotoInv'
  <2>1. /\ ftp_up_fifo.nodes \in Seq(Times) /\ ftp_up_fifo.nodes # <<>>
        /\ uploader.file = Head(ftp_up_fifo.nodes) /\ saver.file \in Times
        /\ Carried = {saver.file} /\ Carried' = {} /\ saver'.file = Never /\ saver'.pc = "size"
        /\ uploader'.pc = "size" /\ UNCHANGED <<save_file_fifo, disk>>
    BY <1>4 DEF PopMeetsPush, TypeFlow, TypeOK, Flow, Carried
  <2> DEFINE rest == Tail(ftp_up_fifo.nodes)
  <2>2. /\ rest \in Seq(Times) /\ ToSet(ftp_up_fifo.nodes) = {uploader.file} \cup ToSet(rest)
        /\ Increasing(rest)
    BY <2>1, PopList, PopIncreasing DEF InOrder
  <2> HIDE DEF rest
  <2>3. CASE kept
    <3>1. ftp_up_fifo'.nodes = Append(rest, saver.file) /\ stray' = stray
      BY <1>4, <2>3 DEF PopMeetsPush, rest
    <3>2. ToSet(ftp_up_fifo'.nodes) = ToSet(rest) \cup {saver.file}
      <4>1. ToSet(Append(rest, saver.file)) = ToSet(rest) \cup {saver.file}
        BY ONLY <2>1, <2>2, PushList
      <4> QED BY ONLY <3>1, <4>1
    <3>3. Increasing(ftp_up_fifo'.nodes)
      BY <2>1, <2>2, <3>1, PushIncreasing DEF InOrder
    <3>4. InOrder' /\ Photos' \subseteq Photos
      BY <2>1, <2>2, <3>2, <3>3 DEF InOrder, Photos
    <3>5. OnDisk'
      BY <1>4, <2>1, <2>2, <3>1, <3>2 DEF PopMeetsPush, OnDisk, DiskAccounted, InFlight
    <3> QED BY <1>4, <3>4, <3>5, DatedKept DEF PopMeetsPush
  <2>4. CASE ~kept
    <3>1. ftp_up_fifo'.nodes = <<>> /\ stray' = stray \cup {saver.file}
          /\ Len(ftp_up_fifo.nodes) = 1
      BY <1>4, <2>4 DEF PopMeetsPush
    <3>2. ToSet(ftp_up_fifo'.nodes) = {} /\ ToSet(rest) = {}
      <4>1. rest \in Seq(Times) /\ Len(rest) = 0
        BY <2>1, <3>1, PopList DEF rest
      <4>2. rest = <<>>
        BY <4>1
      <4> QED BY <3>1, <4>2 DEF ToSet
    <3>3. InOrder' /\ Photos' \subseteq Photos
      BY <2>1, <3>1, <3>2 DEF InOrder, Photos, Increasing
    <3>4. OnDisk'
      BY <1>4, <2>1, <2>2, <3>1, <3>2 DEF PopMeetsPush, OnDisk, DiskAccounted, InFlight
    <3> QED BY <1>4, <3>3, <3>4, DatedKept DEF PopMeetsPush
  <2> QED BY <2>3, <2>4
<1>5. CASE PopBreaksList
  <2>1. Carried' = Carried /\ Photos' = Photos
    BY <1>5 DEF PopBreaksList, Carried, Photos
  <2>2. InOrder' /\ OnDisk'
    BY <1>5, <2>1 DEF PopBreaksList, InOrder, OnDisk, DiskAccounted, InFlight
  <2> QED BY <1>5, <2>1, <2>2, DatedKept DEF PopBreaksList
<1> QED BY <1>1, <1>2, <1>3, <1>4, <1>5 DEF Uploader

LEMMA NextPhotoInv == ASSUME TypeFlow, PhotoInv, [Next]_vars PROVE PhotoInv'
<1>1. now \in Times /\ detector.time <= now /\ now <= now
  BY NeverIsNoTime DEF TypeFlow, TypeOK, PhotoInv, Dated
<1>2. CASE Tick
  <2>1. now' \in Times /\ now <= now' /\ detector.time <= now'
    BY <1>1, <1>2, ClockAssumption DEF Tick, Times, TypeFlow, TypeOK
  <2> QED BY <1>2, <2>1, NothingAsked DEF Tick
<1>3. CASE ftp_init
  <2>1. Carried' = Carried /\ Photos' = Photos
    BY <1>3 DEF ftp_init, Carried, Photos
  <2>2. InOrder' /\ OnDisk'
    BY <1>3, <2>1 DEF ftp_init, PhotoInv, InOrder, OnDisk, DiskAccounted, InFlight
  <2> QED BY <1>3, <2>1, <2>2, DatedKept DEF ftp_init, PhotoInv
<1>4. CASE Publisher \/ UNCHANGED vars
  <2>1. UNCHANGED <<photoVars, save_file_fifo, lastSaved, now, detector>>
    BY <1>4 DEF Publisher, UpSize, UpPublish, vars, photoVars
  <2> QED BY <1>1, <2>1, NothingAsked
<1> QED BY <1>2, <1>3, <1>4, DetectorPhotoInv, SaverPhotoInv, UploaderPhotoInv DEF Next

LEMMA PhotoInvHolds == Spec => []PhotoInv
BY InitPhotoInv, NextPhotoInv, TypeFlowHolds, PTL DEF Spec

\* The three places, put together, are in order.
LEMMA ChainInOrder == TypeFlow /\ PhotoInv => PhotosInOrder
<1> SUFFICES ASSUME TypeFlow, PhotoInv PROVE PhotosInOrder
  OBVIOUS
<1> DEFINE hand == IF saver.pc = "push" THEN <<saver.file>> ELSE <<>>
           chain == ftp_up_fifo.nodes \o hand \o save_file_fifo
<1>1. /\ ftp_up_fifo.nodes \in Seq(Times) /\ save_file_fifo \in Seq(Times) /\ hand \in Seq(Times)
      /\ Increasing(hand) /\ ToSet(hand) = Carried
  BY DEF TypeFlow, TypeOK, Flow, Increasing, ToSet, Carried
<1> HIDE DEF hand
<1>2. /\ ftp_up_fifo.nodes \o hand \in Seq(Times) /\ Increasing(ftp_up_fifo.nodes \o hand)
      /\ ToSet(ftp_up_fifo.nodes \o hand) = ToSet(ftp_up_fifo.nodes) \cup Carried
  BY <1>1, ConcatIncreasing DEF PhotoInv, InOrder
<1>3. chain \in Seq(Times) /\ Increasing(chain)
  BY <1>1, <1>2, ConcatIncreasing DEF PhotoInv, InOrder
<1>4. ftp_up_fifo.nodes # <<>> => chain[1] = Head(ftp_up_fifo.nodes)
  BY <1>1
<1> QED BY <1>3, <1>4 DEF hand, PhotosInOrder, Increasing, TypeFlow, Flow

\* Photos reach the uploader in the order they were asked for and none twice, also when
\* process_ftpup's unlocked pop_front meets a push_back.
THEOREM PhotosOrdered == Spec => []PhotosInOrder
BY ChainInOrder, TypeFlowHolds, PhotoInvHolds, PTL

\* A photo on disk is on its way or one of those known to be left.
THEOREM DiskIsAccounted == Spec => []DiskAccounted
<1>1. PhotoInv => DiskAccounted
  BY DEF PhotoInv, OnDisk
<1> QED BY <1>1, PhotoInvHolds, PTL

-----------------------------------------------------------------------------
(* The marks *)

\* A user reported at t0 may be reported again at t: FILTER_SECOND have passed, or it is
\* another minute.
Apart(t0, t) == /\ t0 <= t
                /\ t - t0 >= FilterSecond \/ t0 \div SecsPerMin # t \div SecsPerMin

\* What keeps a user from being reported again too soon: enough time, a mark at least as
\* late as the report, or the loop of mark_face, which has yet to come to the user.
Held(u) ==
    \/ Apart(lastUp[u], now)
    \/ \E i \in DOMAIN mark_list : mark_list[i].user = u /\ lastUp[u] <= mark_list[i].time
    \/ detector.pc = "mark" /\ lastUp[u] = detector.time /\ u \in ToSet(detector.users)

\* The users that an event on its way to up_fifo names bear no mark, and may be reported.
EventAllowed ==
    detector.pc \in {"photo", "event"} =>
      \A u \in Wanted(detector.users) :
         /\ ~has_marked(mark_list, u)
         /\ lastUp[u] # Never => Apart(lastUp[u], detector.time)

\* A mark that the loop of mark_face finds on such a user is of this event.
MarksOfEvent ==
    detector.pc = "mark" =>
      \A i \in DOMAIN mark_list :
         mark_list[i].user \in Wanted(detector.users) => mark_list[i].time = detector.time

ReportInv ==
    /\ \A i \in DOMAIN mark_list : mark_list[i].time <= now
    /\ \A u \in Users : lastUp[u] # Never => lastUp[u] <= now /\ Held(u)
    /\ EventAllowed
    /\ MarksOfEvent

LEMMA Division ==
    ASSUME NEW M \in Nat \ {0}, NEW t \in Nat
    PROVE  /\ t \div M \in Nat /\ t % M \in 0 .. M - 1
           /\ t = M * (t \div M) + (t % M)
<1>1. t = M * (t \div M) + (t % M)
  OBVIOUS
<1>2. t % M \in 0 .. M - 1
  OBVIOUS
<1>3. t \div M \in Nat
  OBVIOUS
<1> QED BY <1>1, <1>2, <1>3

\* Numbers of two digits to a base, in order.
LEMMA Digits ==
    ASSUME NEW M \in Nat \ {0}, NEW p \in Nat, NEW q \in Nat,
           NEW r \in 0 .. M - 1, NEW s \in 0 .. M - 1, M * p + r <= M * q + s
    PROVE  /\ p <= q
           /\ (M * q + s) - (M * p + r) < M => q \in {p, p + 1}
           /\ p = q => s - r = (M * q + s) - (M * p + r)
<1>0. M * p \in Nat /\ M * q \in Nat
  OBVIOUS
<1>1. p <= q
  <2> SUFFICES ASSUME q + 1 <= p PROVE FALSE
    OBVIOUS
  <2>1. M * (q + 1) <= M * p /\ M * (q + 1) = M * q + M
    OBVIOUS
  <2> QED BY <1>0, <2>1
<1>2. (M * q + s) - (M * p + r) < M => q \in {p, p + 1}
  <2> SUFFICES ASSUME (M * q + s) - (M * p + r) < M, p + 2 <= q PROVE FALSE
    BY <1>1
  <2>1. M * (p + 2) <= M * q /\ M * (p + 2) = M * p + M + M
    OBVIOUS
  <2> QED BY <1>0, <2>1
<1>3. p = q => s - r = (M * q + s) - (M * p + r)
  BY <1>0
<1> QED BY <1>1, <1>2, <1>3

\* Later times have no smaller quotients; closer than a minute they are equal or
\* one apart, and within a minute the seconds are as far apart as the times.
LEMMA Minutes ==
    ASSUME NEW a \in Nat, NEW b \in Nat, a <= b
    PROVE  /\ a \div SecsPerMin <= b \div SecsPerMin
           /\ b - a < SecsPerMin =>
                 b \div SecsPerMin \in {a \div SecsPerMin, a \div SecsPerMin + 1}
           /\ a \div SecsPerMin = b \div SecsPerMin =>
                 (b % SecsPerMin) - (a % SecsPerMin) = b - a
<1>1. PICK S \in Nat \ {0} : S = SecsPerMin
  BY ClockAssumption
<1>2. PICK p \in Nat, q \in Nat, r \in 0 .. S - 1, s \in 0 .. S - 1 :
        /\ p = a \div S /\ q = b \div S /\ r = a % S /\ s = b % S
        /\ a = S * p + r /\ b = S * q + s
  <2>1. /\ a \div S \in Nat /\ a % S \in 0 .. S - 1 /\ a = S * (a \div S) + (a % S)
        /\ b \div S \in Nat /\ b % S \in 0 .. S - 1 /\ b = S * (b \div S) + (b % S)
    BY Division
  <2> QED BY ONLY <2>1
<1>3. /\ p <= q
      /\ b - a < S => q \in {p, p + 1}
      /\ p = q => s - r = b - a
  BY <1>2, Digits
<1> QED BY ONLY <1>1, <1>2, <1>3

\* Minutes that follow one another are different minutes of the hour.
LEMMA NextMinute ==
    ASSUME NEW p \in Nat
    PROVE  (p + 1) % MinsPerHour # p % MinsPerHour
<1>1. PICK M \in Nat \ {0} : M = MinsPerHour /\ M # 1
  BY ClockAssumption
<1>2. PICK c \in Nat, d \in Nat, r \in 0 .. M - 1, s \in 0 .. M - 1 :
        /\ r = p % M /\ s = (p + 1) % M
        /\ p = M * c + r /\ p + 1 = M * d + s
  <2>1. p + 1 \in Nat
    OBVIOUS
  <2>2. /\ p \div M \in Nat /\ p % M \in 0 .. M - 1 /\ p = M * (p \div M) + (p % M)
        /\ (p + 1) \div M \in Nat /\ (p + 1) % M \in 0 .. M - 1
        /\ p + 1 = M * ((p + 1) \div M) + ((p + 1) % M)
    BY <2>1, Division
  <2> QED BY ONLY <2>2
<1> SUFFICES ASSUME s = r PROVE FALSE
  BY <1>1, <1>2
<1>3. M * d = M * c + 1 /\ M * c \in Nat
  BY <1>2
<1>4. CASE d <= c
  <2>1. M * d <= M * c
    BY <1>4
  <2> QED BY <1>3, <2>1
<1>5. CASE c + 1 <= d
  <2>1. M * (c + 1) <= M * d /\ M * (c + 1) = M * c + M
    BY <1>5
  <2> QED BY <1>1, <1>3, <2>1
<1> QED BY <1>4, <1>5

LEMMA ClockFacts ==
    ASSUME NEW t \in Nat
    PROVE  t \div SecsPerMin \in Nat /\ t % SecsPerMin \in Nat
BY ClockAssumption, Division

\* What Apart means for the property, and that it only becomes true with time.
LEMMA ApartMeans ==
    ASSUME NEW t0 \in Times, NEW t \in Times, Apart(t0, t)
    PROVE  t - t0 >= FilterSecond \/ min(t) # min(t0)
<1>1. /\ t0 \in Nat /\ t \in Nat /\ t0 <= t /\ SecsPerMin \in Nat /\ FilterSecond \in Nat
      /\ FilterSecond <= SecsPerMin
  BY ClockAssumption DEF Times, Apart
<1> SUFFICES ASSUME t - t0 < FilterSecond PROVE min(t) # min(t0)
  BY <1>1
<1>2. t \div SecsPerMin = t0 \div SecsPerMin + 1
  <2>1. t0 \div SecsPerMin # t \div SecsPerMin /\ t - t0 < SecsPerMin
    BY <1>1 DEF Apart
  <2> QED BY <1>1, <2>1, Minutes
<1>3. t0 \div SecsPerMin \in Nat
  BY <1>1, ClockFacts
<1> QED BY <1>2, <1>3, NextMinute DEF min

LEMMA ApartStays ==
    ASSUME NEW t0 \in Times, NEW t \in Times, NEW s \in Times, Apart(t0, t), t <= s
    PROVE  Apart(t0, s)
<1>1. /\ t0 \in Nat /\ t \in Nat /\ s \in Nat /\ FilterSecond \in Nat
      /\ t0 \div SecsPerMin \in Nat /\ t \div SecsPerMin \in Nat /\ s \div SecsPerMin \in Nat
  BY ClockAssumption, ClockFacts DEF Times
<1>2. t0 \div SecsPerMin <= t \div SecsPerMin /\ t \div SecsPerMin <= s \div SecsPerMin
  BY <1>1, Minutes DEF Apart
<1> QED BY <1>1, <1>2 DEF Apart

\* check_timeout keeps the mark that still holds a user back.
LEMMA MarkHolds ==
    ASSUME NEW t0 \in Times, NEW t \in Times, NEW mark \in [user : Entry, time : Times],
           t0 <= mark.time, mark.time <= t, ~Apart(t0, t)
    PROVE  Fresh(mark, t)
<1> DEFINE m == mark.time
<1>1. /\ t0 \in Nat /\ t \in Nat /\ m \in Nat /\ FilterSecond \in Nat
      /\ t0 \div SecsPerMin \in Nat /\ t \div SecsPerMin \in Nat /\ m \div SecsPerMin \in Nat
  BY ClockAssumption, ClockFacts DEF Times
<1>2. t - t0 < FilterSecond /\ t0 \div SecsPerMin = t \div SecsPerMin
  BY <1>1 DEF Apart
<1>3. m \div SecsPerMin = t \div SecsPerMin
  <2>1. /\ t0 \div SecsPerMin <= m \div SecsPerMin
        /\ m \div SecsPerMin <= t \div SecsPerMin
    BY <1>1, Minutes
  <2> QED BY <1>1, <1>2, <2>1
<1>4. (t % SecsPerMin) - (m % SecsPerMin) = t - m
  BY <1>1, <1>3, Minutes
<1>5. (t % SecsPerMin) - (m % SecsPerMin) < FilterSecond
  BY <1>1, <1>2, <1>4
<1> QED BY <1>3, <1>5 DEF Fresh, min, sec

\* The two invariants that ReportInv rests on: types, and the event's moment.
Known == TypeFlow /\ PhotoInv

\* The types of the users and moments that ReportInv speaks of.
LEMMA ReportFacts ==
    ASSUME Known
    PROVE  /\ now \in Times /\ detector.time \in Times /\ detector.time <= now
           /\ mark_list \in Seq([user : Entry, time : Times])
           /\ \A i \in DOMAIN mark_list : mark_list[i] \in [user : Entry, time : Times]
           /\ \A u \in Users : u # Gone /\ lastUp[u] \in Times \cup {Never}
           /\ Wanted(detector.users) \subseteq Users
           /\ Wanted(detector.users) = ToSet(detector.users) \ {Gone}
<1>1. /\ now \in Times /\ detector.time \in Times /\ detector.time <= now
      /\ mark_list \in Seq([user : Entry, time : Times])
      /\ \A u \in Users : lastUp[u] \in Times \cup {Never}
      /\ detector.users \in Seq(Entry)
  BY DEF Known, TypeFlow, TypeOK, PhotoInv, Dated
<1>2. \A i \in DOMAIN mark_list : mark_list[i] \in [user : Entry, time : Times]
  <2>1. DOMAIN mark_list = 1 .. Len(mark_list)
    BY <1>1
  <2>2. \A i \in 1 .. Len(mark_list) : mark_list[i] \in [user : Entry, time : Times]
    BY ONLY <1>1, ElementOfSeq
  <2> QED BY ONLY <2>1, <2>2
<1>3. Wanted(detector.users) = ToSet(detector.users) \ {Gone}
  BY DEF Wanted, ToSet
<1>4. ToSet(detector.users) \subseteq Entry
  BY <1>1 DEF ToSet
<1> QED BY <1>1, <1>2, <1>3, <1>4, GoneAssumption DEF Entry

\* A step that leaves the marks and the events alone, while time may go on.
LEMMA NothingReported ==
    ASSUME Known, ReportInv, UNCHANGED <<mark_list, lastUp>>, now' \in Times, now <= now',
           detector'.users = detector.users, detector'.time = detector.time,
           \/ detector'.pc = detector.pc
           \/ detector.pc = "photo" /\ detector'.pc = "event"
    PROVE  ReportInv'
<1>1. \A t \in Times : t \in Int
  BY NeverIsNoTime
<1>2. \A i \in DOMAIN mark_list' : mark_list'[i].time <= now'
  BY <1>1, ReportFacts DEF ReportInv
<1>3. ASSUME NEW u \in Users, lastUp'[u] # Never PROVE lastUp'[u] <= now' /\ Held(u)'
  <2>1. lastUp[u] \in Times /\ lastUp[u] <= now /\ Held(u)
    BY <1>3, ReportFacts DEF ReportInv
  <2>2. lastUp'[u] <= now'
    BY <1>1, <2>1, ReportFacts
  <2>3. Apart(lastUp[u], now) => Apart(lastUp[u], now')
    BY <2>1, ReportFacts, ApartStays
  <2>4. CASE Apart(lastUp[u], now)
    BY <2>3, <2>4 DEF Held, Apart
  <2>5. CASE ~Apart(lastUp[u], now)
    <3>1. CASE \E i \in DOMAIN mark_list :
                 mark_list[i].user = u /\ lastUp[u] <= mark_list[i].time
      BY <2>2, <3>1 DEF Held
    <3>2. CASE detector.pc = "mark" /\ lastUp[u] = detector.time /\ u \in ToSet(detector.users)
      BY <2>2, <3>2 DEF Held
    <3> QED BY <2>1, <2>5, <3>1, <3>2 DEF Held
  <2> QED BY <2>2, <2>4, <2>5
<1>4. EventAllowed'
  BY ReportFacts DEF ReportInv, EventAllowed, Wanted, has_marked, Apart
<1>5. MarksOfEvent'
  BY DEF ReportInv, MarksOfEvent, Wanted
<1> QED BY <1>2, <1>3, <1>4, <1>5 DEF ReportInv

LEMMA CallbackReportInv ==
    ASSUME Known, ReportInv, NEW users \in Boxes, Callback(users)
    PROVE  ReportInv'
<1> DEFINE marks == check_timeout(now)
           left == Filtered(users, marks)
<1>1. /\ detector.pc = "callback" /\ mark_list' = marks /\ now' = now /\ lastUp' = lastUp
      /\ \/ detector' = detector
         \/ detector' = [pc |-> "photo", users |-> left, time |-> now]
  BY DEF Callback
<1>2. /\ \A i \in DOMAIN marks : \E k \in DOMAIN mark_list : marks[i] = mark_list[k]
      /\ \A k \in DOMAIN mark_list : Fresh(mark_list[k], now) =>
            \E i \in DOMAIN marks : marks[i] = mark_list[k]
  BY ReportFacts, KeptMarks DEF Known, TypeFlow
<1>3. /\ left \in Seq(Entry)
      /\ \A e \in ToSet(left) : e # Gone => ~has_marked(marks, e)
  BY FilteredUsers
<1> HIDE DEF marks, left
<1>4. ASSUME NEW u \in Users, lastUp[u] # Never
      PROVE  /\ lastUp[u] <= now
             /\ \/ Apart(lastUp[u], now)
                \/ \E i \in DOMAIN marks : marks[i].user = u /\ lastUp[u] <= marks[i].time
  <2>1. lastUp[u] \in Times /\ lastUp[u] <= now
    BY <1>4, ReportFacts DEF ReportInv
  <2>2. SUFFICES ASSUME ~Apart(lastUp[u], now)
                 PROVE  \E i \in DOMAIN marks : marks[i].user = u /\ lastUp[u] <= marks[i].time
    BY <2>1
  <2>3. PICK k \in DOMAIN mark_list : mark_list[k].user = u /\ lastUp[u] <= mark_list[k].time
    BY <1>1, <1>4, <2>2 DEF ReportInv, Held
  <2>4. /\ mark_list[k] \in [user : Entry, time : Times] /\ now \in Times
        /\ mark_list[k].time <= now
    BY ReportFacts DEF ReportInv
  <2>5. Fresh(mark_list[k], now)
    BY <2>1, <2>2, <2>3, <2>4, MarkHolds
  <2> QED BY <1>2, <2>3, <2>5
<1>5. \A i \in DOMAIN mark_list' : mark_list'[i].time <= now'
  BY <1>1, <1>2 DEF ReportInv
<1>6. \A u \in Users : lastUp'[u] # Never => lastUp'[u] <= now' /\ Held(u)'
  BY <1>1, <1>4 DEF Held, Apart
<1>7. EventAllowed'
  <2>1. CASE detector' = detector
    BY <1>1, <2>1 DEF EventAllowed
  <2>2. CASE detector' = [pc |-> "photo", users |-> left, time |-> now]
    <3>1. Wanted(left) = ToSet(left) \ {Gone} /\ Wanted(left) \subseteq Users
      <4>1. ToSet(left) \subseteq Entry
        BY <1>3 DEF ToSet
      <4> QED BY <4>1 DEF Wanted, ToSet, Entry
    <3>2. \A u \in Wanted(left) : lastUp[u] # Never => Apart(lastUp[u], now)
      BY <1>3, <1>4, <3>1 DEF has_marked
    <3> QED BY <1>1, <1>3, <2>2, <3>1, <3>2 DEF EventAllowed, has_marked, Apart, Wanted
  <2> QED BY <1>1, <2>1, <2>2
<1>8. MarksOfEvent'
  BY <1>1 DEF MarksOfEvent
<1> QED BY <1>5, <1>6, <1>7, <1>8 DEF ReportInv

LEMMA TriggerReportInv == ASSUME Known, ReportInv, trigger_up PROVE ReportInv'
<1>1. /\ detector.pc = "event" /\ detector'.pc = "mark" /\ detector'.users = detector.users
      /\ detector'.time = detector.time /\ mark_list' = mark_list /\ now' = now
  BY DEF trigger_up, Known, TypeFlow, TypeOK
<1>2. \A u \in Users : \/ lastUp'[u] = lastUp[u]
                       \/ u \in Wanted(detector.users) /\ lastUp'[u] = detector.time
  BY DEF trigger_up
<1>3. ASSUME NEW u \in Users, lastUp'[u] # Never PROVE lastUp'[u] <= now' /\ Held(u)'
  <2>1. CASE lastUp'[u] = lastUp[u]
    BY <1>1, <1>3, <2>1 DEF ReportInv, Held, Apart
  <2>2. CASE u \in Wanted(detector.users) /\ lastUp'[u] = detector.time
    BY <1>1, <2>2, ReportFacts DEF Held
  <2> QED BY <1>2, <2>1, <2>2
<1>4. MarksOfEvent'
  BY <1>1 DEF ReportInv, EventAllowed, MarksOfEvent, Wanted, has_marked
<1> QED BY <1>1, <1>3, <1>4 DEF ReportInv, EventAllowed

LEMMA MarkReportInv == ASSUME Known, ReportInv, mark_face PROVE ReportInv'
<1> DEFINE u0 == Head(detector.users)
           rest == Tail(detector.users)
<1>1. /\ detector.pc = "mark" /\ now' = now /\ lastUp' = lastUp
      /\ rest # <<>> => detector' = [detector EXCEPT !.users = rest]
      /\ rest = <<>> => detector'.pc = "callback"
  BY DEF mark_face, Rest, AtCallback
<1>2. detector.users \in Seq(Entry) /\ detector.users # <<>>
      /\ detector \in [pc : {"callback", "photo", "event", "mark"}, users : Seq(Entry), time : Times]
  BY <1>1 DEF Known, TypeFlow, TypeOK, Flow
<1>3. /\ u0 \in Entry /\ rest \in Seq(Entry)
      /\ ToSet(detector.users) = {u0} \cup ToSet(rest)
  BY <1>2, PopList
<1>4. \/ has_marked(mark_list, u0) /\ mark_list' = mark_list
      \/ mark_list' = Append(mark_list, [user |-> u0, time |-> detector.time])
  BY DEF mark_face
<1> HIDE DEF u0, rest
<1>5. rest # <<>> => detector'.pc = "mark" /\ detector'.users = rest /\ detector'.time = detector.time
  BY <1>1, <1>2
<1>6. /\ \A i \in DOMAIN mark_list : i \in DOMAIN mark_list' /\ mark_list'[i] = mark_list[i]
      /\ \A i \in DOMAIN mark_list' :
            \/ i \in DOMAIN mark_list /\ mark_list'[i] = mark_list[i]
            \/ mark_list'[i] = [user |-> u0, time |-> detector.time]
      /\ \E i \in DOMAIN mark_list' : mark_list'[i].user = u0
  <2>1. CASE has_marked(mark_list, u0) /\ mark_list' = mark_list
    BY <2>1 DEF has_marked
  <2>2. CASE mark_list' = Append(mark_list, [user |-> u0, time |-> detector.time])
    <3>1. /\ mark_list \in Seq([user : Entry, time : Times])
          /\ [user |-> u0, time |-> detector.time] \in [user : Entry, time : Times]
      BY <1>3, ReportFacts
    <3>2. /\ DOMAIN mark_list = 1 .. Len(mark_list) /\ Len(mark_list) \in Nat
          /\ DOMAIN mark_list' = 1 .. Len(mark_list) + 1
          /\ \A i \in DOMAIN mark_list : mark_list'[i] = mark_list[i]
          /\ mark_list'[Len(mark_list) + 1] = [user |-> u0, time |-> detector.time]
      BY <2>2, <3>1
    <3> QED BY <3>2
  <2> QED BY <1>4, <2>1, <2>2
<1>7. \A i \in DOMAIN mark_list' : mark_list'[i].time <= now'
  BY <1>1, <1>6, ReportFacts DEF ReportInv
<1>8. ASSUME NEW u \in Users, lastUp'[u] # Never PROVE lastUp'[u] <= now' /\ Held(u)'
  <2>1. lastUp[u] <= now /\ Held(u) /\ lastUp[u] \in Times
    BY <1>1, <1>8, ReportFacts DEF ReportInv
  <2>2. CASE Apart(lastUp[u], now)
    BY <1>1, <2>1, <2>2 DEF Held, Apart
  <2>3. CASE \E i \in DOMAIN mark_list : mark_list[i].user = u /\ lastUp[u] <= mark_list[i].time
    BY <1>1, <1>6, <2>1, <2>3 DEF Held
  <2>4. CASE lastUp[u] = detector.time /\ u \in ToSet(rest)
    <3>1. rest # <<>>
      BY <2>4 DEF ToSet
    <3> QED BY <1>1, <1>5, <2>1, <2>4, <3>1 DEF Held
  <2>5. CASE lastUp[u] = detector.time /\ u = u0
    <3>1. u0 \in Wanted(detector.users)
      BY <1>3, <2>5, ReportFacts
    <3>2. PICK i \in DOMAIN mark_list' : mark_list'[i].user = u0
      BY <1>6
    <3>3. mark_list'[i].time = detector.time
      BY <1>1, <1>6, <3>1, <3>2 DEF ReportInv, MarksOfEvent
    <3>4. detector.time <= detector.time
      BY ReportFacts, NeverIsNoTime
    <3> QED BY <1>1, <2>1, <2>5, <3>2, <3>3, <3>4 DEF Held
  <2> QED BY <1>3, <2>1, <2>2, <2>3, <2>4, <2>5 DEF Held
<1>9. EventAllowed'
  BY <1>1, <1>5 DEF EventAllowed
<1>10. MarksOfEvent'
  <2> SUFFICES ASSUME rest # <<>>, NEW i \in DOMAIN mark_list',
                      mark_list'[i].user \in Wanted(rest)
               PROVE  mark_list'[i].time = detector.time
    BY <1>1, <1>5 DEF MarksOfEvent, Wanted
  <2>1. mark_list'[i].user \in Wanted(detector.users)
    BY <1>3, ReportFacts DEF Wanted, ToSet
  <2> QED BY <1>1, <1>6, <2>1 DEF ReportInv, MarksOfEvent
<1> QED BY <1>7, <1>8, <1>9, <1>10 DEF ReportInv

LEMMA InitReportInv == Init => ReportInv
BY DEF Init, AtCallback, ReportInv, EventAllowed, MarksOfEvent

LEMMA NextReportInv == ASSUME Known, ReportInv, [Next]_vars PROVE ReportInv'
<1>1. now \in Times /\ now <= now
  BY NeverIsNoTime DEF Known, TypeFlow, TypeOK
<1>2. CASE Tick
  <2>1. now' \in Times /\ now <= now'
    BY <1>1, <1>2, ClockAssumption DEF Tick, Times
  <2> QED BY <1>2, <2>1, NothingReported DEF Tick, reportVars
<1>3. CASE QueuePhoto
  <2>1. /\ detector'.users = detector.users /\ detector'.time = detector.time
        /\ detector.pc = "photo" /\ detector'.pc = "event"
    BY <1>3 DEF QueuePhoto, Known, TypeFlow, TypeOK
  <2> QED BY <1>1, <1>3, <2>1, NothingReported DEF QueuePhoto, reportVars
<1>4. CASE ftp_init \/ Publisher \/ Saver \/ Uploader \/ UNCHANGED vars
  <2>1. UNCHANGED <<mark_list, lastUp, now, detector>>
    BY <1>4 DEF ftp_init, Publisher, UpSize, UpPublish, Saver, SaveSize, SavePop, SavePush,
       Uploader, FtpSize, FtpFront, ftpup, FtpPop, PopMeetsPush, PopBreaksList, reportVars, vars
  <2> QED BY <1>1, <2>1, NothingReported
<1> QED BY <1>2, <1>3, <1>4, CallbackReportInv, TriggerReportInv, MarkReportInv
        DEF Next, Detector

LEMMA ReportInvHolds == Spec => []ReportInv
<1>1. TypeFlow /\ PhotoInv => Known
  BY DEF Known
<1> QED BY <1>1, InitReportInv, NextReportInv, TypeFlowHolds, PhotoInvHolds, PTL DEF Spec

\* A user's events are at least FILTER_SECOND apart, or of different minutes.
THEOREM ReportsAreSpaced == Spec => ReportsSpaced
<1>1. ASSUME Known, ReportInv, [Next]_vars,
             NEW u \in Users, lastUp'[u] # lastUp[u], lastUp[u] # Never
      PROVE  lastUp'[u] - lastUp[u] >= FilterSecond \/ min(lastUp'[u]) # min(lastUp[u])
  <2>1. CASE trigger_up
    <3>1. u \in Wanted(detector.users) /\ lastUp'[u] = detector.time /\ detector.pc = "event"
      BY <1>1, <2>1 DEF trigger_up
    <3>2. Apart(lastUp[u], detector.time)
      BY <1>1, <3>1 DEF ReportInv, EventAllowed
    <3> QED BY <1>1, <3>1, <3>2, ReportFacts, ApartMeans
  <2>2. CASE ~trigger_up
    BY <1>1, <2>2 DEF Next, Tick, ftp_init, Detector, Callback, QueuePhoto, mark_face,
       Publisher, UpSize, UpPublish, Saver, SaveSize, SavePop, SavePush, Uploader, FtpSize,
       FtpFront, ftpup, FtpPop, PopMeetsPush, PopBreaksList, reportVars, vars
  <2> QED BY <2>1, <2>2
<1>2. TypeFlow /\ PhotoInv => Known
  BY DEF Known
<1>3. TypeFlow /\ PhotoInv /\ ReportInv /\ [Next]_vars =>
        [\A u \in Users : lastUp'[u] # lastUp[u] /\ lastUp[u] # Never
           => \/ lastUp'[u] - lastUp[u] >= FilterSecond
              \/ min(lastUp'[u]) # min(lastUp[u])]_vars
  BY <1>1, <1>2
<1> QED BY <1>3, TypeFlowHolds, PhotoInvHolds, ReportInvHolds, PTL DEF Spec, ReportsSpaced
=============================================================================
