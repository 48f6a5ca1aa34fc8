---------------------------- MODULE CloudUplink ----------------------------
(***************************************************************************)
(* What the camera sends up when it recognises somebody: the detection     *)
(* thread (update_iot) filters the users it reported lately by mark_list,  *)
(* queues a photo in save_file_fifo and an event in up_fifo; one thread    *)
(* publishes events, one takes photos and hands them to ftp_up_fifo, one   *)
(* uploads them.                                                           *)
(*                                                                         *)
(* The consumers read a list's size without its mutex, and process_ftpup   *)
(* pops without it as well.  A pop_front that overlaps a push_back is a    *)
(* data race: PopMeetsPush and PopBreaksList are the choice among what it  *)
(* can leave behind.                                                       *)
(***************************************************************************)
EXTENDS Integers, Sequences, SequencesExt

CONSTANTS Users,          \* mUserID values above 0
          Gone,           \* the -1 a filtered userlist entry is overwritten with
          FifoLimit,      \* 10, for each of the three lists
          FilterSecond,   \* FILTER_SECOND, 30
          SecsPerMin,     \* 60
          MinsPerHour,    \* 60
          Boxes,          \* bound: the users whom one callback's boxes are recognised as
          MaxTime         \* bound: the clock

ASSUME LimitAssumption == FifoLimit \in Nat \ {0}
ASSUME ClockAssumption == /\ SecsPerMin \in Nat \ {0} /\ MinsPerHour \in Nat \ {0, 1}
                          /\ FilterSecond \in 0 .. SecsPerMin
                          /\ MaxTime \in Nat
ASSUME BoxesAssumption == Boxes \subseteq Seq(Users) \ {<<>>}
ASSUME GoneAssumption == Gone \notin Users

Times == 0 .. MaxTime
Never == -1

VARIABLES now,            \* seconds since the start; photos are named by it
          mark_list, up_fifo, save_file_fifo,
          ftp_up_fifo,    \* [nodes, size]: the entries and the count std::list stores
          lastSaved,      \* last_min and last_sec
          detector, publisher, saver, uploader, \* the threads: counter and locals
          ftp_init_flag,
          disk,           \* the photos in FACE_UPPATH
          crashed,        \* front() of an empty list was used, or a list's links are
                          \* broken: the process is not followed any further
          lastUp,         \* history: when each user was last queued in up_fifo
          stray,          \* history: photos dropped on their way but still on disk
          overlapped      \* history: a pop_front has met a push_back

reportVars == <<mark_list, up_fifo, publisher, lastUp>>
photoVars == <<ftp_up_fifo, saver, uploader, ftp_init_flag, disk, stray, overlapped>>
vars == <<now, mark_list, up_fifo, save_file_fifo, ftp_up_fifo, lastSaved, detector,
          publisher, saver, uploader, ftp_init_flag, disk, crashed, lastUp, stray, overlapped>>

min(t) == (t \div SecsPerMin) % MinsPerHour
sec(t) == t % SecsPerMin

\* The detection thread outside update_iot: no event.
AtCallback == [pc |-> "callback", users |-> <<>>, time |-> 0]

Init == /\ now = 0
        /\ mark_list = <<>> /\ up_fifo = <<>> /\ save_file_fifo = <<>>
        /\ ftp_up_fifo = [nodes |-> <<>>, size |-> 0]
        /\ lastSaved = [min |-> 0, sec |-> 0]
        /\ detector = AtCallback
        /\ publisher = [pc |-> "size", size |-> 0]
        /\ saver = [pc |-> "size", file |-> Never]
        /\ uploader = [pc |-> "size", file |-> Never]
        /\ ftp_init_flag = FALSE
        /\ disk = {} /\ stray = {}
        /\ crashed = FALSE
        /\ lastUp = [u \in Users |-> Never]
        /\ overlapped = FALSE

Tick == /\ ~crashed
        /\ now < MaxTime
        /\ now' = now + 1
        /\ UNCHANGED <<save_file_fifo, lastSaved, detector, crashed>>
        /\ UNCHANGED reportVars /\ UNCHANGED photoVars

\* Mutant: the limit off by one.
HasRoom_OneMore(size) == size <= FifoLimit

\* The check before each push, made under the list's mutex.
HasRoom(size) == size < FifoLimit
-----------------------------------------------------------------------------
(* The detection thread: update_iot *)

\* A mark that still suppresses its user; the difference is of ints and may be negative.
Fresh(mark, t) == min(mark.time) = min(t) /\ sec(t) - sec(mark.time) < FilterSecond

\* check_timeout: pops from the front up to the first fresh mark, and no further.
check_timeout(t) ==
    LET fresh == {i \in DOMAIN mark_list : Fresh(mark_list[i], t)}
    IN  IF fresh = {} THEN <<>>
        ELSE SubSeq(mark_list, CHOOSE i \in fresh : \A j \in fresh : i <= j, Len(mark_list))

has_marked(marks, u) == \E i \in DOMAIN marks : marks[i].user = u

\* Is_need_up overwrites the users it filters out.
Filtered(users, marks) == [j \in DOMAIN users |-> IF has_marked(marks, users[j]) THEN Gone ELSE users[j]]
NeedUp(users) == \E j \in DOMAIN users : users[j] # Gone

\* get_msg_info and Is_need_up, for the boxes recognised as users of the group.
Callback(users) ==
    LET marks == check_timeout(now)
        left == Filtered(users, marks)
    IN  /\ ~crashed
        /\ detector.pc = "callback"
        /\ mark_list' = marks
        /\ detector' = IF NeedUp(left) THEN [pc |-> "photo", users |-> left, time |-> now]
                       ELSE detector
        /\ UNCHANGED <<now, up_fifo, save_file_fifo, lastSaved, publisher, crashed, lastUp>>
        /\ UNCHANGED photoVars

\* Mutant: a photo with every event.
is_need_save_pic_Always == TRUE

\* is_need_save_pic: at most one photo in a second.
is_need_save_pic == lastSaved # [min |-> min(detector.time), sec |-> sec(detector.time)]

\* The photo of the event, unless the list is full.
QueuePhoto ==
    /\ ~crashed
    /\ detector.pc = "photo"
    /\ lastSaved' = [min |-> min(detector.time), sec |-> sec(detector.time)]
    /\ save_file_fifo' = IF is_need_save_pic /\ HasRoom(Len(save_file_fifo))
                         THEN Append(save_file_fifo, detector.time) ELSE save_file_fifo
    /\ detector' = [detector EXCEPT !.pc = "event"]
    /\ UNCHANGED <<now, crashed>> /\ UNCHANGED reportVars /\ UNCHANGED photoVars

\* The users of an event that are not filtered.
Wanted(users) == {users[j] : j \in DOMAIN users} \ {Gone}

\* trigger_up: an event that finds the list full is dropped.
trigger_up ==
    /\ ~crashed
    /\ detector.pc = "event"
    /\ detector' = [detector EXCEPT !.pc = "mark"]
    /\ IF HasRoom(Len(up_fifo))
       THEN /\ up_fifo' = Append(up_fifo, [users |-> detector.users, time |-> detector.time])
            /\ lastUp' = [u \in Users |-> IF u \in Wanted(detector.users) THEN detector.time
                                          ELSE lastUp[u]]
       ELSE UNCHANGED <<up_fifo, lastUp>>
    /\ UNCHANGED <<now, mark_list, save_file_fifo, lastSaved, publisher, crashed>>
    /\ UNCHANGED photoVars

\* Mutant: marks only the first user of an event.
Rest_None(users) == <<>>

\* The entries that the loop of mark_face has not come to.
Rest(users) == Tail(users)

\* A turn of the loop of mark_face, whether the event was queued or dropped: overwritten
\* entries are marked too, once.  The calls of trigger_lift that follow leave this
\* component: they are commands on the RS485 port.
mark_face ==
    LET u == Head(detector.users)
    IN  /\ ~crashed
        /\ detector.pc = "mark"
        /\ mark_list' = IF has_marked(mark_list, u) THEN mark_list
                        ELSE Append(mark_list, [user |-> u, time |-> detector.time])
        /\ detector' = IF Rest(detector.users) = <<>> THEN AtCallback
                       ELSE [detector EXCEPT !.users = Rest(detector.users)]
        /\ UNCHANGED <<now, up_fifo, save_file_fifo, lastSaved, publisher, crashed, lastUp>>
        /\ UNCHANGED photoVars

Detector == (\E users \in Boxes : Callback(users)) \/ QueuePhoto \/ trigger_up \/ mark_face
-----------------------------------------------------------------------------
(* process_upevent *)

UpSize ==
    /\ ~crashed
    /\ publisher.pc = "size"
    /\ up_fifo # <<>>
    /\ publisher' = [pc |-> "publish", size |-> Len(up_fifo)]
    /\ UNCHANGED <<now, mark_list, up_fifo, save_file_fifo, lastSaved, detector, crashed, lastUp>>
    /\ UNCHANGED photoVars

\* Mutants: a batch one longer than the size read, or empty.
Batch_Long(n) == n + 1
Batch_None(n) == 0

\* How many events one turn takes: the size read before mUp_Mutex was locked.
Batch(n) == n

\* Holds mUp_Mutex for the whole batch.
UpPublish ==
    /\ ~crashed
    /\ publisher.pc = "publish"
    /\ IF Batch(publisher.size) > Len(up_fifo)
       THEN crashed' = TRUE /\ UNCHANGED up_fifo
       ELSE /\ up_fifo' = SubSeq(up_fifo, Batch(publisher.size) + 1, Len(up_fifo))
            /\ UNCHANGED crashed
    /\ publisher' = [pc |-> "size", size |-> 0]
    /\ UNCHANGED <<now, mark_list, save_file_fifo, lastSaved, detector, lastUp>>
    /\ UNCHANGED photoVars

Publisher == UpSize \/ UpPublish
-----------------------------------------------------------------------------
(* thread_save_file *)

\* The size is read first, without mFifo_Mutex.
SaveSize ==
    /\ ~crashed
    /\ saver.pc = "size"
    /\ save_file_fifo # <<>>
    /\ saver' = [saver EXCEPT !.pc = "pop"]
    /\ UNCHANGED <<now, save_file_fifo, lastSaved, detector, crashed, ftp_up_fifo, uploader,
                   ftp_init_flag, disk, stray, overlapped>>
    /\ UNCHANGED reportVars

\* Then front and pop_front with it, and save_pic writes the picture.
SavePop ==
    /\ ~crashed
    /\ saver.pc = "pop"
    /\ IF save_file_fifo = <<>>
       THEN crashed' = TRUE /\ UNCHANGED <<save_file_fifo, saver, disk>>
       ELSE /\ save_file_fifo' = Tail(save_file_fifo)
            /\ saver' = [pc |-> "push", file |-> Head(save_file_fifo)]
            /\ disk' = disk \cup {Head(save_file_fifo)}
            /\ UNCHANGED crashed
    /\ UNCHANGED <<now, lastSaved, detector, ftp_up_fifo, uploader, ftp_init_flag, stray, overlapped>>
    /\ UNCHANGED reportVars

PushBack(list, file) == [nodes |-> Append(list.nodes, file), size |-> list.size + 1]

\* ftp_up_trigger: a photo that finds the list full stays on disk.
SavePush ==
    /\ ~crashed
    /\ saver.pc = "push"
    /\ IF HasRoom(ftp_up_fifo.size)
       THEN ftp_up_fifo' = PushBack(ftp_up_fifo, saver.file) /\ UNCHANGED stray
       ELSE stray' = stray \cup {saver.file} /\ UNCHANGED ftp_up_fifo
    /\ saver' = [pc |-> "size", file |-> Never]
    /\ UNCHANGED <<now, save_file_fifo, lastSaved, detector, crashed, uploader, ftp_init_flag,
                   disk, overlapped>>
    /\ UNCHANGED reportVars

Saver == SaveSize \/ SavePop \/ SavePush
-----------------------------------------------------------------------------
(* process_ftpup *)

FtpSize ==
    /\ ~crashed
    /\ uploader.pc = "size"
    /\ ftp_up_fifo.size > 0
    /\ uploader' = [uploader EXCEPT !.pc = "front"]
    /\ UNCHANGED <<now, save_file_fifo, lastSaved, detector, crashed, ftp_up_fifo, saver,
                   ftp_init_flag, disk, stray, overlapped>>
    /\ UNCHANGED reportVars

\* front() under mFtpUp_Mutex; of an empty list it is no pointer to a Save_file.
FtpFront ==
    /\ ~crashed
    /\ uploader.pc = "front"
    /\ IF ftp_up_fifo.nodes = <<>>
       THEN crashed' = TRUE /\ UNCHANGED uploader
       ELSE uploader' = [pc |-> "put", file |-> Head(ftp_up_fifo.nodes)] /\ UNCHANGED crashed
    /\ UNCHANGED <<now, save_file_fifo, lastSaved, detector, ftp_up_fifo, saver, ftp_init_flag,
                   disk, stray, overlapped>>
    /\ UNCHANGED reportVars

\* Mutant: ftpup that keeps the file.
Removed_Not(file) == disk

\* ftpup removes the file whether ftpput succeeded or not; before ftp_init it does nothing.
Removed(file) == disk \ {file}

ftpup ==
    /\ ~crashed
    /\ uploader.pc = "put"
    /\ IF ftp_init_flag THEN disk' = Removed(uploader.file) /\ UNCHANGED stray
       ELSE stray' = stray \cup {uploader.file} /\ UNCHANGED disk
    /\ uploader' = [uploader EXCEPT !.pc = "pop"]
    /\ UNCHANGED <<now, save_file_fifo, lastSaved, detector, crashed, ftp_up_fifo, saver,
                   ftp_init_flag, overlapped>>
    /\ UNCHANGED reportVars

PopFront(list) == [nodes |-> Tail(list.nodes), size |-> list.size - 1]

\* pop_front without the mutex, and free.
FtpPop ==
    /\ ~crashed
    /\ uploader.pc = "pop"
    /\ ftp_up_fifo' = PopFront(ftp_up_fifo)
    /\ uploader' = [pc |-> "size", file |-> Never]
    /\ UNCHANGED <<now, save_file_fifo, lastSaved, detector, crashed, saver, ftp_init_flag, disk,
                   stray, overlapped>>
    /\ UNCHANGED reportVars

\* The pop overlaps the push of the saver: the count may miss either update, and a node
\* pushed behind the last one may be unlinked with it.
PopMeetsPush(size, kept) ==
    /\ ~crashed
    /\ uploader.pc = "pop" /\ saver.pc = "push"
    /\ HasRoom(ftp_up_fifo.size)
    /\ size \in {ftp_up_fifo.size - 1, ftp_up_fifo.size, ftp_up_fifo.size + 1}
    /\ ~kept => Len(ftp_up_fifo.nodes) = 1
    /\ ftp_up_fifo' = [nodes |-> IF kept THEN Append(Tail(ftp_up_fifo.nodes), saver.file) ELSE <<>>,
                       size |-> size]
    /\ uploader' = [pc |-> "size", file |-> Never]
    /\ saver' = [pc |-> "size", file |-> Never]
    /\ stray' = IF kept THEN stray ELSE stray \cup {saver.file}
    /\ overlapped' = TRUE
    /\ UNCHANGED <<now, save_file_fifo, lastSaved, detector, crashed, ftp_init_flag, disk>>
    /\ UNCHANGED reportVars

\* The push writes to the only node while the pop frees it, or the pop cuts the list from
\* what is pushed behind it from then on.
PopBreaksList ==
    /\ ~crashed
    /\ uploader.pc = "pop" /\ saver.pc = "push"
    /\ HasRoom(ftp_up_fifo.size) /\ Len(ftp_up_fifo.nodes) = 1
    /\ crashed' = TRUE /\ overlapped' = TRUE
    /\ UNCHANGED <<now, save_file_fifo, lastSaved, detector, ftp_up_fifo, saver, uploader,
                   ftp_init_flag, disk, stray>>
    /\ UNCHANGED reportVars

Uploader == \/ FtpSize \/ FtpFront \/ ftpup \/ FtpPop \/ PopBreaksList
            \/ \E size \in 0 .. FifoLimit + 2, kept \in BOOLEAN : PopMeetsPush(size, kept)

\* By the thread that sets up the MQTT connection, once it has tried to connect.
ftp_init ==
    /\ ~crashed /\ ~ftp_init_flag
    /\ ftp_init_flag' = TRUE
    /\ UNCHANGED <<now, save_file_fifo, lastSaved, detector, crashed, ftp_up_fifo, saver, uploader,
                   disk, stray, overlapped>>
    /\ UNCHANGED reportVars
-----------------------------------------------------------------------------
Next == Tick \/ ftp_init \/ Detector \/ Publisher \/ Saver \/ Uploader

Spec == Init /\ [][Next]_vars

\* Four threads that loop for ever, each ending its turns without waiting on the others.
FairSpec == /\ Spec
            /\ WF_vars(QueuePhoto \/ trigger_up \/ mark_face)
            /\ WF_vars(Publisher) /\ WF_vars(Saver) /\ WF_vars(Uploader)
-----------------------------------------------------------------------------
(* Properties *)

Entry == Users \cup {Gone}
Event == [users : Seq(Entry), time : Times]

\* No user has two marks: mark_face looks before it adds.
MarksDistinct == \A i, j \in DOMAIN mark_list : mark_list[i].user = mark_list[j].user => i = j

\* Types of the lists, the threads' locals and the history; the limits of the lists, and
\* the marks of different users.
TypeOK ==
    /\ now \in Times
    /\ mark_list \in Seq([user : Entry, time : Times])
    /\ up_fifo \in Seq(Event) /\ Len(up_fifo) <= FifoLimit
    /\ save_file_fifo \in Seq(Times) /\ Len(save_file_fifo) <= FifoLimit
    /\ ftp_up_fifo.nodes \in Seq(Times) /\ ftp_up_fifo.size \in Nat
    /\ lastSaved \in [min : 0 .. MinsPerHour - 1, sec : 0 .. SecsPerMin - 1]
    /\ detector \in [pc : {"callback", "photo", "event", "mark"}, users : Seq(Entry), time : Times]
    /\ publisher \in [pc : {"size", "publish"}, size : 0 .. FifoLimit]
    /\ saver \in [pc : {"size", "pop", "push"}, file : Times \cup {Never}]
    /\ uploader \in [pc : {"size", "front", "put", "pop"}, file : Times \cup {Never}]
    /\ ftp_init_flag \in BOOLEAN
    /\ disk \in SUBSET Times /\ stray \in SUBSET Times
    /\ crashed \in BOOLEAN /\ overlapped \in BOOLEAN
    /\ lastUp \in [Users -> Times \cup {Never}]
    /\ MarksDistinct

\* The sizes read before the lock are stale but safe, since each list has one consumer:
\* no thread uses front() of an empty list, unless a pop_front of process_ftpup, which
\* takes no lock, has met a push_back.
NoFrontOfEmpty == crashed => overlapped

\* The filter of check_timeout and mark_face keeps its promise within a minute: an event
\* for a user reported less than FILTER_SECOND earlier in the same minute is not queued.
ReportsSpaced ==
    [][\A u \in Users : lastUp'[u] # lastUp[u] /\ lastUp[u] # Never
         => \/ lastUp'[u] - lastUp[u] >= FilterSecond
            \/ min(lastUp'[u]) # min(lastUp[u])]_vars

\* Photos go through save_file_fifo, the saver, ftp_up_fifo and the uploader in the order
\* they were asked for and none twice, a push that meets a pop included: is_need_save_pic
\* keeps two events from asking for one file name.
PhotosInOrder ==
    LET chain == ftp_up_fifo.nodes \o (IF saver.pc = "push" THEN <<saver.file>> ELSE <<>>)
                   \o save_file_fifo
    IN  /\ \A i, j \in DOMAIN chain : i < j => chain[i] < chain[j]
        /\ uploader.pc \in {"put", "pop"} => chain[1] = uploader.file

InFlight == {saver.file} \cup ToSet(ftp_up_fifo.nodes)

\* FACE_UPPATH does not fill up with what was uploaded: a photo on disk is still on its
\* way, or one of those a full ftp_up_fifo, a lost node or an ftpup before ftp_init left.
DiskAccounted == disk \subseteq InFlight \cup stray

\* An event that is queued is published: the lock, the stale size and the other threads
\* never keep process_upevent from it.
EventsPublished == up_fifo # <<>> ~> (up_fifo = <<>> \/ crashed)

\* "remove time out mark" (cloud_server.cpp:119): what check_timeout leaves in the list is
\* not older than FILTER_SECOND.
TimedOutMarksRemoved ==
    detector.pc = "photo" =>
      \A i \in DOMAIN mark_list : detector.time - mark_list[i].time < FilterSecond
=============================================================================
