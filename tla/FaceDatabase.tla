---------------------------- MODULE FaceDatabase ----------------------------
(***************************************************************************)
(* The face database and the two that write it.  Commands of the cloud go  *)
(* from the MQTT thread through down_fifo to process_downevent, which runs *)
(* them one after another under mDown_Mutex and publishes their results;   *)
(* faces sent to the TCP port are written by that port's thread.  Nothing  *)
(* else keeps the two apart.                                               *)
(*                                                                         *)
(* DBCache keeps two tables on disk and their copies in memory: the map of *)
(* the users and the face group that recognition searches.  Each step of a *)
(* command is one access to one of them, and the device may restart        *)
(* between any two: the power fails, the process dies or a command reboots.*)
(***************************************************************************)
EXTENDS Naturals, Sequences, FiniteSets

CONSTANTS Users,          \* the users' numbers
          Photos,         \* the feature maps of the pictures
          Floors,         \* the floors the cloud registers users for
          TcpFloor,       \* 6, the floor of a user registered by TCP
          Perms,          \* the permissions the cloud sets
          None,           \* no row, no entry
          MaxDown         \* bound: the length of down_fifo

Info == [floor : Floors \cup {TcpFloor}, perm : Perms \cup {1}]
Registration == [floor : Floors \cup {TcpFloor}, photo : Photos]

ASSUME NoneAssumption == None \notin Photos \cup Info \cup Registration
ASSUME MaxDownAssumption == MaxDown \in Nat \ {0}

Registrations(floors) == [type : {"REGFACE"}, user : Users, floor : floors]
DownEvents == Registrations(Floors)
                \cup [type : {"DELFACE"}, user : Users]
                \cup [type : {"SETPERM"}, user : Users, perm : Perms]
                \cup [type : {"RESET"}]
TcpFaces == Registrations({TcpFloor})
Idle == [type |-> "NONE"]
Writers == {"down", "tcp"}

VARIABLES faceinfo, userinfo,       \* the tables: rows by user
          mUserInfoMaps, mUserIDs,  \* DBCache
          group,                    \* the items of the face group, pairs of user and photo
          ready,                    \* FaceRecognitionApi::init has returned
          down_fifo,
          worker,                   \* process_downevent: counter, events left of its batch
          writer,                   \* who writes: step, command, the face taken, the user's new info
          mixed,       \* history: users on whom both have worked at once since the start
          refused,     \* history: users of whom the group has not done as it was asked
          cutOff,      \* history: users on whom a command stopped half-way
          gone,        \* history: users whose deletion was reported and none registered since
          promised     \* history: floor and photo of the last registration reported done

tables == <<faceinfo, userinfo>>
cache == <<mUserInfoMaps, mUserIDs, group>>
history == <<mixed, refused, cutOff, gone, promised>>
vars == <<tables, cache, ready, down_fifo, worker, writer, history>>

NoRows == [u \in Users |-> None]
Resting == [step |-> "idle", cmd |-> Idle, photo |-> None, info |-> None]
Sleeping == [pc |-> "size", left |-> 0]

Init == /\ faceinfo = NoRows /\ userinfo = NoRows
        /\ mUserInfoMaps = NoRows /\ mUserIDs = {} /\ group = {}
        /\ ready = FALSE
        /\ down_fifo = <<>>
        /\ worker = Sleeping
        /\ writer = [w \in Writers |-> Resting]
        /\ mixed = {} /\ refused = {} /\ cutOff = {} /\ gone = {}
        /\ promised = [u \in Users |-> None]
-----------------------------------------------------------------------------
(* Start, restart and the MQTT thread *)

Enrolled == {u \in Users : faceinfo[u] # None}

\* framework.init: creatTable, flushCache and the detector.  The threads that take
\* commands are running by then.  Faces that GpinsertItem refuses are passed over.
LoadDatabase ==
    /\ ~ready
    /\ ready' = TRUE
    /\ mUserInfoMaps' = userinfo
    /\ mUserIDs' = Enrolled
    /\ \E out \in SUBSET Enrolled :
         /\ group' = {<<u, faceinfo[u]>> : u \in Enrolled \ out}
         /\ refused' = out
    /\ UNCHANGED <<tables, down_fifo, worker, writer, mixed, cutOff, gone, promised>>

AtWork(w) == writer[w].step \notin {"idle", "done", "failed"}
WorksOn(w, u) == writer[w].cmd.type \notin {"NONE", "RESET"} /\ writer[w].cmd.user = u

\* One table changed and the other yet to be.
HalfWay(w) == \/ writer[w].step \in {"find", "groupClear", "append", "insert", "deleteFace"}
              \/ writer[w].step = "userRow" /\ writer[w].cmd.type = "REGFACE"

\* What is in memory goes, the commands not yet run with it.
Restart ==
    /\ mUserInfoMaps' = NoRows /\ mUserIDs' = {} /\ group' = {}
    /\ ready' = FALSE
    /\ down_fifo' = <<>>
    /\ worker' = Sleeping
    /\ writer' = [w \in Writers |-> Resting]
    /\ cutOff' = cutOff \cup {u \in Users : \E w \in Writers : HalfWay(w) /\ WorksOn(w, u)}
    /\ mixed' = {} /\ refused' = {}
    /\ UNCHANGED <<tables, gone, promised>>

Locked == worker.pc = "batch"

\* subscribe_user_register_or_modify, _user_delete, _user_auther and _device_control wait
\* for mDown_Mutex and push, whatever the length.
subscribe(event) ==
    /\ ~Locked
    /\ Len(down_fifo) < MaxDown
    /\ down_fifo' = Append(down_fifo, event)
    /\ UNCHANGED <<tables, cache, ready, worker, writer, history>>
-----------------------------------------------------------------------------
(* process_downevent *)

\* The size is read without the lock.
ReadSize ==
    /\ worker.pc = "size"
    /\ down_fifo # <<>>
    /\ worker' = [pc |-> "read", left |-> Len(down_fifo)]
    /\ UNCHANGED <<tables, cache, ready, down_fifo, writer, history>>

LockDown ==
    /\ worker.pc = "read"
    /\ worker' = [worker EXCEPT !.pc = "batch"]
    /\ UNCHANGED <<tables, cache, ready, down_fifo, writer, history>>

\* The first step of a command.
FirstStep == [REGFACE |-> "photo", DELFACE |-> "groupDelete", SETPERM |-> "lookup", RESET |-> "reboot"]

\* A command begins; if the other writer is at the same user, their steps will mix.
Begin(w, cmd) ==
    /\ writer[w].step = "idle"
    /\ writer' = [writer EXCEPT ![w] = [step |-> FirstStep[cmd.type], cmd |-> cmd,
                                         photo |-> None, info |-> None]]
    /\ IF cmd.type = "RESET" THEN UNCHANGED history
       ELSE LET both == {cmd.user} \cap {u \in Users : \E v \in Writers \ {w} : WorksOn(v, u)}
            IN  /\ mixed' = mixed \cup both
                /\ cutOff' = cutOff \cup both
                /\ gone' = IF cmd.type = "REGFACE" THEN gone \ {cmd.user} ELSE gone
                /\ promised' = IF cmd.type = "SETPERM" /\ both = {} THEN promised
                               ELSE [promised EXCEPT ![cmd.user] = None]
                /\ UNCHANGED refused

TakeEvent ==
    /\ Locked /\ worker.left > 0 /\ down_fifo # <<>>
    /\ Begin("down", Head(down_fifo))
    /\ down_fifo' = Tail(down_fifo)
    /\ UNCHANGED <<tables, cache, ready, worker>>

\* Mutant: a loop that does not count.
OneLess_Not(n) == n

OneLess(n) == n - 1

\* The command's histories, when its result is reported.
Report(w) ==
    LET cmd == writer[w].cmd
        done == writer[w].step = "done"
        u == cmd.user
    IN  /\ writer' = [writer EXCEPT ![w] = Resting]
        /\ IF cmd.type = "RESET" \/ cmd.user \in mixed THEN UNCHANGED history
           ELSE /\ cutOff' = IF done /\ cmd.type # "SETPERM" THEN cutOff \ {u} ELSE cutOff
                /\ gone' = IF done /\ cmd.type = "DELFACE" THEN gone \cup {u} ELSE gone
                /\ promised' = IF done /\ cmd.type = "REGFACE"
                               THEN [promised EXCEPT ![u] = [floor |-> cmd.floor, photo |-> writer[w].photo]]
                               ELSE promised
                /\ UNCHANGED <<mixed, refused>>

\* publish_user_register_result, still under the lock.
Publish ==
    /\ writer["down"].step \in {"done", "failed"}
    /\ Report("down")
    /\ worker' = [worker EXCEPT !.left = OneLess(@)]
    /\ UNCHANGED <<tables, cache, ready, down_fifo>>

UnlockDown ==
    /\ Locked /\ worker.left = 0
    /\ worker' = Sleeping
    /\ UNCHANGED <<tables, cache, ready, down_fifo, writer, history>>

\* update_face, called by the thread that receives TCP commands.
TcpBegin(cmd) ==
    /\ Begin("tcp", cmd)
    /\ UNCHANGED <<tables, cache, ready, down_fifo, worker>>

TcpEnd ==
    /\ writer["tcp"].step \in {"done", "failed"}
    /\ Report("tcp")
    /\ UNCHANGED <<tables, cache, ready, down_fifo, worker>>
-----------------------------------------------------------------------------
(* The steps of a command *)

At(w, step) == writer[w].step = step /\ ready
GoTo(w, step) == writer' = [writer EXCEPT ![w].step = step]
Fail(w) == GoTo(w, "failed")
rest == <<ready, down_fifo, worker>>

\* imread, detect and facenetDetect find one good face, or the command fails.  Whose it is
\* stays open: ftpdown's result is ignored, and a file that an earlier download left under
\* the name is taken; update_face reads 32 records, not bytes, behind the head.
TakePhoto(w) ==
    /\ writer[w].step = "photo"
    /\ \/ \E p \in Photos :
            /\ ready
            /\ writer' = [writer EXCEPT ![w].step = "faceRow", ![w].photo = p]
       \/ Fail(w)
    /\ UNCHANGED <<tables, cache, rest, history>>

\* DBCache::updateFaceInfo: REPLACE INTO faceinfo, which may fail,
PutFaceRow(w) ==
    LET cmd == writer[w].cmd
    IN  /\ At(w, "faceRow")
        /\ \/ /\ faceinfo' = [faceinfo EXCEPT ![cmd.user] = writer[w].photo]
              /\ GoTo(w, "find")
           \/ Fail(w) /\ UNCHANGED faceinfo
        /\ UNCHANGED <<userinfo, cache, rest, history>>

\* isFaceInfoExists,
FindID(w) ==
    /\ At(w, "find")
    /\ GoTo(w, IF writer[w].cmd.user \in mUserIDs THEN "groupClear" ELSE "append")
    /\ UNCHANGED <<tables, cache, rest, history>>

ItemsOf(u) == {i \in group : i[1] = u}

\* Mutant: an old item left in the group.
GroupWithout_Same(u) == group

GroupWithout(u) == group \ ItemsOf(u)

\* GpdelItem of a user known by number, its result ignored,
ClearItem(w) ==
    LET u == writer[w].cmd.user
    IN  /\ At(w, "groupClear")
        /\ \/ group' = GroupWithout(u) /\ refused' = refused \ {u}
           \/ ItemsOf(u) # {} /\ refused' = refused \cup {u} /\ UNCHANGED group
        /\ GoTo(w, "insert")
        /\ UNCHANGED <<tables, mUserInfoMaps, mUserIDs, rest, mixed, cutOff, gone, promised>>

\* or one number more in mUserIDs,
AppendID(w) ==
    /\ At(w, "append")
    /\ mUserIDs' = mUserIDs \cup {writer[w].cmd.user}
    /\ GoTo(w, "insert")
    /\ UNCHANGED <<tables, mUserInfoMaps, group, rest, history>>

\* and GpinsertItem, its result ignored too.
InsertItem(w) ==
    LET cmd == writer[w].cmd
    IN  /\ At(w, "insert")
        /\ \/ group' = group \cup {<<cmd.user, writer[w].photo>>} /\ UNCHANGED refused
           \/ refused' = refused \cup {cmd.user} /\ UNCHANGED group
        /\ writer' = [writer EXCEPT ![w].step = "userRow",
                                    ![w].info = [floor |-> cmd.floor, perm |-> 1]]
        /\ UNCHANGED <<tables, mUserInfoMaps, mUserIDs, rest, mixed, cutOff, gone, promised>>

\* DBCache::updateUserInfo: REPLACE INTO userinfo, which may fail,
PutUserRow(w) ==
    /\ At(w, "userRow")
    /\ \/ /\ userinfo' = [userinfo EXCEPT ![writer[w].cmd.user] = writer[w].info]
          /\ GoTo(w, "userMap")
          /\ UNCHANGED cutOff
       \/ /\ Fail(w)
          /\ cutOff' = IF HalfWay(w) THEN cutOff \cup {writer[w].cmd.user} ELSE cutOff
          /\ UNCHANGED userinfo
    /\ UNCHANGED <<faceinfo, cache, rest, mixed, refused, gone, promised>>

\* then the map.
PutUserMap(w) ==
    /\ At(w, "userMap")
    /\ mUserInfoMaps' = [mUserInfoMaps EXCEPT ![writer[w].cmd.user] = writer[w].info]
    /\ GoTo(w, "done")
    /\ UNCHANGED <<tables, mUserIDs, group, rest, history>>

\* DBCache::delface: nothing is done if GpdelItem fails, as it may for want of an item,
GroupDelete(w) ==
    LET u == writer[w].cmd.user
    IN  /\ At(w, "groupDelete")
        /\ \/ GoTo(w, "deleteUser") /\ group' = GroupWithout(u) /\ refused' = refused \ {u}
           \/ Fail(w) /\ UNCHANGED <<group, refused>>
        /\ UNCHANGED <<tables, mUserInfoMaps, mUserIDs, rest, mixed, cutOff, gone, promised>>

\* else both rows, where an error of the database ends the process, a Restart; the map and
\* mUserIDs keep the user.
DeleteUserRow(w) ==
    /\ At(w, "deleteUser")
    /\ userinfo' = [userinfo EXCEPT ![writer[w].cmd.user] = None]
    /\ GoTo(w, "deleteFace")
    /\ UNCHANGED <<faceinfo, cache, rest, history>>

\* Mutant: the row of the face stays.
WithoutFace_Same(u) == faceinfo

WithoutFace(u) == [faceinfo EXCEPT ![u] = None]

\* The result is the number of rows of the last DELETE.
DeleteFaceRow(w) ==
    LET u == writer[w].cmd.user
    IN  /\ At(w, "deleteFace")
        /\ faceinfo' = WithoutFace(u)
        /\ GoTo(w, IF faceinfo[u] = None THEN "failed" ELSE "done")
        /\ UNCHANGED <<userinfo, cache, rest, history>>

\* Mutant: the permission set on a new record.
WithPerm_New(info, p) == [floor |-> TcpFloor, perm |-> p]

WithPerm(info, p) == [info EXCEPT !.perm = p]

\* aiot_setperm: the map's entry, which may be that of a user deleted since the start, is
\* written back to the table with the new permission.
LookUp(w) ==
    LET cmd == writer[w].cmd
    IN  /\ At(w, "lookup")
        /\ IF mUserInfoMaps[cmd.user] = None THEN Fail(w) /\ UNCHANGED cutOff
           ELSE /\ writer' = [writer EXCEPT ![w].step = "userRow",
                                            ![w].info = WithPerm(mUserInfoMaps[cmd.user], cmd.perm)]
                /\ cutOff' = IF userinfo[cmd.user] = None THEN cutOff \cup {cmd.user} ELSE cutOff
        /\ UNCHANGED <<tables, cache, rest, mixed, refused, gone, promised>>

\* system("reboot") returns before the system stops; a command that comes before the cache
\* and the detector exist kills the process.
RebootDevice(w) ==
    \/ writer[w].step = "reboot" /\ GoTo(w, "done") /\ UNCHANGED <<tables, cache, rest, history>>
    \/ (writer[w].step = "reboot" \/ (AtWork(w) /\ ~ready)) /\ Restart

Step(w) == \/ TakePhoto(w) \/ PutFaceRow(w) \/ FindID(w) \/ ClearItem(w) \/ AppendID(w)
           \/ InsertItem(w) \/ PutUserRow(w) \/ PutUserMap(w)
           \/ GroupDelete(w) \/ DeleteUserRow(w) \/ DeleteFaceRow(w)
           \/ LookUp(w) \/ RebootDevice(w)

\* Two threads change mUserIDs, or the map, at the same time: a data race.  The process may
\* die, which is a Restart, or one of the changes be lost.
AppendsMeet(w) ==
    /\ \A v \in Writers : At(v, "append")
    /\ mUserIDs' = mUserIDs \cup {writer[w].cmd.user}
    /\ writer' = [v \in Writers |-> [writer[v] EXCEPT !.step = "insert"]]
    /\ mixed' = mixed \cup {writer[v].cmd.user : v \in Writers}
    /\ UNCHANGED <<tables, mUserInfoMaps, group, rest, refused, cutOff, gone, promised>>

InsertsMeet(w) ==
    /\ \A v \in Writers : At(v, "userMap")
    /\ mUserInfoMaps' = [mUserInfoMaps EXCEPT ![writer[w].cmd.user] = writer[w].info]
    /\ writer' = [v \in Writers |-> [writer[v] EXCEPT !.step = "done"]]
    /\ mixed' = mixed \cup {writer[v].cmd.user : v \in Writers}
    /\ UNCHANGED <<tables, mUserIDs, group, rest, refused, cutOff, gone, promised>>
-----------------------------------------------------------------------------
process_downevent == \/ ReadSize \/ LockDown \/ TakeEvent \/ Publish \/ UnlockDown \/ Step("down")

Next == \/ LoadDatabase \/ Restart
        \/ \E event \in DownEvents : subscribe(event)
        \/ process_downevent
        \/ \E cmd \in TcpFaces : TcpBegin(cmd)
        \/ Step("tcp") \/ TcpEnd
        \/ \E w \in Writers : AppendsMeet(w) \/ InsertsMeet(w)

Spec == Init /\ [][Next]_vars

\* The thread loops for ever and none of its calls waits for another thread of the program.
FairSpec == Spec /\ WF_vars(process_downevent)
-----------------------------------------------------------------------------
(* Properties *)

Busy(u) == \E w \in Writers : AtWork(w) /\ WorksOn(w, u)

Steps == {"idle", "photo", "faceRow", "find", "groupClear", "append", "insert", "userRow", "userMap",
          "groupDelete", "deleteUser", "deleteFace", "lookup", "reboot", "done", "failed"}

\* Types; and a batch of process_downevent, whose size was read without the lock, never
\* asks for more events than the list has.
TypeOK ==
    /\ faceinfo \in [Users -> Photos \cup {None}]
    /\ userinfo \in [Users -> Info \cup {None}] /\ mUserInfoMaps \in [Users -> Info \cup {None}]
    /\ mUserIDs \subseteq Users /\ group \subseteq Users \X Photos
    /\ ready \in BOOLEAN
    /\ down_fifo \in Seq(DownEvents) /\ Len(down_fifo) <= MaxDown
    /\ worker \in [pc : {"size", "read", "batch"}, left : 0 .. MaxDown]
    /\ writer \in [Writers -> [step : Steps, cmd : DownEvents \cup TcpFaces \cup {Idle},
                               photo : Photos \cup {None}, info : Info \cup {None}]]
    /\ worker.left <= Len(down_fifo) + (IF writer["down"].step = "idle" THEN 0 ELSE 1)
    /\ mixed \subseteq Users /\ refused \subseteq Users
    /\ cutOff \subseteq Users /\ gone \subseteq Users
    /\ promised \in [Users -> Registration \cup {None}]

\* What is in memory is what is on disk: recognition searches the very face of faceinfo for
\* each user, and lifts go where userinfo says, through every sequence of commands that
\* fail or restart the device half-way.  Users on whom both writers have worked at once are
\* excepted, until the next start; and the group has another face of a user, or none, only
\* when it refused to remove or to take one, since when no registration has put it right.
CacheAgrees ==
    ready => \A u \in Users \ mixed : ~Busy(u) =>
                /\ u \notin refused => {i[2] : i \in ItemsOf(u)} = {faceinfo[u]} \ {None}
                /\ userinfo[u] # None => mUserInfoMaps[u] = userinfo[u]

\* A face has a user and a user a face, unless a command was cut off between the two rows,
\* the two writers mixed, or a permission was set for a user deleted since the start.
RowsPaired ==
    \A u \in Users \ cutOff : ~Busy(u) => (faceinfo[u] = None <=> userinfo[u] = None)

\* The two tables and their two copies tell one story.
RowsAgree == CacheAgrees /\ RowsPaired

\* A registration reported done lasts: until the user's next registration or deletion
\* begins, the floor and the face that was taken are on disk, whatever permission is set,
\* fails or is cut off, and however often the device restarts; and once loaded, the floor is
\* in the map and the face in the group, unless the group has refused it.
ReportedInForce ==
    \A u \in Users : promised[u] # None =>
        /\ faceinfo[u] = promised[u].photo
        /\ userinfo[u] # None /\ userinfo[u].floor = promised[u].floor
        /\ ready => /\ u \notin refused => <<u, promised[u].photo>> \in group
                    /\ mUserInfoMaps[u] # None /\ mUserInfoMaps[u].floor = promised[u].floor

\* A user whose deletion was reported is not recognised again, after a restart neither,
\* until a registration of the user begins; the map may still know the name.
GoneStaysOut == \A u \in gone : faceinfo[u] = None /\ ItemsOf(u) = {}

\* The MQTT thread, which needs mDown_Mutex to push, always gets it in the end although it
\* is held for downloads, detections and publishing: a batch has as many events as were
\* there when its size was read.
LockReleased == Locked ~> ~Locked
=============================================================================
