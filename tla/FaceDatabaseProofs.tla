------------------------- MODULE FaceDatabaseProofs -------------------------
(***************************************************************************)
(* What FaceDatabase guarantees for any number of users, photos and floors *)
(* and any length of down_fifo.  The properties speak of a user at rest;   *)
(* what is inductive says, for each step of the command that is at him,    *)
(* how far it has come with the two rows and their two copies (UserInv),   *)
(* and excepts only the users on whom both writers are known to have       *)
(* worked.  Shape is the rest: the types, which steps a command has, and   *)
(* that process_downevent works for an event it has counted.               *)
(***************************************************************************)
EXTENDS FaceDatabase, SequenceTheorems, TLAPS

\* The steps of each command.
StepsOf == [REGFACE |-> {"photo", "faceRow", "find", "groupClear", "append", "insert",
                         "userRow", "userMap", "done", "failed"},
            DELFACE |-> {"groupDelete", "deleteUser", "deleteFace", "done", "failed"},
            SETPERM |-> {"lookup", "userRow", "userMap", "done", "failed"},
            RESET   |-> {"reboot", "done"},
            NONE    |-> {"idle"}]

\* A writer's step is one of its command's, a registration has a face once that is found, and
\* there is something to write when the writer gets to the user's row; before the database is loaded a command gets no further than its first step.
WriterSteps ==
    \A w \in Writers :
      /\ writer[w].step \in StepsOf[writer[w].cmd.type]
      /\ writer[w].step \in {"userRow", "userMap"} => writer[w].info \in Info
      /\ writer[w].cmd.type = "REGFACE" /\ writer[w].step \notin {"photo", "failed"}
            => writer[w].photo \in Photos
      /\ ~ready => \/ writer[w].step \in {"idle", "photo", "groupDelete", "lookup", "reboot", "failed"}
                   \/ writer[w].step = "done" /\ writer[w].cmd.type = "RESET"

\* process_downevent works for an event it has counted, and with the lock.
Counted == writer["down"].step # "idle" => Locked /\ worker.left > 0

\* The photos that recognition would find the user by.
InGroup(u) == {p \in Photos : <<u, p>> \in group}

\* Two writers at one user are known to be.
Alone(u) ==
    \A v, w \in Writers : WorksOn(v, u) /\ WorksOn(w, u) /\ v # w => u \in mixed \cap cutOff

\* How far the command has come with the two rows.
Rows(u) ==
    u \notin mixed \cap cutOff =>
      \A w \in Writers : WorksOn(w, u) =>
        LET cmd == writer[w].cmd
            step == writer[w].step
            new == [floor |-> cmd.floor, perm |-> 1]
        IN  /\ cmd.type = "REGFACE" =>
                 /\ (step \in {"find", "groupClear", "append", "insert", "userRow", "userMap", "done"}
                       => faceinfo[u] = writer[w].photo)
                 /\ step \in {"userRow", "userMap"} => writer[w].info = new
                 /\ step = "done" => userinfo[u] = new
            /\ cmd.type = "DELFACE" =>
                 /\ step \in {"deleteFace", "done"} => userinfo[u] = None
                 /\ step = "done" => faceinfo[u] = None
            /\ cmd.type = "SETPERM" /\ step \in {"userRow", "userMap"} /\ u \notin cutOff
                 => userinfo[u] # None
            /\ step = "userMap" => userinfo[u] = writer[w].info

\* How far it has come with the copies in memory.
Unsettled == {"find", "groupClear", "append", "insert", "deleteUser", "deleteFace"}
Copies(u) ==
    ready /\ u \notin mixed =>
      /\ InGroup(u) # {} => u \in mUserIDs
      /\ \A w \in Writers : WorksOn(w, u) =>
           /\ writer[w].step \in {"append", "deleteUser", "deleteFace"} => InGroup(u) = {}
           /\ writer[w].step = "insert" /\ u \notin refused => InGroup(u) = {}
           /\ writer[w].step = "done" /\ writer[w].cmd.type = "DELFACE" => InGroup(u) = {}
           /\ writer[w].step \in {"groupClear", "insert"} => u \in mUserIDs
      /\ ((\A w \in Writers : WorksOn(w, u) => writer[w].step \notin Unsettled) /\ u \notin refused
            => InGroup(u) = {faceinfo[u]} \ {None})
      /\ ((\A w \in Writers : WorksOn(w, u) => writer[w].step # "userMap") /\ userinfo[u] # None
            => mUserInfoMaps[u] = userinfo[u])

\* The rows are a pair but in the midst of a command.
Paired(u) ==
    u \notin cutOff /\ (\A w \in Writers : WorksOn(w, u) => ~HalfWay(w))
      => (faceinfo[u] = None <=> userinfo[u] = None)

\* Nothing but a SETPERM touches a user whose registration is in force.
Promise(u) ==
    promised[u] # None =>
      /\ faceinfo[u] = promised[u].photo
      /\ userinfo[u] # None /\ userinfo[u].floor = promised[u].floor
      /\ ready => /\ u \notin refused => promised[u].photo \in InGroup(u)
                  /\ mUserInfoMaps[u] # None /\ mUserInfoMaps[u].floor = promised[u].floor
      /\ \A w \in Writers : WorksOn(w, u) =>
           /\ writer[w].cmd.type = "SETPERM"
           /\ writer[w].step \in {"userRow", "userMap"} => writer[w].info.floor = promised[u].floor

\* No registration of a user who is gone is under way.
StaysOut(u) ==
    u \in gone => /\ faceinfo[u] = None /\ InGroup(u) = {}
                  /\ \A w \in Writers : WorksOn(w, u) => writer[w].cmd.type # "REGFACE"

UserInv(u) == Alone(u) /\ Rows(u) /\ Copies(u) /\ Paired(u) /\ Promise(u) /\ StaysOut(u)
IInv == TypeOK /\ WriterSteps /\ Counted /\ \A u \in Users : UserInv(u)
-----------------------------------------------------------------------------
(* Commands and writers *)

Commands == DownEvents \cup TcpFaces \cup {Idle}

\* What a command consists of, by its kind.
LEMMA CommandFacts ==
    ASSUME NEW cmd \in Commands
    PROVE  /\ cmd.type \in {"REGFACE", "DELFACE", "SETPERM", "RESET", "NONE"}
           /\ cmd.type \notin {"RESET", "NONE"} => cmd.user \in Users
           /\ cmd.type = "REGFACE" => cmd.floor \in Floors \cup {TcpFloor}
           /\ cmd.type = "SETPERM" => cmd.perm \in Perms
           /\ (cmd.type = "NONE" <=> cmd = Idle)
BY DEF Commands, DownEvents, TcpFaces, Idle, Registrations

\* FirstStep, entry by entry.
LEMMA FirstSteps ==
    /\ FirstStep["REGFACE"] = "photo" /\ FirstStep["DELFACE"] = "groupDelete"
    /\ FirstStep["SETPERM"] = "lookup" /\ FirstStep["RESET"] = "reboot"
BY DEF FirstStep

\* StepsOf, entry by entry.
LEMMA CommandSteps ==
    /\ StepsOf["REGFACE"] = {"photo", "faceRow", "find", "groupClear", "append", "insert",
                             "userRow", "userMap", "done", "failed"}
    /\ StepsOf["DELFACE"] = {"groupDelete", "deleteUser", "deleteFace", "done", "failed"}
    /\ StepsOf["SETPERM"] = {"lookup", "userRow", "userMap", "done", "failed"}
    /\ StepsOf["RESET"] = {"reboot", "done"} /\ StepsOf["NONE"] = {"idle"}
BY DEF StepsOf

Shape == TypeOK /\ WriterSteps /\ Counted

\* What is known of a writer that is at a step of a command.
LEMMA WriterFacts ==
    ASSUME Shape, NEW w \in Writers
    PROVE  /\ writer \in [Writers -> [step : Steps, cmd : Commands, photo : Photos \cup {None}, info : Info \cup {None}]]
           /\ writer[w] \in [step : Steps, cmd : Commands, photo : Photos \cup {None}, info : Info \cup {None}]
           /\ writer[w].cmd \in Commands
           /\ writer[w].cmd.type \in {"REGFACE", "DELFACE", "SETPERM", "RESET", "NONE"}
           /\ writer[w].cmd.type \notin {"RESET", "NONE"} => writer[w].cmd.user \in Users
           /\ writer[w].cmd.type = "REGFACE" =>
                 /\ writer[w].cmd.floor \in Floors \cup {TcpFloor}
                 /\ writer[w].step \notin {"photo", "failed"} => writer[w].photo \in Photos
                 /\ [floor |-> writer[w].cmd.floor, perm |-> 1] \in Info
           /\ writer[w].cmd.type = "SETPERM" => writer[w].cmd.perm \in Perms
           /\ writer[w].step \in {"faceRow", "photo", "find", "groupClear", "append", "insert"}
                 => writer[w].cmd.type = "REGFACE"
           /\ writer[w].step \in {"groupDelete", "deleteUser", "deleteFace"}
                 => writer[w].cmd.type = "DELFACE"
           /\ writer[w].step = "lookup" => writer[w].cmd.type = "SETPERM"
           /\ writer[w].step \in {"userRow", "userMap"}
                 => writer[w].cmd.type \in {"REGFACE", "SETPERM"} /\ writer[w].info \in Info
           /\ writer[w].step = "reboot" => writer[w].cmd.type = "RESET"
           /\ writer[w].step = "idle" => writer[w].cmd.type = "NONE"
<1>1. /\ writer \in [Writers -> [step : Steps, cmd : Commands, photo : Photos \cup {None}, info : Info \cup {None}]]
      /\ writer[w] \in [step : Steps, cmd : Commands, photo : Photos \cup {None}, info : Info \cup {None}]
      /\ writer[w].cmd \in Commands
  BY DEF Shape, TypeOK, Commands
<1>2. PICK cmd \in Commands : cmd = writer[w].cmd
  BY <1>1
<1>3. /\ cmd.type \in {"REGFACE", "DELFACE", "SETPERM", "RESET", "NONE"}
      /\ cmd.type \notin {"RESET", "NONE"} => cmd.user \in Users
      /\ cmd.type = "REGFACE" => cmd.floor \in Floors \cup {TcpFloor}
      /\ cmd.type = "SETPERM" => cmd.perm \in Perms
  BY CommandFacts
<1>4. cmd.type = "REGFACE" => [floor |-> cmd.floor, perm |-> 1] \in Info
  BY <1>3 DEF Info
<1>5. /\ writer[w].step \in StepsOf[cmd.type]
      /\ writer[w].step \in {"userRow", "userMap"} => writer[w].info \in Info
      /\ cmd.type = "REGFACE" /\ writer[w].step \notin {"photo", "failed"}
            => writer[w].photo \in Photos
  BY <1>2 DEF Shape, WriterSteps
<1>6. /\ writer[w].step \in {"faceRow", "photo", "find", "groupClear", "append", "insert"}
             => cmd.type = "REGFACE"
      /\ writer[w].step \in {"groupDelete", "deleteUser", "deleteFace"} => cmd.type = "DELFACE"
      /\ writer[w].step = "lookup" => cmd.type = "SETPERM"
      /\ writer[w].step \in {"userRow", "userMap"} => cmd.type \in {"REGFACE", "SETPERM"}
      /\ writer[w].step = "reboot" => cmd.type = "RESET"
      /\ writer[w].step = "idle" => cmd.type = "NONE"
  BY <1>3, <1>5, CommandSteps
<1> QED BY <1>1, <1>2, <1>3, <1>4, <1>5, <1>6

\* A writer goes to another step of its command, with the info it will write.
Moves(w, s, i) == writer' = [writer EXCEPT ![w].step = s, ![w].info = i]

\* A move changes nothing but the step and the info of one writer.
LEMMA WriterMoves ==
    ASSUME Shape, NEW w \in Writers, NEW s, NEW i, Moves(w, s, i)
    PROVE  /\ writer'[w].step = s /\ writer'[w].info = i
           /\ writer'[w].cmd = writer[w].cmd /\ writer'[w].photo = writer[w].photo
           /\ \A v \in Writers : v # w => writer'[v] = writer[v]
           /\ \A v \in Writers : \A u : WorksOn(v, u)' <=> WorksOn(v, u)
<1>1. writer \in [Writers -> [step : Steps, cmd : Commands, photo : Photos \cup {None}, info : Info \cup {None}]]
  BY WriterFacts
<1>2. /\ writer'[w].step = s /\ writer'[w].info = i
      /\ writer'[w].cmd = writer[w].cmd /\ writer'[w].photo = writer[w].photo
      /\ \A v \in Writers : v # w => writer'[v] = writer[v]
  BY <1>1 DEF Moves
<1>3. \A v \in Writers : writer'[v].cmd = writer[v].cmd
  BY <1>2
<1> QED BY <1>2, <1>3 DEF WorksOn

\* A registration goes on with the face it has found.
Takes(w, p) == writer' = [writer EXCEPT ![w].step = "faceRow", ![w].photo = p]

\* It changes nothing but the step and the photo of one writer.
LEMMA WriterTakes ==
    ASSUME Shape, NEW w \in Writers, NEW p, Takes(w, p)
    PROVE  /\ writer'[w].step = "faceRow" /\ writer'[w].photo = p
           /\ writer'[w].cmd = writer[w].cmd /\ writer'[w].info = writer[w].info
           /\ \A v \in Writers : v # w => writer'[v] = writer[v]
           /\ \A v \in Writers : \A u : WorksOn(v, u)' <=> WorksOn(v, u)
<1>1. writer \in [Writers -> [step : Steps, cmd : Commands, photo : Photos \cup {None}, info : Info \cup {None}]]
  BY WriterFacts
<1>2. /\ writer'[w].step = "faceRow" /\ writer'[w].photo = p
      /\ writer'[w].cmd = writer[w].cmd /\ writer'[w].info = writer[w].info
      /\ \A v \in Writers : v # w => writer'[v] = writer[v]
  BY <1>1 DEF Takes
<1>3. \A v \in Writers : writer'[v].cmd = writer[v].cmd
  BY <1>2
<1> QED BY <1>2, <1>3 DEF WorksOn

\* GoTo is a move that keeps the info.
LEMMA GoesTo ==
    ASSUME Shape, NEW w \in Writers, NEW s, GoTo(w, s)
    PROVE  Moves(w, s, writer[w].info)
<1>1. writer \in [Writers -> [step : Steps, cmd : Commands, photo : Photos \cup {None}, info : Info \cup {None}]]
  BY WriterFacts
<1> QED BY <1>1 DEF GoTo, Moves

\* A user whom a step does not concern.
LEMMA Elsewhere ==
    ASSUME NEW u \in Users, UserInv(u),
           faceinfo'[u] = faceinfo[u], userinfo'[u] = userinfo[u],
           mUserInfoMaps'[u] = mUserInfoMaps[u], u \in mUserIDs' <=> u \in mUserIDs,
           InGroup(u)' = InGroup(u), ready' = ready,
           u \in mixed' <=> u \in mixed, u \in refused' <=> u \in refused,
           u \in cutOff' <=> u \in cutOff, u \in gone' <=> u \in gone, promised'[u] = promised[u],
           \A v \in Writers : /\ WorksOn(v, u)' <=> WorksOn(v, u)
                              /\ WorksOn(v, u) => writer'[v] = writer[v]
    PROVE  UserInv(u)'
<1>1. Alone(u)'
  BY DEF UserInv, Alone
<1>2. Rows(u)'
  BY DEF UserInv, Rows
<1>3. Copies(u)'
  BY DEF UserInv, Copies
<1>4. Paired(u)'
  BY DEF UserInv, Paired, HalfWay
<1>5. Promise(u)'
  BY DEF UserInv, Promise
<1>6. StaysOut(u)'
  BY DEF UserInv, StaysOut
<1> QED BY <1>1, <1>2, <1>3, <1>4, <1>5, <1>6 DEF UserInv
-----------------------------------------------------------------------------
(* The steps of a command *)

\* The group, when a user's items are taken out, or one is put in.
LEMMA GroupChanges ==
    ASSUME Shape, NEW u \in Users
    PROVE  /\ \A v : group' = GroupWithout(u) => InGroup(v)' = IF v = u THEN {} ELSE InGroup(v)
           /\ \A p \in Photos : \A v : group' = group \cup {<<u, p>>} =>
                 InGroup(v)' = IF v = u THEN InGroup(v) \cup {p} ELSE InGroup(v)
<1>1. ASSUME NEW v, group' = GroupWithout(u) PROVE InGroup(v)' = IF v = u THEN {} ELSE InGroup(v)
  BY <1>1 DEF GroupWithout, ItemsOf, InGroup
<1>2. ASSUME NEW p \in Photos, NEW v, group' = group \cup {<<u, p>>}
      PROVE  InGroup(v)' = IF v = u THEN InGroup(v) \cup {p} ELSE InGroup(v)
  BY <1>2 DEF InGroup
<1> QED BY <1>1, <1>2

\* The items of a user, seen as the photos in the group.
LEMMA NoItems ==
    ASSUME Shape, NEW u \in Users
    PROVE  /\ ItemsOf(u) = {} <=> InGroup(u) = {}
           /\ {i[2] : i \in ItemsOf(u)} = InGroup(u)
<1>1. group \subseteq Users \X Photos
  BY DEF Shape, TypeOK
<1> QED BY <1>1 DEF ItemsOf, InGroup

\* A face is found, or the command fails; nothing is changed.
LEMMA TakePhotoInv ==
    ASSUME Shape, \A u \in Users : UserInv(u), NEW w \in Writers, TakePhoto(w)
    PROVE  \A u \in Users : UserInv(u)'
<1> TAKE u \in Users
<1>1. /\ writer[w].step = "photo" /\ writer[w].cmd.type = "REGFACE"
      /\ UNCHANGED <<tables, cache, rest, history>>
  BY WriterFacts DEF TakePhoto
<1>2. /\ writer'[w].step \in {"faceRow", "failed"}
      /\ writer'[w].cmd = writer[w].cmd /\ writer'[w].info = writer[w].info
      /\ \A v \in Writers : v # w => writer'[v] = writer[v]
      /\ \A v \in Writers : WorksOn(v, u)' <=> WorksOn(v, u)
  <2>1. CASE Fail(w)
    BY <2>1, GoesTo, WriterMoves DEF Fail
  <2>2. ASSUME NEW p \in Photos, Takes(w, p)
        PROVE  /\ writer'[w].step \in {"faceRow", "failed"}
               /\ writer'[w].cmd = writer[w].cmd /\ writer'[w].info = writer[w].info
               /\ \A v \in Writers : v # w => writer'[v] = writer[v]
               /\ \A v \in Writers : WorksOn(v, u)' <=> WorksOn(v, u)
    BY <2>2, WriterTakes
  <2> QED BY <2>1, <2>2 DEF TakePhoto, Takes
<1> USE <1>1, <1>2 DEF tables, cache, rest, history
<1>3. CASE ~WorksOn(w, u)
  BY <1>3, Elsewhere DEF InGroup, WorksOn
<1>4. CASE WorksOn(w, u)
  <2>1. writer[w].cmd.user = u
    BY <1>4 DEF WorksOn
  <2>2. Alone(u)'
    BY DEF UserInv, Alone
  <2>3. Rows(u)'
    BY <1>4, <2>1 DEF UserInv, Alone, Rows
  <2>4. Copies(u)'
    BY <1>4, <2>1 DEF UserInv, Alone, Copies, Unsettled, InGroup
  <2>5. Paired(u)'
    BY <1>4, <2>1 DEF UserInv, Alone, Paired, HalfWay
  <2>6. Promise(u)'
    BY <1>4, <2>1 DEF UserInv, Promise, InGroup
  <2>7. StaysOut(u)'
    BY <1>4, <2>1 DEF UserInv, StaysOut, InGroup
  <2> QED BY <2>2, <2>3, <2>4, <2>5, <2>6, <2>7 DEF UserInv
<1> QED BY <1>3, <1>4

\* updateFaceInfo: the row is the photo taken, or the command fails.
LEMMA PutFaceRowInv ==
    ASSUME Shape, \A u \in Users : UserInv(u), NEW w \in Writers, PutFaceRow(w)
    PROVE  \A u \in Users : UserInv(u)'
<1> TAKE u \in Users
<1>1. PICK s \in {"find", "failed"} :
        /\ Moves(w, s, writer[w].info)
        /\ s = "find" => faceinfo' = [faceinfo EXCEPT ![writer[w].cmd.user] = writer[w].photo]
        /\ s = "failed" => faceinfo' = faceinfo
  BY GoesTo DEF PutFaceRow, Fail
<1>2. /\ writer[w].step = "faceRow" /\ writer[w].cmd.type = "REGFACE" /\ ready
      /\ writer[w].cmd.user \in Users /\ writer[w].photo \in Photos
      /\ UNCHANGED <<userinfo, cache, rest, history>>
      /\ faceinfo \in [Users -> Photos \cup {None}]
  BY WriterFacts DEF PutFaceRow, At, Shape, TypeOK
<1> USE <1>1, <1>2, WriterMoves DEF cache, rest, history
<1>3. CASE ~WorksOn(w, u)
  BY <1>3, Elsewhere DEF InGroup, WorksOn
<1>4. CASE WorksOn(w, u)
  <2>1. writer[w].cmd.user = u
    BY <1>4 DEF WorksOn
  <2>2. Alone(u)'
    BY DEF UserInv, Alone
  <2>3. Rows(u)'
    BY <1>4, <2>1 DEF UserInv, Alone, Rows
  <2>4. Copies(u)'
    BY <1>4, <2>1 DEF UserInv, Alone, Copies, Unsettled, InGroup
  <2>5. Paired(u)'
    BY <1>4, <2>1 DEF UserInv, Alone, Paired, HalfWay
  <2>6. Promise(u)'
    BY <1>4, <2>1 DEF UserInv, Promise, InGroup
  <2>7. StaysOut(u)'
    BY <1>4, <2>1 DEF UserInv, StaysOut, InGroup
  <2> QED BY <2>2, <2>3, <2>4, <2>5, <2>6, <2>7 DEF UserInv
<1> QED BY <1>3, <1>4

\* isFaceInfoExists: a user not in mUserIDs has nothing in the group.
LEMMA FindIDInv ==
    ASSUME Shape, \A u \in Users : UserInv(u), NEW w \in Writers, FindID(w)
    PROVE  \A u \in Users : UserInv(u)'
<1> TAKE u \in Users
<1>1. PICK s \in {"groupClear", "append"} :
        /\ Moves(w, s, writer[w].info)
        /\ s = "groupClear" <=> writer[w].cmd.user \in mUserIDs
  BY GoesTo DEF FindID
<1>2. /\ writer[w].step = "find" /\ writer[w].cmd.type = "REGFACE" /\ ready
      /\ writer[w].cmd.user \in Users
      /\ UNCHANGED <<tables, cache, rest, history>>
  BY WriterFacts DEF FindID, At
<1> USE <1>1, <1>2, WriterMoves DEF tables, cache, rest, history
<1>3. CASE ~WorksOn(w, u)
  BY <1>3, Elsewhere DEF InGroup, WorksOn
<1>4. CASE WorksOn(w, u)
  <2>1. writer[w].cmd.user = u
    BY <1>4 DEF WorksOn
  <2>2. Alone(u)'
    BY DEF UserInv, Alone
  <2>3. Rows(u)'
    BY <1>4, <2>1 DEF UserInv, Alone, Rows
  <2>4. Copies(u)'
    BY <1>4, <2>1 DEF UserInv, Alone, Copies, Unsettled, InGroup
  <2>5. Paired(u)'
    BY <1>4, <2>1 DEF UserInv, Alone, Paired, HalfWay
  <2>6. Promise(u)'
    BY <1>4, <2>1 DEF UserInv, Promise, InGroup
  <2>7. StaysOut(u)'
    BY <1>4, <2>1 DEF UserInv, StaysOut, InGroup
  <2> QED BY <2>2, <2>3, <2>4, <2>5, <2>6, <2>7 DEF UserInv
<1> QED BY <1>3, <1>4

\* GpdelItem: nothing of the user is left in the group, or he is known to be refused,
LEMMA ClearItemInv ==
    ASSUME Shape, \A u \in Users : UserInv(u), NEW w \in Writers, ClearItem(w)
    PROVE  \A u \in Users : UserInv(u)'
<1> TAKE u \in Users
<1>1. Moves(w, "insert", writer[w].info)
  BY GoesTo DEF ClearItem
<1>2. /\ writer[w].step = "groupClear" /\ writer[w].cmd.type = "REGFACE" /\ ready
      /\ writer[w].cmd.user \in Users
      /\ \/ /\ group' = GroupWithout(writer[w].cmd.user)
            /\ refused' = refused \ {writer[w].cmd.user}
         \/ group' = group /\ refused' = refused \cup {writer[w].cmd.user}
      /\ UNCHANGED <<tables, mUserInfoMaps, mUserIDs, rest, mixed, cutOff, gone, promised>>
  BY WriterFacts DEF ClearItem, At
<1> USE <1>1, <1>2, WriterMoves DEF tables, rest
<1>3. CASE ~WorksOn(w, u)
  <2>1. writer[w].cmd.user # u /\ (\A v \in Writers : WorksOn(v, u) => v # w)
    BY <1>3 DEF WorksOn
  <2>2. InGroup(u)' = InGroup(u) /\ (u \in refused' <=> u \in refused)
    BY <2>1, GroupChanges DEF InGroup
  <2> QED BY <2>1, <2>2, Elsewhere
<1>4. CASE WorksOn(w, u)
  <2>1. writer[w].cmd.user = u
    BY <1>4 DEF WorksOn
  <2>0. InGroup(u)' = {} \/ (InGroup(u)' = InGroup(u) /\ u \in refused')
    BY <2>1, GroupChanges DEF InGroup
  <2>2. Alone(u)'
    BY DEF UserInv, Alone
  <2>3. Rows(u)'
    BY <1>4, <2>1 DEF UserInv, Alone, Rows
  <2>4. Copies(u)'
    BY <1>4, <2>1, <2>0 DEF UserInv, Alone, Copies, Unsettled
  <2>5. Paired(u)'
    BY <1>4, <2>1 DEF UserInv, Alone, Paired, HalfWay
  <2>6. Promise(u)'
    BY <1>4, <2>1, <2>0 DEF UserInv, Promise
  <2>7. StaysOut(u)'
    BY <1>4, <2>1, <2>0 DEF UserInv, StaysOut
  <2> QED BY <2>2, <2>3, <2>4, <2>5, <2>6, <2>7 DEF UserInv
<1> QED BY <1>3, <1>4

\* and a number not yet in mUserIDs comes into it,
LEMMA AppendIDInv ==
    ASSUME Shape, \A u \in Users : UserInv(u), NEW w \in Writers, AppendID(w)
    PROVE  \A u \in Users : UserInv(u)'
<1> TAKE u \in Users
<1>1. Moves(w, "insert", writer[w].info)
  BY GoesTo DEF AppendID
<1>2. /\ writer[w].step = "append" /\ writer[w].cmd.type = "REGFACE" /\ ready
      /\ writer[w].cmd.user \in Users
      /\ mUserIDs' = mUserIDs \cup {writer[w].cmd.user}
      /\ UNCHANGED <<tables, mUserInfoMaps, group, rest, history>>
  BY WriterFacts DEF AppendID, At
<1> USE <1>1, <1>2, WriterMoves DEF tables, rest, history
<1>3. CASE ~WorksOn(w, u)
  BY <1>3, Elsewhere DEF InGroup, WorksOn
<1>4. CASE WorksOn(w, u)
  <2>1. writer[w].cmd.user = u
    BY <1>4 DEF WorksOn
  <2>2. Alone(u)'
    BY DEF UserInv, Alone
  <2>3. Rows(u)'
    BY <1>4, <2>1 DEF UserInv, Alone, Rows
  <2>4. Copies(u)'
    BY <1>4, <2>1 DEF UserInv, Alone, Copies, Unsettled, InGroup
  <2>5. Paired(u)'
    BY <1>4, <2>1 DEF UserInv, Alone, Paired, HalfWay
  <2>6. Promise(u)'
    BY <1>4, <2>1 DEF UserInv, Promise, InGroup
  <2>7. StaysOut(u)'
    BY <1>4, <2>1 DEF UserInv, StaysOut, InGroup
  <2> QED BY <2>2, <2>3, <2>4, <2>5, <2>6, <2>7 DEF UserInv
<1> QED BY <1>3, <1>4

\* so that after GpinsertItem the group has the photo of the row alone, if it took it.
LEMMA InsertItemInv ==
    ASSUME Shape, \A u \in Users : UserInv(u), NEW w \in Writers, InsertItem(w)
    PROVE  \A u \in Users : UserInv(u)'
<1> TAKE u \in Users
<1>1. Moves(w, "userRow", [floor |-> writer[w].cmd.floor, perm |-> 1])
  BY DEF InsertItem, Moves
<1>2. /\ writer[w].step = "insert" /\ writer[w].cmd.type = "REGFACE" /\ ready
      /\ writer[w].cmd.user \in Users /\ writer[w].photo \in Photos
      /\ \/ /\ group' = group \cup {<<writer[w].cmd.user, writer[w].photo>>}
            /\ refused' = refused
         \/ group' = group /\ refused' = refused \cup {writer[w].cmd.user}
      /\ UNCHANGED <<tables, mUserInfoMaps, mUserIDs, rest, mixed, cutOff, gone, promised>>
  BY WriterFacts DEF InsertItem, At
<1> USE <1>1, <1>2, WriterMoves DEF tables, rest
<1>3. CASE ~WorksOn(w, u)
  <2>1. writer[w].cmd.user # u /\ (\A v \in Writers : WorksOn(v, u) => v # w)
    BY <1>3 DEF WorksOn
  <2>2. InGroup(u)' = InGroup(u) /\ (u \in refused' <=> u \in refused)
    BY <2>1, GroupChanges DEF InGroup
  <2> QED BY <2>1, <2>2, Elsewhere
<1>4. CASE WorksOn(w, u)
  <2>1. writer[w].cmd.user = u
    BY <1>4 DEF WorksOn
  <2>0. \/ InGroup(u)' = InGroup(u) \cup {writer[w].photo} /\ refused' = refused
        \/ InGroup(u)' = InGroup(u) /\ u \in refused'
    BY <2>1, GroupChanges DEF InGroup
  <2>2. Alone(u)'
    BY DEF UserInv, Alone
  <2>3. Rows(u)'
    BY <1>4, <2>1 DEF UserInv, Alone, Rows
  <2>4. Copies(u)'
    BY <1>4, <2>1, <2>0, NoneAssumption DEF UserInv, Alone, Rows, Copies, Unsettled
  <2>5. Paired(u)'
    BY <1>4, <2>1 DEF UserInv, Alone, Paired, HalfWay
  <2>6. Promise(u)'
    BY <1>4, <2>1, <2>0, NoneAssumption DEF UserInv, Promise
  <2>7. StaysOut(u)'
    BY <1>4, <2>1, <2>0, NoneAssumption DEF UserInv, StaysOut
  <2> QED BY <2>2, <2>3, <2>4, <2>5, <2>6, <2>7 DEF UserInv
<1> QED BY <1>3, <1>4

\* updateUserInfo: the row of the user, or a registration cut off.
LEMMA PutUserRowInv ==
    ASSUME Shape, \A u \in Users : UserInv(u), NEW w \in Writers, PutUserRow(w)
    PROVE  \A u \in Users : UserInv(u)'
<1> TAKE u \in Users
<1>1. PICK s \in {"userMap", "failed"} :
        /\ Moves(w, s, writer[w].info)
        /\ s = "userMap" => /\ userinfo' = [userinfo EXCEPT ![writer[w].cmd.user] = writer[w].info]
                            /\ cutOff' = cutOff
        /\ s = "failed" =>
              /\ userinfo' = userinfo
              /\ cutOff' = IF writer[w].cmd.type = "REGFACE" THEN cutOff \cup {writer[w].cmd.user}
                           ELSE cutOff
  BY GoesTo, WriterFacts DEF PutUserRow, Fail, HalfWay, At
<1>2. /\ writer[w].step = "userRow" /\ writer[w].cmd.type \in {"REGFACE", "SETPERM"} /\ ready
      /\ writer[w].cmd.user \in Users /\ writer[w].info \in Info /\ writer[w].info # None
      /\ writer[w].cmd.type = "REGFACE" => /\ writer[w].photo \in Photos
                                              /\ writer[w].photo # None
      /\ UNCHANGED <<faceinfo, cache, rest, mixed, refused, gone, promised>>
      /\ userinfo \in [Users -> Info \cup {None}]
  BY WriterFacts, NoneAssumption DEF PutUserRow, At, Shape, TypeOK
<1> USE <1>1, <1>2, WriterMoves DEF cache, rest
<1>3. CASE ~WorksOn(w, u)
  BY <1>3, Elsewhere DEF InGroup, WorksOn
<1>4. CASE WorksOn(w, u)
  <2>1. writer[w].cmd.user = u
    BY <1>4 DEF WorksOn
  <2>2. Alone(u)'
    BY DEF UserInv, Alone
  <2>3. Rows(u)'
    BY <1>4, <2>1 DEF UserInv, Alone, Rows
  <2>4. Copies(u)'
    BY <1>4, <2>1, NoneAssumption DEF UserInv, Alone, Copies, Unsettled, InGroup
  <2>5. Paired(u)'
    <3> SUFFICES ASSUME u \notin cutOff' PROVE faceinfo'[u] = None <=> userinfo'[u] = None
      BY DEF Paired
    <3>1. u \notin cutOff /\ \A v \in Writers : WorksOn(v, u) => v = w
      BY <1>4, <2>1 DEF UserInv, Alone
    <3>2. CASE writer[w].cmd.type = "REGFACE"
      BY <1>4, <2>1, <3>1, <3>2 DEF UserInv, Rows
    <3>3. CASE writer[w].cmd.type = "SETPERM"
      <4>1. userinfo[u] # None
        BY <1>4, <3>1, <3>3 DEF UserInv, Rows
      <4>2. faceinfo[u] # None
        BY <3>1, <3>3, <4>1 DEF UserInv, Paired, HalfWay
      <4> QED BY <2>1, <4>1, <4>2
    <3> QED BY <3>2, <3>3
  <2>6. Promise(u)'
    BY <1>4, <2>1, NoneAssumption DEF UserInv, Promise, InGroup
  <2>7. StaysOut(u)'
    BY <1>4, <2>1, NoneAssumption DEF UserInv, StaysOut, InGroup
  <2> QED BY <2>2, <2>3, <2>4, <2>5, <2>6, <2>7 DEF UserInv
<1> QED BY <1>3, <1>4

\* The map follows the row.
LEMMA PutUserMapInv ==
    ASSUME Shape, \A u \in Users : UserInv(u), NEW w \in Writers, PutUserMap(w)
    PROVE  \A u \in Users : UserInv(u)'
<1> TAKE u \in Users
<1>1. Moves(w, "done", writer[w].info)
  BY GoesTo DEF PutUserMap
<1>2. /\ writer[w].step = "userMap" /\ writer[w].cmd.type \in {"REGFACE", "SETPERM"} /\ ready
      /\ writer[w].cmd.user \in Users /\ writer[w].info \in Info
      /\ mUserInfoMaps' = [mUserInfoMaps EXCEPT ![writer[w].cmd.user] = writer[w].info]
      /\ UNCHANGED <<tables, mUserIDs, group, rest, history>>
      /\ mUserInfoMaps \in [Users -> Info \cup {None}]
  BY WriterFacts DEF PutUserMap, At, Shape, TypeOK
<1> USE <1>1, <1>2, WriterMoves DEF tables, rest, history
<1>3. CASE ~WorksOn(w, u)
  BY <1>3, Elsewhere DEF InGroup, WorksOn
<1>4. CASE WorksOn(w, u)
  <2>1. writer[w].cmd.user = u
    BY <1>4 DEF WorksOn
  <2>0. /\ mUserInfoMaps'[u] = writer[w].info
        /\ ready /\ u \notin mixed => userinfo[u] = writer[w].info
    BY <1>4, <2>1 DEF UserInv, Rows
  <2>2. Alone(u)'
    BY DEF UserInv, Alone
  <2>3. Rows(u)'
    BY <1>4, <2>1 DEF UserInv, Alone, Rows
  <2>4. Copies(u)'
    BY <1>4, <2>1, <2>0, NoneAssumption DEF UserInv, Alone, Copies, Unsettled, InGroup
  <2>5. Paired(u)'
    BY <1>4, <2>1 DEF UserInv, Alone, Paired, HalfWay
  <2>6. Promise(u)'
    BY <1>4, <2>1, <2>0, NoneAssumption DEF UserInv, Promise, InGroup
  <2>7. StaysOut(u)'
    BY <1>4, <2>1, <2>0, NoneAssumption DEF UserInv, StaysOut, InGroup
  <2> QED BY <2>2, <2>3, <2>4, <2>5, <2>6, <2>7 DEF UserInv
<1> QED BY <1>3, <1>4

\* delface: a user whom the group does not let go is left as he is.
LEMMA GroupDeleteInv ==
    ASSUME Shape, \A u \in Users : UserInv(u), NEW w \in Writers, GroupDelete(w)
    PROVE  \A u \in Users : UserInv(u)'
<1> TAKE u \in Users
<1>1. PICK s \in {"deleteUser", "failed"} :
        /\ Moves(w, s, writer[w].info)
        /\ s = "deleteUser" => /\ group' = GroupWithout(writer[w].cmd.user)
                               /\ refused' = refused \ {writer[w].cmd.user}
        /\ s = "failed" => group' = group /\ refused' = refused
  BY GoesTo DEF GroupDelete, Fail
<1>2. /\ writer[w].step = "groupDelete" /\ writer[w].cmd.type = "DELFACE" /\ ready
      /\ writer[w].cmd.user \in Users
      /\ UNCHANGED <<tables, mUserInfoMaps, mUserIDs, rest, mixed, cutOff, gone, promised>>
  BY WriterFacts DEF GroupDelete, At
<1> USE <1>1, <1>2, WriterMoves DEF tables, rest
<1>3. CASE ~WorksOn(w, u)
  <2>1. writer[w].cmd.user # u /\ (\A v \in Writers : WorksOn(v, u) => v # w)
    BY <1>3 DEF WorksOn
  <2>2. InGroup(u)' = InGroup(u) /\ (u \in refused' <=> u \in refused)
    BY <2>1, GroupChanges DEF InGroup
  <2> QED BY <2>1, <2>2, Elsewhere
<1>4. CASE WorksOn(w, u)
  <2>1. writer[w].cmd.user = u
    BY <1>4 DEF WorksOn
  <2>0. (s = "deleteUser" /\ InGroup(u)' = {}) \/ (s = "failed" /\ InGroup(u)' = InGroup(u))
    BY <2>1, GroupChanges DEF InGroup
  <2>2. Alone(u)'
    BY DEF UserInv, Alone
  <2>3. Rows(u)'
    BY <1>4, <2>1 DEF UserInv, Alone, Rows
  <2>4. Copies(u)'
    BY <1>4, <2>1, <2>0 DEF UserInv, Alone, Copies, Unsettled
  <2>5. Paired(u)'
    BY <1>4, <2>1 DEF UserInv, Alone, Paired, HalfWay
  <2>6. Promise(u)'
    BY <1>4, <2>1, <2>0 DEF UserInv, Promise
  <2>7. StaysOut(u)'
    BY <1>4, <2>1, <2>0 DEF UserInv, StaysOut
  <2> QED BY <2>2, <2>3, <2>4, <2>5, <2>6, <2>7 DEF UserInv
<1> QED BY <1>3, <1>4

\* Then the rows go, one after the other,
LEMMA DeleteUserRowInv ==
    ASSUME Shape, \A u \in Users : UserInv(u), NEW w \in Writers, DeleteUserRow(w)
    PROVE  \A u \in Users : UserInv(u)'
<1> TAKE u \in Users
<1>1. Moves(w, "deleteFace", writer[w].info)
  BY GoesTo DEF DeleteUserRow
<1>2. /\ writer[w].step = "deleteUser" /\ writer[w].cmd.type = "DELFACE" /\ ready
      /\ writer[w].cmd.user \in Users
      /\ userinfo' = [userinfo EXCEPT ![writer[w].cmd.user] = None]
      /\ UNCHANGED <<faceinfo, cache, rest, history>>
      /\ userinfo \in [Users -> Info \cup {None}]
  BY WriterFacts DEF DeleteUserRow, At, Shape, TypeOK
<1> USE <1>1, <1>2, WriterMoves DEF cache, rest, history
<1>3. CASE ~WorksOn(w, u)
  BY <1>3, Elsewhere DEF InGroup, WorksOn
<1>4. CASE WorksOn(w, u)
  <2>1. writer[w].cmd.user = u
    BY <1>4 DEF WorksOn
  <2>2. Alone(u)'
    BY DEF UserInv, Alone
  <2>3. Rows(u)'
    BY <1>4, <2>1 DEF UserInv, Alone, Rows
  <2>4. Copies(u)'
    BY <1>4, <2>1 DEF UserInv, Alone, Copies, Unsettled, InGroup
  <2>5. Paired(u)'
    BY <1>4, <2>1 DEF UserInv, Alone, Paired, HalfWay
  <2>6. Promise(u)'
    BY <1>4, <2>1 DEF UserInv, Promise, InGroup
  <2>7. StaysOut(u)'
    BY <1>4, <2>1 DEF UserInv, StaysOut, InGroup
  <2> QED BY <2>2, <2>3, <2>4, <2>5, <2>6, <2>7 DEF UserInv
<1> QED BY <1>3, <1>4

\* and with the second no trace of the face is left.
LEMMA DeleteFaceRowInv ==
    ASSUME Shape, \A u \in Users : UserInv(u), NEW w \in Writers, DeleteFaceRow(w)
    PROVE  \A u \in Users : UserInv(u)'
<1> TAKE u \in Users
<1>1. PICK s \in {"failed", "done"} : Moves(w, s, writer[w].info)
  BY GoesTo DEF DeleteFaceRow
<1>2. /\ writer[w].step = "deleteFace" /\ writer[w].cmd.type = "DELFACE" /\ ready
      /\ writer[w].cmd.user \in Users
      /\ faceinfo' = [faceinfo EXCEPT ![writer[w].cmd.user] = None]
      /\ UNCHANGED <<userinfo, cache, rest, history>>
      /\ faceinfo \in [Users -> Photos \cup {None}]
  BY WriterFacts DEF DeleteFaceRow, WithoutFace, At, Shape, TypeOK
<1> USE <1>1, <1>2, WriterMoves DEF cache, rest, history
<1>3. CASE ~WorksOn(w, u)
  BY <1>3, Elsewhere DEF InGroup, WorksOn
<1>4. CASE WorksOn(w, u)
  <2>1. writer[w].cmd.user = u
    BY <1>4 DEF WorksOn
  <2>2. Alone(u)'
    BY DEF UserInv, Alone
  <2>3. Rows(u)'
    BY <1>4, <2>1 DEF UserInv, Alone, Rows
  <2>4. Copies(u)'
    BY <1>4, <2>1 DEF UserInv, Alone, Copies, Unsettled, InGroup
  <2>5. Paired(u)'
    <3>1. faceinfo'[u] = None
      BY <2>1
    <3>2. u \notin cutOff => userinfo[u] = None
      BY <1>4 DEF UserInv, Rows
    <3> QED BY <3>1, <3>2 DEF Paired
  <2>6. Promise(u)'
    BY <1>4, <2>1 DEF UserInv, Promise, InGroup
  <2>7. StaysOut(u)'
    BY <1>4, <2>1 DEF UserInv, StaysOut, InGroup
  <2> QED BY <2>2, <2>3, <2>4, <2>5, <2>6, <2>7 DEF UserInv
<1> QED BY <1>3, <1>4

\* aiot_setperm: the record of the map with another permission, the floor the same.
LEMMA LookUpInv ==
    ASSUME Shape, \A u \in Users : UserInv(u), NEW w \in Writers, LookUp(w)
    PROVE  \A u \in Users : UserInv(u)'
<1> TAKE u \in Users
<1>1. PICK s \in {"userRow", "failed"}, i \in Info \cup {None} :
        /\ Moves(w, s, i)
        /\ s = "failed" => cutOff' = cutOff
        /\ s = "userRow" =>
             /\ mUserInfoMaps[writer[w].cmd.user] # None
             /\ i.floor = mUserInfoMaps[writer[w].cmd.user].floor
             /\ cutOff' = IF userinfo[writer[w].cmd.user] = None THEN cutOff \cup {writer[w].cmd.user}
                          ELSE cutOff
  <2>1. CASE mUserInfoMaps[writer[w].cmd.user] = None
    BY <2>1, GoesTo, WriterFacts DEF LookUp, Fail
  <2>2. CASE mUserInfoMaps[writer[w].cmd.user] # None
    <3>1. PICK r : r = mUserInfoMaps[writer[w].cmd.user]
      OBVIOUS
    <3>2. r \in Info
      BY <2>2, <3>1, WriterFacts DEF LookUp, At, Shape, TypeOK
    <3>3. [r EXCEPT !.perm = writer[w].cmd.perm].floor = r.floor
      BY <3>2 DEF Info
    <3>4. /\ Moves(w, "userRow", [r EXCEPT !.perm = writer[w].cmd.perm])
          /\ cutOff' = IF userinfo[writer[w].cmd.user] = None THEN cutOff \cup {writer[w].cmd.user}
                       ELSE cutOff
      BY <2>2, <3>1 DEF LookUp, WithPerm, Moves
    <3>5. [r EXCEPT !.perm = writer[w].cmd.perm] \in Info
      BY <3>2, WriterFacts DEF LookUp, At, Info
    <3> QED BY <2>2, <3>1, <3>3, <3>4, <3>5
  <2> QED BY <2>1, <2>2
<1>2. /\ writer[w].step = "lookup" /\ writer[w].cmd.type = "SETPERM" /\ ready
      /\ writer[w].cmd.user \in Users
      /\ UNCHANGED <<tables, cache, rest, mixed, refused, gone, promised>>
      /\ mUserInfoMaps \in [Users -> Info \cup {None}]
  BY WriterFacts DEF LookUp, At, Shape, TypeOK
<1> USE <1>1, <1>2, WriterMoves DEF tables, cache, rest
<1>3. CASE ~WorksOn(w, u)
  BY <1>3, Elsewhere DEF InGroup, WorksOn
<1>4. CASE WorksOn(w, u)
  <2>1. writer[w].cmd.user = u
    BY <1>4 DEF WorksOn
  <2>2. Alone(u)'
    BY DEF UserInv, Alone
  <2>3. Rows(u)'
    BY <1>4, <2>1 DEF UserInv, Alone, Rows
  <2>4. Copies(u)'
    BY <1>4, <2>1, NoneAssumption DEF UserInv, Alone, Copies, Unsettled, InGroup
  <2>5. Paired(u)'
    BY <1>4, <2>1 DEF UserInv, Alone, Paired, HalfWay
  <2>6. Promise(u)'
    BY <1>4, <2>1, NoneAssumption DEF UserInv, Promise, InGroup
  <2>7. StaysOut(u)'
    BY <1>4, <2>1, NoneAssumption DEF UserInv, StaysOut, InGroup
  <2> QED BY <2>2, <2>3, <2>4, <2>5, <2>6, <2>7 DEF UserInv
<1> QED BY <1>3, <1>4

-----------------------------------------------------------------------------
(* Commands begin and end, writers meet, the device restarts *)

\* A command that begins is alone at its user, or both are known to be there.
LEMMA BeginInv ==
    ASSUME Shape, \A u \in Users : UserInv(u), NEW w \in Writers,
           NEW cmd \in DownEvents \cup TcpFaces, Begin(w, cmd), UNCHANGED <<tables, cache, ready>>
    PROVE  \A u \in Users : UserInv(u)'
<1> TAKE u \in Users
<1>1. /\ cmd.type \in {"REGFACE", "DELFACE", "SETPERM", "RESET"}
      /\ cmd.type # "RESET" => cmd.user \in Users
  BY DEF DownEvents, TcpFaces, Registrations
<1>2. /\ writer'[w].cmd = cmd /\ writer'[w].step = FirstStep[cmd.type]
      /\ \A v \in Writers : v # w => writer'[v] = writer[v]
  BY WriterFacts DEF Begin
<1>3. writer[w].cmd.type = "NONE"
  BY WriterFacts DEF Begin
<1>4. /\ \A v \in Writers : v # w => (WorksOn(v, u)' <=> WorksOn(v, u))
      /\ WorksOn(w, u)' <=> cmd.type # "RESET" /\ cmd.user = u
      /\ ~WorksOn(w, u)
  BY <1>1, <1>2, <1>3 DEF WorksOn
<1>5. UNCHANGED <<faceinfo, userinfo, mUserInfoMaps, mUserIDs, ready>> /\ InGroup(u)' = InGroup(u)
  BY DEF tables, cache, InGroup
<1>6. CASE ~WorksOn(w, u)'
  <2>1. CASE cmd.type = "RESET"
    BY <1>2, <1>4, <1>5, <1>6, <2>1, Elsewhere DEF Begin, history
  <2>2. CASE cmd.type # "RESET" /\ cmd.user # u
    <3>1. /\ u \in mixed' <=> u \in mixed
          /\ u \in refused' <=> u \in refused
          /\ u \in cutOff' <=> u \in cutOff
          /\ u \in gone' <=> u \in gone
          /\ promised'[u] = promised[u]
      BY <1>1, <2>2 DEF Begin, Shape, TypeOK
    <3> QED BY <1>2, <1>4, <1>5, <1>6, <3>1, Elsewhere
  <2> QED BY <1>4, <1>6, <2>1, <2>2
<1>7. CASE WorksOn(w, u)'
  <2>1. cmd.type \in {"REGFACE", "DELFACE", "SETPERM"} /\ cmd.user = u
    BY <1>1, <1>4, <1>7
  <2>2. writer'[w].step \in {"photo", "groupDelete", "lookup"}
    BY <1>2, <2>1, FirstSteps
  <2>3. /\ mixed \subseteq mixed' /\ cutOff \subseteq cutOff' /\ refused' = refused
        /\ (\E v \in Writers : v # w /\ WorksOn(v, u)) => u \in mixed' /\ u \in cutOff'
        /\ (\A v \in Writers : ~WorksOn(v, u)) => mixed' = mixed /\ cutOff' = cutOff
        /\ u \in gone' => u \in gone /\ cmd.type # "REGFACE"
        /\ promised'[u] # None => /\ cmd.type = "SETPERM" /\ promised'[u] = promised[u]
                                  /\ \A v \in Writers : ~WorksOn(v, u)
    <3> DEFINE both == {cmd.user} \cap {x \in Users : \E v \in Writers \ {w} : WorksOn(v, x)}
    <3>1. /\ mixed' = mixed \cup both /\ cutOff' = cutOff \cup both /\ refused' = refused
          /\ gone' = IF cmd.type = "REGFACE" THEN gone \ {cmd.user} ELSE gone
          /\ promised' = IF cmd.type = "SETPERM" /\ both = {} THEN promised
                         ELSE [promised EXCEPT ![cmd.user] = None]
      BY <2>1 DEF Begin
    <3>2. both = IF \E v \in Writers : v # w /\ WorksOn(v, u) THEN {u} ELSE {}
      BY <2>1
    <3>3. promised \in [Users -> Registration \cup {None}]
      BY DEF Shape, TypeOK
    <3> HIDE DEF both
    <3> QED BY <1>4, <2>1, <3>1, <3>2, <3>3
  <2> USE <1>2, <1>4, <1>5, <2>1, <2>2, <2>3
  <2>4. Alone(u)'
    BY DEF UserInv, Alone
  <2>5. Rows(u)'
    BY DEF UserInv, Rows
  <2>6. Copies(u)'
    BY DEF UserInv, Copies, Unsettled
  <2>7. Paired(u)'
    BY DEF UserInv, Paired, HalfWay
  <2>8. Promise(u)'
    BY DEF UserInv, Promise
  <2>9. StaysOut(u)'
    BY DEF UserInv, StaysOut
  <2> QED BY <2>4, <2>5, <2>6, <2>7, <2>8, <2>9 DEF UserInv
<1> QED BY <1>6, <1>7

\* A command that ends leaves the user as it says.
LEMMA ReportInv ==
    ASSUME Shape, \A u \in Users : UserInv(u), NEW w \in Writers,
           writer[w].step \in {"done", "failed"}, Report(w), UNCHANGED <<tables, cache, ready>>
    PROVE  \A u \in Users : UserInv(u)'
<1> TAKE u \in Users
<1> DEFINE cmd == writer[w].cmd
           step == writer[w].step
           photo == writer[w].photo
<1>1. /\ writer'[w] = Resting /\ \A v \in Writers : v # w => writer'[v] = writer[v]
      /\ cmd.type \in {"REGFACE", "DELFACE", "SETPERM", "RESET", "NONE"}
      /\ cmd.type = "REGFACE" => /\ step = "done" => photo \in Photos /\ photo # None
                                 /\ [floor |-> cmd.floor, perm |-> 1] # None
  BY WriterFacts, NoneAssumption DEF Report
<1>2. /\ \A v \in Writers : v # w => (WorksOn(v, u)' <=> WorksOn(v, u))
      /\ ~WorksOn(w, u)'
  BY <1>1 DEF WorksOn, Resting, Idle
<1>3. UNCHANGED <<faceinfo, userinfo, mUserInfoMaps, mUserIDs, ready>> /\ InGroup(u)' = InGroup(u)
  BY DEF tables, cache, InGroup
<1>4. cmd.type # "NONE"
  BY WriterFacts, CommandSteps DEF Shape, WriterSteps
<1>5. CASE ~WorksOn(w, u)
  <2>1. /\ u \in mixed' <=> u \in mixed
        /\ u \in refused' <=> u \in refused
        /\ u \in cutOff' <=> u \in cutOff
        /\ u \in gone' <=> u \in gone
        /\ promised'[u] = promised[u]
    BY <1>1, <1>4, <1>5 DEF Report, history, Shape, TypeOK, WorksOn
  <2> QED BY <1>1, <1>2, <1>3, <1>5, <2>1, Elsewhere
<1>6. CASE WorksOn(w, u)
  <2>1. cmd.type \in {"REGFACE", "DELFACE", "SETPERM"} /\ cmd.user = u
    BY <1>1, <1>6 DEF WorksOn
  <2>2. ~HalfWay(w) /\ step \notin Unsettled /\ step # "userMap"
    BY DEF HalfWay, Unsettled
  <2>3. Alone(u)'
    <3>1. \A v1, v2 \in Writers : WorksOn(v1, u)' /\ WorksOn(v2, u)' => v1 = v2
      BY <1>1, <1>2 DEF Writers
    <3> QED BY <3>1 DEF Alone
  <2>4. CASE u \in mixed
    <3>1. UNCHANGED <<mixed, refused, cutOff, gone, promised>>
      BY <2>1, <2>4 DEF Report, history
    <3> USE <1>1, <1>2, <1>3, <2>2, <3>1
    <3>2. Rows(u)'
      BY DEF UserInv, Rows
    <3>3. Copies(u)'
      BY <2>4 DEF Copies
    <3>4. Paired(u)'
      BY DEF UserInv, Paired, HalfWay
    <3>5. Promise(u)'
      BY DEF UserInv, Promise
    <3>6. StaysOut(u)'
      BY DEF UserInv, StaysOut
    <3> QED BY <2>3, <3>2, <3>3, <3>4, <3>5, <3>6 DEF UserInv
  <2>5. CASE u \notin mixed
    <3>1. /\ mixed' = mixed /\ refused' = refused
          /\ cutOff' = IF step = "done" /\ cmd.type # "SETPERM" THEN cutOff \ {u} ELSE cutOff
          /\ gone' = IF step = "done" /\ cmd.type = "DELFACE" THEN gone \cup {u} ELSE gone
          /\ promised' = IF step = "done" /\ cmd.type = "REGFACE"
                         THEN [promised EXCEPT ![u] = [floor |-> cmd.floor, photo |-> photo]]
                         ELSE promised
      BY <2>1, <2>5 DEF Report
    <3>2. \A v \in Writers : WorksOn(v, u) => v = w
      BY <1>6, <2>5 DEF UserInv, Alone
    <3>3. \A v \in Writers : ~WorksOn(v, u)'
      BY <1>2, <3>2
    <3>4. /\ step = "done" /\ cmd.type = "REGFACE" =>
                faceinfo[u] = photo /\ userinfo[u] = [floor |-> cmd.floor, perm |-> 1]
          /\ step = "done" /\ cmd.type = "DELFACE" => faceinfo[u] = None /\ userinfo[u] = None
      BY <1>6, <2>5 DEF UserInv, Rows
    <3>5. ready => /\ InGroup(u) # {} => u \in mUserIDs
                   /\ u \notin refused => InGroup(u) = {faceinfo[u]} \ {None}
                   /\ userinfo[u] # None => mUserInfoMaps[u] = userinfo[u]
      BY <2>2, <2>5, <3>2 DEF UserInv, Copies
    <3>12. ready /\ step = "done" /\ cmd.type = "DELFACE" => InGroup(u) = {}
      BY <1>6, <2>5 DEF UserInv, Copies
    <3>6. step = "done" => ready
      BY <2>1 DEF Shape, WriterSteps
    <3>7. Rows(u)'
      BY <3>3 DEF Rows
    <3>8. Copies(u)'
      BY <1>3, <3>1, <3>3, <3>5 DEF Copies
    <3>9. Paired(u)'
      <4>1. CASE step = "done" /\ cmd.type # "SETPERM"
        BY <1>1, <1>3, <2>1, <3>4, <4>1 DEF Paired
      <4>2. CASE ~(step = "done" /\ cmd.type # "SETPERM")
        BY <1>3, <2>2, <3>1, <3>2, <4>2 DEF UserInv, Paired
      <4> QED BY <4>1, <4>2
    <3>10. Promise(u)'
      <4>1. CASE step = "done" /\ cmd.type = "REGFACE"
        <5>1. promised'[u] = [floor |-> cmd.floor, photo |-> photo]
          BY <3>1, <4>1 DEF Shape, TypeOK
        <5>2. /\ faceinfo'[u] = photo /\ userinfo'[u] = [floor |-> cmd.floor, perm |-> 1]
              /\ u \notin refused' => photo \in InGroup(u)'
              /\ mUserInfoMaps'[u] = [floor |-> cmd.floor, perm |-> 1]
          BY <1>1, <1>3, <3>1, <3>4, <3>5, <3>6, <4>1
        <5> HIDE DEF cmd, photo
        <5> QED BY <1>1, <3>3, <4>1, <5>1, <5>2 DEF Promise
      <4>2. CASE ~(step = "done" /\ cmd.type = "REGFACE")
        BY <1>3, <3>1, <3>3, <4>2 DEF UserInv, Promise
      <4> QED BY <4>1, <4>2
    <3>11. StaysOut(u)'
      <4>1. CASE step = "done" /\ cmd.type = "DELFACE"
        BY <1>3, <3>3, <3>4, <3>6, <3>12, <4>1 DEF StaysOut
      <4>2. CASE ~(step = "done" /\ cmd.type = "DELFACE")
        BY <1>3, <3>1, <3>3, <4>2 DEF UserInv, StaysOut
      <4> QED BY <4>1, <4>2
    <3> QED BY <2>3, <3>7, <3>8, <3>9, <3>10, <3>11 DEF UserInv
  <2> QED BY <2>4, <2>5
<1> QED BY <1>5, <1>6

\* The memory goes, and the commands half-way are counted as cut off.
LEMMA RestartInv ==
    ASSUME Shape, \A u \in Users : UserInv(u), Restart
    PROVE  \A u \in Users : UserInv(u)'
<1> TAKE u \in Users
<1>1. \A w \in Writers : ~WorksOn(w, u)'
  BY DEF Restart, WorksOn, Resting, Idle
<1>2. /\ ready' = FALSE /\ InGroup(u)' = {} /\ UNCHANGED <<faceinfo, userinfo, gone, promised>>
      /\ mixed' = {} /\ cutOff \subseteq cutOff'
      /\ \A w \in Writers : HalfWay(w) /\ WorksOn(w, u) => u \in cutOff'
  BY DEF Restart, InGroup, tables
<1> USE <1>1, <1>2
<1>3. Alone(u)' /\ Rows(u)' /\ Copies(u)'
  BY DEF Alone, Rows, Copies
<1>4. Paired(u)'
  BY DEF UserInv, Paired
<1>5. Promise(u)'
  BY DEF UserInv, Promise
<1>6. StaysOut(u)'
  BY DEF UserInv, StaysOut
<1> QED BY <1>3, <1>4, <1>5, <1>6 DEF UserInv

\* The map and the group are filled from the tables.
LEMMA LoadDatabaseInv ==
    ASSUME Shape, \A u \in Users : UserInv(u), LoadDatabase
    PROVE  \A u \in Users : UserInv(u)'
<1> TAKE u \in Users
<1>1. /\ UNCHANGED <<faceinfo, userinfo, writer, mixed, cutOff, gone, promised>>
      /\ mUserInfoMaps' = userinfo
      /\ u \in mUserIDs' <=> faceinfo[u] # None
      /\ faceinfo[u] \in Photos \cup {None}
  BY DEF LoadDatabase, Enrolled, tables, history, Shape, TypeOK
<1>2. InGroup(u)' = IF u \in refused' THEN {} ELSE {faceinfo[u]} \ {None}
  <2>1. PICK out \in SUBSET Enrolled :
          group' = {<<v, faceinfo[v]>> : v \in Enrolled \ out} /\ refused' = out
    BY DEF LoadDatabase
  <2> QED BY <1>1, <2>1 DEF InGroup, Enrolled
<1>3. \A w \in Writers : WorksOn(w, u)' <=> WorksOn(w, u)
  BY <1>1 DEF WorksOn
<1>4. \A w \in Writers : writer[w].step \notin Unsettled \cup {"userRow", "userMap"}
  BY DEF Shape, WriterSteps, LoadDatabase, Unsettled
<1> USE <1>1, <1>2, <1>3, <1>4
<1>5. Alone(u)' /\ Rows(u)' /\ Paired(u)'
  BY DEF UserInv, Alone, Rows, Paired, HalfWay
<1>6. Copies(u)'
  <2>1. /\ InGroup(u)' # {} => u \in mUserIDs'
        /\ u \notin refused' => InGroup(u)' = {faceinfo'[u]} \ {None}
        /\ mUserInfoMaps'[u] = userinfo'[u]
    OBVIOUS
  <2>2. \A w \in Writers : /\ writer'[w].step \notin Unsettled \cup {"userRow", "userMap"}
                             /\ ~(writer'[w].step = "done" /\ writer'[w].cmd.type = "DELFACE")
    BY DEF Shape, WriterSteps, LoadDatabase
  <2> QED BY <2>1, <2>2 DEF Copies, Unsettled
<1>7. Promise(u)'
  <2> SUFFICES ASSUME promised[u] # None PROVE Promise(u)'
    BY DEF Promise
  <2>1. promised[u].photo # None
    <3>1. promised[u] \in Registration
      BY DEF Shape, TypeOK
    <3> QED BY <3>1, NoneAssumption DEF Registration
  <2>2. /\ faceinfo[u] = promised[u].photo
        /\ userinfo[u] # None /\ userinfo[u].floor = promised[u].floor
        /\ \A w \in Writers : WorksOn(w, u) => writer[w].cmd.type = "SETPERM"
    BY DEF UserInv, Promise
  <2> QED BY <2>1, <2>2 DEF Promise
<1>8. StaysOut(u)'
  BY DEF UserInv, StaysOut
<1> QED BY <1>5, <1>6, <1>7, <1>8 DEF UserInv

\* Both writers go on, and one change may be lost.
LEMMA MeetInv ==
    ASSUME Shape, \A u \in Users : UserInv(u), NEW w \in Writers, AppendsMeet(w) \/ InsertsMeet(w)
    PROVE  \A u \in Users : UserInv(u)'
<1> TAKE u \in Users
<1>1. PICK s \in {"insert", "done"} :
        /\ \A v \in Writers : /\ writer'[v].step = s /\ writer'[v].cmd = writer[v].cmd
                              /\ writer'[v].info = writer[v].info
                              /\ writer'[v].photo = writer[v].photo
        /\ s = "insert" => /\ \A v \in Writers : writer[v].step = "append"
                           /\ mUserInfoMaps' = mUserInfoMaps
                           /\ mUserIDs' = mUserIDs \cup {writer[w].cmd.user}
        /\ s = "done" => /\ \A v \in Writers : writer[v].step = "userMap"
                         /\ mUserIDs' = mUserIDs
                         /\ mUserInfoMaps' =
                              [mUserInfoMaps EXCEPT ![writer[w].cmd.user] = writer[w].info]
  <2>1. writer \in [Writers -> [step : Steps, cmd : Commands, photo : Photos \cup {None}, info : Info \cup {None}]]
    BY WriterFacts
  <2> QED BY <2>1 DEF AppendsMeet, InsertsMeet, At
<1>2. /\ \A v \in Writers : WorksOn(v, u)' <=> WorksOn(v, u)
      /\ \A v \in Writers : writer[v].cmd.type \in {"REGFACE", "SETPERM"}
      /\ \A v \in Writers : WorksOn(v, u) <=> writer[v].cmd.user = u
  BY <1>1, WriterFacts DEF WorksOn
<1>3. /\ UNCHANGED <<faceinfo, userinfo, ready, refused, cutOff, gone, promised>> /\ InGroup(u)' = InGroup(u)
      /\ mixed' = mixed \cup {writer[v].cmd.user : v \in Writers}
  BY DEF AppendsMeet, InsertsMeet, tables, rest, InGroup
<1>4. CASE \A v \in Writers : ~WorksOn(v, u)
  <2>1. /\ u \in mixed' <=> u \in mixed
        /\ u \in mUserIDs' <=> u \in mUserIDs
        /\ mUserInfoMaps'[u] = mUserInfoMaps[u]
    BY <1>1, <1>2, <1>3, <1>4 DEF Shape, TypeOK
  <2> QED BY <1>2, <1>3, <1>4, <2>1, Elsewhere
<1>5. CASE \E v \in Writers : WorksOn(v, u)
  <2>1. u \in mixed'
    BY <1>2, <1>3, <1>5
  <2> USE <1>1, <1>2, <1>3, <2>1
  <2>2. Alone(u)'
    BY DEF UserInv, Alone
  <2>3. Rows(u)'
    BY DEF UserInv, Rows
  <2>4. Copies(u)'
    BY DEF Copies
  <2>5. Paired(u)'
    BY <1>5 DEF UserInv, Paired, HalfWay, Rows
  <2>6. Promise(u)'
    <3> SUFFICES ASSUME promised[u] # None PROVE Promise(u)'
      BY DEF Promise
    <3>1. Promise(u)
      BY DEF UserInv
    <3>2. ready /\ mUserInfoMaps[u] # None /\ mUserInfoMaps[u].floor = promised[u].floor
      BY <3>1 DEF Promise, AppendsMeet, InsertsMeet, At, Writers
    <3>3. mUserInfoMaps'[u] # None /\ mUserInfoMaps'[u].floor = promised[u].floor
      <4>1. CASE mUserInfoMaps'[u] = mUserInfoMaps[u]
        BY <3>2, <4>1
      <4>2. CASE mUserInfoMaps'[u] # mUserInfoMaps[u]
        <5>1. writer[w].cmd.user = u /\ writer[w].step = "userMap" /\ mUserInfoMaps'[u] = writer[w].info
          BY <4>2 DEF Shape, TypeOK
        <5>2. writer[w].info.floor = promised[u].floor
          BY <3>1, <5>1 DEF Promise
        <5>3. writer[w].info # None
          BY <5>1, WriterFacts, NoneAssumption
        <5> QED BY <5>1, <5>2, <5>3
      <4> QED BY <4>1, <4>2
    <3> QED BY <3>1, <3>3 DEF Promise
  <2>7. StaysOut(u)'
    BY <1>5 DEF UserInv, StaysOut
  <2> QED BY <2>2, <2>3, <2>4, <2>5, <2>6, <2>7 DEF UserInv
<1> QED BY <1>4, <1>5
-----------------------------------------------------------------------------
(* Types *)

DataTypes ==
    /\ faceinfo \in [Users -> Photos \cup {None}]
    /\ userinfo \in [Users -> Info \cup {None}] /\ mUserInfoMaps \in [Users -> Info \cup {None}]
    /\ mUserIDs \subseteq Users /\ group \subseteq Users \X Photos
HistoryTypes ==
    /\ mixed \subseteq Users /\ refused \subseteq Users
    /\ cutOff \subseteq Users /\ gone \subseteq Users
    /\ promised \in [Users -> Registration \cup {None}]
WriterTypes ==
    /\ writer \in [Writers -> [step : Steps, cmd : Commands, photo : Photos \cup {None}, info : Info \cup {None}]]
    /\ WriterSteps
QueueTypes ==
    /\ ready \in BOOLEAN
    /\ down_fifo \in Seq(DownEvents) /\ Len(down_fifo) <= MaxDown
    /\ worker \in [pc : {"size", "read", "batch"}, left : 0 .. MaxDown]
    /\ worker.left <= Len(down_fifo) + (IF writer["down"].step = "idle" THEN 0 ELSE 1)
    /\ Counted

\* Shape, by what a step touches.
LEMMA ShapeParts ==
    /\ Shape <=> DataTypes /\ HistoryTypes /\ WriterTypes /\ QueueTypes
    /\ Shape' <=> DataTypes' /\ HistoryTypes' /\ WriterTypes' /\ QueueTypes'
BY DEF Shape, TypeOK, DataTypes, HistoryTypes, WriterTypes, QueueTypes, Commands

\* Steps that write no table and no copy of one.
LEMMA DataTypesKept == ASSUME DataTypes, UNCHANGED <<tables, cache>> PROVE DataTypes'
BY DEF DataTypes, tables, cache

\* Steps that are no part of a history.
LEMMA HistoryTypesKept == ASSUME HistoryTypes, UNCHANGED history PROVE HistoryTypes'
BY DEF HistoryTypes, history

\* A writer that goes on with its command changes nothing of the queue.
LEMMA MovesShape ==
    ASSUME Shape, NEW w \in Writers, NEW s \in Steps, NEW i \in Info \cup {None}, Moves(w, s, i),
           s \in StepsOf[writer[w].cmd.type], s # "idle", writer[w].step \notin {"idle", "failed"},
           s \in {"userRow", "userMap"} => i \in Info,
           writer[w].step # "photo" \/ s = "failed",
           ready \/ s = "failed" \/ (s = "done" /\ writer[w].cmd.type = "RESET"),
           UNCHANGED rest
    PROVE  WriterTypes' /\ QueueTypes'
<1>1. WriterTypes /\ QueueTypes
  BY ShapeParts
<1>2. /\ writer'[w].step = s /\ writer'[w].info = i /\ writer'[w].cmd = writer[w].cmd
      /\ writer'[w].photo = writer[w].photo
      /\ \A v \in Writers : v # w => writer'[v] = writer[v]
      /\ UNCHANGED <<ready, down_fifo, worker>>
  BY WriterMoves DEF rest
<1>3. writer' \in [Writers -> [step : Steps, cmd : Commands, photo : Photos \cup {None}, info : Info \cup {None}]]
  BY <1>1 DEF Moves, WriterTypes
<1>4. WriterSteps'
  <2>1. \A v \in Writers : v # w =>
          /\ writer'[v].step \in StepsOf[writer'[v].cmd.type]
          /\ writer'[v].step \in {"userRow", "userMap"} => writer'[v].info \in Info
          /\ writer'[v].cmd.type = "REGFACE" /\ writer'[v].step \notin {"photo", "failed"}
                => writer'[v].photo \in Photos
          /\ ~ready' => \/ writer'[v].step \in {"idle", "photo", "groupDelete", "lookup", "reboot", "failed"}
                        \/ writer'[v].step = "done" /\ writer'[v].cmd.type = "RESET"
    BY <1>1, <1>2 DEF WriterTypes, WriterSteps
  <2>2. writer[w].cmd.type = "REGFACE" /\ writer[w].step \notin {"photo", "failed"}
            => writer[w].photo \in Photos
    BY <1>1 DEF WriterTypes, WriterSteps
  <2>3. /\ writer'[w].step \in StepsOf[writer'[w].cmd.type]
        /\ writer'[w].step \in {"userRow", "userMap"} => writer'[w].info \in Info
        /\ ~ready' => \/ writer'[w].step \in {"idle", "photo", "groupDelete", "lookup", "reboot", "failed"}
                      \/ writer'[w].step = "done" /\ writer'[w].cmd.type = "RESET"
    BY <1>2
  <2>4. writer'[w].cmd.type = "REGFACE" /\ writer'[w].step \notin {"photo", "failed"}
            => writer'[w].photo \in Photos
    BY <1>2, <2>2
  <2> QED BY <2>1, <2>3, <2>4 DEF WriterSteps
<1>5. writer'["down"].step = "idle" <=> writer["down"].step = "idle"
  <2>1. "down" \in Writers
    BY DEF Writers
  <2> QED BY <1>2, <2>1
<1>6. QueueTypes'
  BY <1>1, <1>2, <1>5 DEF QueueTypes, Counted, Locked
<1> QED BY <1>3, <1>4, <1>6 DEF WriterTypes

\* Every step of a command.
LEMMA StepShape == ASSUME Shape, NEW w \in Writers, Step(w), ~Restart PROVE Shape'
<1>1. /\ DataTypes /\ HistoryTypes /\ writer[w].info \in Info \cup {None}
      /\ \A s \in {"photo", "faceRow", "find", "groupClear", "append", "insert", "userRow",
                   "userMap", "groupDelete", "deleteUser", "deleteFace", "lookup", "reboot",
                   "done", "failed"} : s \in Steps
  BY ShapeParts, WriterFacts DEF Steps
<1> USE <1>1, CommandSteps
<1>2. CASE TakePhoto(w)
  <2>1. writer[w].step = "photo" /\ writer[w].cmd.type = "REGFACE" /\ UNCHANGED rest
        /\ UNCHANGED <<tables, cache>> /\ UNCHANGED history
    BY <1>2, WriterFacts DEF TakePhoto
  <2>2. CASE Fail(w)
    <3>1. Moves(w, "failed", writer[w].info)
      BY <2>2, GoesTo DEF Fail
    <3> QED BY <2>1, <3>1, MovesShape, DataTypesKept, HistoryTypesKept, ShapeParts
  <2>3. ASSUME NEW p \in Photos, ready, Takes(w, p) PROVE Shape'
    <3>1. /\ writer'[w].step = "faceRow" /\ writer'[w].photo = p /\ writer'[w].cmd = writer[w].cmd
          /\ \A v \in Writers : v # w => writer'[v] = writer[v]
      BY <2>3, WriterTakes
    <3>2. WriterTypes /\ QueueTypes
      BY ShapeParts
    <3>3. writer' \in [Writers -> [step : Steps, cmd : Commands, photo : Photos \cup {None}, info : Info \cup {None}]]
      <4> DEFINE R == [step : Steps, cmd : Commands, photo : Photos \cup {None}, info : Info \cup {None}]
      <4>1. writer \in [Writers -> R]
        BY <3>2 DEF WriterTypes
      <4>2. "faceRow" \in Steps /\ writer[w] \in R
        BY <4>1 DEF Steps
      <4>3. [writer[w] EXCEPT !.step = "faceRow", !.photo = p] \in R
        BY <2>3, <4>2
      <4>4. writer' = [writer EXCEPT ![w] = [writer[w] EXCEPT !.step = "faceRow", !.photo = p]]
        BY <2>3, <4>1 DEF Takes
      <4> HIDE DEF R
      <4>5. writer' \in [Writers -> R]
        BY <4>1, <4>3, <4>4
      <4> QED BY <4>5 DEF R
    <3>4. WriterSteps'
      BY <2>1, <2>3, <3>1, <3>2 DEF WriterTypes, WriterSteps, rest
    <3>5. QueueTypes'
      <4>1. writer'["down"].step = "idle" <=> writer["down"].step = "idle"
        BY <2>1, <3>1 DEF Writers
      <4> QED BY <2>1, <3>2, <4>1 DEF QueueTypes, Counted, Locked, rest
    <3> QED BY <2>1, <3>3, <3>4, <3>5, DataTypesKept, HistoryTypesKept, ShapeParts DEF WriterTypes
  <2> QED BY <1>2, <2>2, <2>3 DEF TakePhoto, Takes
<1>3. CASE PutFaceRow(w)
  <2>1. PICK s \in {"find", "failed"} : Moves(w, s, writer[w].info)
    BY <1>3, GoesTo DEF PutFaceRow, Fail
  <2>2. writer[w].step = "faceRow" /\ writer[w].cmd.type = "REGFACE" /\ ready /\ UNCHANGED rest
        /\ UNCHANGED history /\ writer[w].photo \in Photos
    BY <1>3, WriterFacts DEF PutFaceRow, At
  <2>3. DataTypes'
    BY <1>3, <2>2 DEF PutFaceRow, DataTypes, cache
  <2> QED BY <2>1, <2>2, <2>3, MovesShape, HistoryTypesKept, ShapeParts
<1>4. CASE FindID(w)
  <2>1. PICK s \in {"groupClear", "append"} : Moves(w, s, writer[w].info)
    BY <1>4, GoesTo DEF FindID
  <2>2. writer[w].step = "find" /\ writer[w].cmd.type = "REGFACE" /\ ready /\ UNCHANGED rest
        /\ UNCHANGED <<tables, cache>> /\ UNCHANGED history
    BY <1>4, WriterFacts DEF FindID, At
  <2> QED BY <2>1, <2>2, MovesShape, DataTypesKept, HistoryTypesKept, ShapeParts
<1>5. CASE ClearItem(w) \/ AppendID(w)
  <2>1. Moves(w, "insert", writer[w].info)
    BY <1>5, GoesTo DEF ClearItem, AppendID
  <2>2. writer[w].step \in {"groupClear", "append"} /\ writer[w].cmd.type = "REGFACE" /\ ready
        /\ UNCHANGED rest /\ writer[w].cmd.user \in Users
    BY <1>5, WriterFacts DEF ClearItem, AppendID, At
  <2>3. DataTypes'
    BY <1>5, <2>2 DEF ClearItem, AppendID, GroupWithout, DataTypes, tables
  <2>4. HistoryTypes'
    BY <1>5, <2>2 DEF ClearItem, AppendID, HistoryTypes, history
  <2> QED BY <2>1, <2>2, <2>3, <2>4, MovesShape, ShapeParts
<1>6. CASE InsertItem(w)
  <2>1. Moves(w, "userRow", [floor |-> writer[w].cmd.floor, perm |-> 1])
    BY <1>6 DEF InsertItem, Moves
  <2>2. writer[w].step = "insert" /\ writer[w].cmd.type = "REGFACE" /\ ready
        /\ UNCHANGED rest /\ writer[w].cmd.user \in Users
        /\ writer[w].photo \in Photos /\ [floor |-> writer[w].cmd.floor, perm |-> 1] \in Info
    BY <1>6, WriterFacts DEF InsertItem, At
  <2>3. DataTypes'
    BY <1>6, <2>2 DEF InsertItem, DataTypes, tables
  <2>4. HistoryTypes'
    BY <1>6, <2>2 DEF InsertItem, HistoryTypes
  <2> QED BY <2>1, <2>2, <2>3, <2>4, MovesShape, ShapeParts
<1>7. CASE PutUserRow(w)
  <2>1. PICK s \in {"userMap", "failed"} : Moves(w, s, writer[w].info)
    BY <1>7, GoesTo DEF PutUserRow, Fail
  <2>2. writer[w].step = "userRow" /\ writer[w].cmd.type \in {"REGFACE", "SETPERM"} /\ ready
        /\ UNCHANGED rest /\ writer[w].cmd.user \in Users /\ writer[w].info \in Info
    BY <1>7, WriterFacts DEF PutUserRow, At
  <2>3. DataTypes' /\ HistoryTypes'
    BY <1>7, <2>2 DEF PutUserRow, DataTypes, HistoryTypes, cache
  <2> QED BY <2>1, <2>2, <2>3, MovesShape, ShapeParts
<1>8. CASE PutUserMap(w)
  <2>1. Moves(w, "done", writer[w].info)
    BY <1>8, GoesTo DEF PutUserMap
  <2>2. writer[w].step = "userMap" /\ writer[w].cmd.type \in {"REGFACE", "SETPERM"} /\ ready
        /\ UNCHANGED rest /\ UNCHANGED history /\ writer[w].info \in Info
    BY <1>8, WriterFacts DEF PutUserMap, At
  <2>3. DataTypes'
    BY <1>8, <2>2 DEF PutUserMap, DataTypes, tables
  <2> QED BY <2>1, <2>2, <2>3, MovesShape, HistoryTypesKept, ShapeParts
<1>9. CASE GroupDelete(w)
  <2>1. PICK s \in {"deleteUser", "failed"} : Moves(w, s, writer[w].info)
    BY <1>9, GoesTo DEF GroupDelete, Fail
  <2>2. writer[w].step = "groupDelete" /\ writer[w].cmd.type = "DELFACE" /\ ready
        /\ UNCHANGED rest
    BY <1>9, WriterFacts DEF GroupDelete, At
  <2>3. DataTypes' /\ HistoryTypes'
    BY <1>9 DEF GroupDelete, GroupWithout, DataTypes, HistoryTypes, tables
  <2> QED BY <2>1, <2>2, <2>3, MovesShape, ShapeParts
<1>10. CASE DeleteUserRow(w) \/ DeleteFaceRow(w)
  <2>1. PICK s \in {"deleteFace", "failed", "done"} : Moves(w, s, writer[w].info)
    BY <1>10, GoesTo DEF DeleteUserRow, DeleteFaceRow
  <2>2. writer[w].step \in {"deleteUser", "deleteFace"} /\ writer[w].cmd.type = "DELFACE" /\ ready
        /\ UNCHANGED rest /\ UNCHANGED history
    BY <1>10, WriterFacts DEF DeleteUserRow, DeleteFaceRow, At
  <2>3. DataTypes'
    BY <1>10 DEF DeleteUserRow, DeleteFaceRow, WithoutFace, DataTypes, cache
  <2> QED BY <2>1, <2>2, <2>3, MovesShape, HistoryTypesKept, ShapeParts
<1>11. CASE LookUp(w)
  <2>1. writer[w].step = "lookup" /\ writer[w].cmd.type = "SETPERM" /\ ready
        /\ UNCHANGED rest /\ UNCHANGED <<tables, cache>>
        /\ writer[w].cmd.user \in Users /\ writer[w].cmd.perm \in Perms
    BY <1>11, WriterFacts DEF LookUp, At
  <2>2. HistoryTypes'
    BY <1>11, <2>1 DEF LookUp, HistoryTypes
  <2>3. PICK s \in {"userRow", "failed"}, i \in Info \cup {None} :
          Moves(w, s, i) /\ (s = "userRow" => i \in Info)
    <3>1. CASE mUserInfoMaps[writer[w].cmd.user] = None
      BY <1>11, <3>1, GoesTo DEF LookUp, Fail
    <3>2. CASE mUserInfoMaps[writer[w].cmd.user] # None
      <4>1. PICK r \in Info : r = mUserInfoMaps[writer[w].cmd.user]
        BY <2>1, <3>2 DEF DataTypes
      <4>2. [r EXCEPT !.perm = writer[w].cmd.perm] \in Info
        BY <2>1 DEF Info
      <4>3. Moves(w, "userRow", [r EXCEPT !.perm = writer[w].cmd.perm])
        BY <1>11, <3>2, <4>1 DEF LookUp, WithPerm, Moves
      <4> QED BY <4>2, <4>3
    <3> QED BY <3>1, <3>2
  <2> QED BY <2>1, <2>2, <2>3, MovesShape, DataTypesKept, ShapeParts
<1>12. CASE RebootDevice(w)
  <2>1. Moves(w, "done", writer[w].info)
    BY <1>12, GoesTo DEF RebootDevice
  <2>2. writer[w].step = "reboot" /\ writer[w].cmd.type = "RESET" /\ UNCHANGED rest
        /\ UNCHANGED <<tables, cache>> /\ UNCHANGED history
    BY <1>12, WriterFacts DEF RebootDevice
  <2> QED BY <2>1, <2>2, MovesShape, DataTypesKept, HistoryTypesKept, ShapeParts
<1> QED BY <1>2, <1>3, <1>4, <1>5, <1>6, <1>7, <1>8, <1>9, <1>10, <1>11, <1>12 DEF Step

\* A command begins.
LEMMA BeginShape ==
    ASSUME Shape, NEW w \in Writers, NEW cmd \in DownEvents \cup TcpFaces, Begin(w, cmd),
           UNCHANGED ready
    PROVE  /\ HistoryTypes' /\ WriterTypes' /\ writer'[w].step # "idle"
           /\ \A v \in Writers : v # w => writer'[v] = writer[v]
<1>1. HistoryTypes /\ WriterTypes
  BY ShapeParts
<1>2. /\ cmd \in Commands /\ cmd.type \in {"REGFACE", "DELFACE", "SETPERM", "RESET"}
      /\ cmd.type # "RESET" => cmd.user \in Users
  BY DEF Commands, DownEvents, TcpFaces, Registrations
<1>3. PICK s \in {"photo", "groupDelete", "lookup", "reboot"} :
        s = FirstStep[cmd.type] /\ s \in StepsOf[cmd.type]
  BY <1>2, FirstSteps, CommandSteps
<1>4. writer' = [writer EXCEPT ![w] = [step |-> s, cmd |-> cmd, photo |-> None, info |-> None]]
  BY <1>3 DEF Begin
<1>5. /\ writer'[w] = [step |-> s, cmd |-> cmd, photo |-> None, info |-> None]
      /\ \A v \in Writers : v # w => writer'[v] = writer[v]
      /\ writer' \in [Writers -> [step : Steps, cmd : Commands, photo : Photos \cup {None}, info : Info \cup {None}]]
  BY <1>1, <1>2, <1>4 DEF WriterTypes, Steps
<1>6. WriterSteps'
  <2>1. s = "photo" \/ cmd.type # "REGFACE"
    BY <1>3, FirstSteps
  <2> QED BY <1>1, <1>3, <1>5, <2>1 DEF WriterTypes, WriterSteps
<1>7. HistoryTypes'
  BY <1>1, <1>2 DEF Begin, HistoryTypes, history
<1> QED BY <1>5, <1>6, <1>7 DEF WriterTypes

\* A command ends.
LEMMA ReportShape ==
    ASSUME Shape, NEW w \in Writers, writer[w].step \in {"done", "failed"}, Report(w),
           UNCHANGED ready
    PROVE  /\ HistoryTypes' /\ WriterTypes' /\ writer'[w].step = "idle"
           /\ \A v \in Writers : v # w => writer'[v] = writer[v]
<1>1. HistoryTypes /\ WriterTypes
  BY ShapeParts
<1>2. /\ writer'[w] = Resting
      /\ \A v \in Writers : v # w => writer'[v] = writer[v]
      /\ writer' \in [Writers -> [step : Steps, cmd : Commands, photo : Photos \cup {None}, info : Info \cup {None}]]
  BY <1>1 DEF Report, WriterTypes, Resting, Steps, Commands
<1>3. WriterSteps'
  BY <1>1, <1>2, CommandSteps DEF WriterTypes, WriterSteps, Resting, Idle
<1>4. HistoryTypes'
  <2>1. CASE writer[w].cmd.type = "RESET" \/ writer[w].cmd.user \in mixed
    BY <1>1, <2>1 DEF Report, HistoryTypes, history
  <2>2. CASE ~(writer[w].cmd.type = "RESET" \/ writer[w].cmd.user \in mixed)
    <3>1. /\ writer[w].cmd.user \in Users
          /\ writer[w].cmd.type = "REGFACE" =>
               (writer[w].step = "done" =>
                 [floor |-> writer[w].cmd.floor, photo |-> writer[w].photo] \in Registration)
      <4>1. writer[w].cmd.type # "NONE"
        BY CommandSteps DEF Shape, WriterSteps
      <4> QED BY <2>2, <4>1, WriterFacts DEF Registration
    <3> QED BY <1>1, <2>2, <3>1 DEF Report, HistoryTypes
  <2> QED BY <2>1, <2>2
<1> QED BY <1>2, <1>3, <1>4 DEF WriterTypes, Resting

\* The values of a program just started.
LEMMA AtRest ==
    /\ "down" \in Writers /\ Resting.step = "idle"
    /\ Sleeping \in [pc : {"size", "read", "batch"}, left : 0 .. MaxDown]
    /\ Sleeping.left = 0
    /\ <<>> \in Seq(DownEvents) /\ Len(<<>>) = 0 /\ 0 <= MaxDown
<1>1. MaxDown \in Nat
  BY MaxDownAssumption
<1>2. 0 \in 0 .. MaxDown
  BY <1>1
<1> QED BY <1>1, <1>2 DEF Writers, Resting, Sleeping

\* The device starts again.
LEMMA RestartShape == ASSUME Shape, Restart PROVE Shape'
<1>1. DataTypes /\ HistoryTypes
  BY ShapeParts
<1>2. DataTypes'
  BY <1>1 DEF Restart, DataTypes, NoRows, tables
<1>3. HistoryTypes'
  BY <1>1 DEF Restart, HistoryTypes
<1>4. WriterTypes'
  BY CommandSteps DEF Restart, WriterTypes, WriterSteps, Resting, Idle, Steps, Commands
<1>5. QueueTypes'
  <2>1. /\ ready' \in BOOLEAN /\ down_fifo' = <<>> /\ worker' = Sleeping
        /\ writer'["down"].step = "idle"
    BY AtRest DEF Restart
  <2> QED BY <2>1, AtRest DEF QueueTypes, Counted
<1> QED BY <1>2, <1>3, <1>4, <1>5, ShapeParts

\* Two writers go on together.
LEMMA MeetShape ==
    ASSUME Shape, NEW w \in Writers, AppendsMeet(w) \/ InsertsMeet(w) PROVE Shape'
<1>1. DataTypes /\ HistoryTypes /\ WriterTypes /\ QueueTypes
  BY ShapeParts
<1>2. PICK s \in {"insert", "done"} :
        /\ writer' = [v \in Writers |-> [writer[v] EXCEPT !.step = s]]
        /\ s = "insert" => \A v \in Writers : writer[v].step = "append"
        /\ s = "done" => \A v \in Writers : writer[v].step = "userMap"
  BY DEF AppendsMeet, InsertsMeet, At
<1>3. /\ ready /\ UNCHANGED <<ready, down_fifo, worker>>
      /\ \A v \in Writers : writer[v].cmd.user \in Users
      /\ \A v \in Writers : writer[v].step = "userMap" => writer[v].info \in Info
  <2>1. \A v \in Writers : /\ writer[v].cmd.type \in {"REGFACE", "SETPERM"}
                           /\ writer[v].cmd.user \in Users
                           /\ writer[v].step = "userMap" => writer[v].info \in Info
    BY <1>2, WriterFacts
  <2> QED BY <2>1 DEF AppendsMeet, InsertsMeet, At, rest, Writers
<1>4. DataTypes' /\ HistoryTypes'
  BY <1>1, <1>3 DEF AppendsMeet, InsertsMeet, At, DataTypes, HistoryTypes, tables
<1>5. /\ \A v \in Writers : /\ writer'[v].step = s /\ writer'[v].cmd = writer[v].cmd
                            /\ writer'[v].info = writer[v].info /\ writer'[v].photo = writer[v].photo
      /\ writer' \in [Writers -> [step : Steps, cmd : Commands, photo : Photos \cup {None}, info : Info \cup {None}]]
  <2> DEFINE R == [step : Steps, cmd : Commands, photo : Photos \cup {None}, info : Info \cup {None}]
  <2>1. \A v \in Writers : writer[v] \in R
    BY <1>1 DEF WriterTypes
  <2>2. ASSUME NEW v \in Writers
        PROVE  /\ [writer[v] EXCEPT !.step = s] \in R
               /\ [writer[v] EXCEPT !.step = s].step = s
               /\ [writer[v] EXCEPT !.step = s].cmd = writer[v].cmd
               /\ [writer[v] EXCEPT !.step = s].info = writer[v].info
               /\ [writer[v] EXCEPT !.step = s].photo = writer[v].photo
    <3>1. s \in Steps /\ writer[v] \in R
      BY <2>1 DEF Steps
    <3> QED BY <3>1
  <2> HIDE DEF R
  <2>3. writer' \in [Writers -> R]
    BY <1>2, <2>2
  <2> QED BY <1>2, <2>2, <2>3 DEF R
<1>6. WriterSteps'
  <2>1. \A v \in Writers : s \in StepsOf[writer[v].cmd.type]
    BY <1>2, WriterFacts, CommandSteps
  <2>2. \A v \in Writers : writer[v].cmd.type = "REGFACE" => writer[v].photo \in Photos
    BY <1>2, WriterFacts
  <2> QED BY <1>3, <1>5, <2>1, <2>2 DEF WriterSteps
<1>7. QueueTypes'
  BY <1>1, <1>2, <1>3, <1>5 DEF QueueTypes, Counted, Locked, Writers
<1> QED BY <1>4, <1>5, <1>6, <1>7, ShapeParts DEF WriterTypes

\* The database is loaded.
LEMMA LoadShape == ASSUME Shape, LoadDatabase PROVE Shape'
<1>1. DataTypes /\ HistoryTypes /\ WriterTypes /\ QueueTypes
  BY ShapeParts
<1>2. DataTypes'
  <2>1. PICK out \in SUBSET Enrolled : group' = {<<v, faceinfo[v]>> : v \in Enrolled \ out}
    BY DEF LoadDatabase
  <2>2. mUserIDs' = Enrolled /\ mUserInfoMaps' = userinfo /\ UNCHANGED tables
    BY DEF LoadDatabase
  <2>3. group' \subseteq Users \X Photos
    BY <1>1, <2>1 DEF DataTypes, Enrolled
  <2> QED BY <1>1, <2>2, <2>3 DEF DataTypes, Enrolled, tables
<1>3. HistoryTypes'
  BY <1>1 DEF LoadDatabase, HistoryTypes, Enrolled
<1>4. WriterTypes'
  BY <1>1 DEF LoadDatabase, WriterTypes, WriterSteps
<1>5. QueueTypes'
  BY <1>1 DEF LoadDatabase, QueueTypes, Counted, Locked
<1> QED BY <1>2, <1>3, <1>4, <1>5, ShapeParts

\* The MQTT thread's push, and process_downevent between two commands.
LEMMA QueueShape ==
    ASSUME Shape,
           (\E event \in DownEvents : subscribe(event)) \/ ReadSize \/ LockDown \/ UnlockDown
    PROVE  Shape'
<1>1. DataTypes /\ HistoryTypes /\ WriterTypes /\ QueueTypes
  BY ShapeParts
<1>2. UNCHANGED <<tables, cache>> /\ UNCHANGED history /\ UNCHANGED <<writer, ready>>
  BY DEF subscribe, ReadSize, LockDown, UnlockDown
<1>3. DataTypes' /\ HistoryTypes' /\ WriterTypes'
  BY <1>1, <1>2, DataTypesKept, HistoryTypesKept DEF WriterTypes, WriterSteps
<1>4. ASSUME NEW event \in DownEvents, subscribe(event) PROVE QueueTypes'
  <2>1. /\ down_fifo' \in Seq(DownEvents) /\ Len(down_fifo') = Len(down_fifo) + 1
        /\ Len(down_fifo) \in Nat /\ Len(down_fifo') <= MaxDown
    BY <1>1, <1>4, MaxDownAssumption DEF subscribe, QueueTypes
  <2> QED BY <1>1, <1>4, <2>1 DEF subscribe, QueueTypes, Counted, Locked
<1>5. Len(down_fifo) \in Nat /\ MaxDown \in Nat /\ Len(down_fifo) <= MaxDown
  BY <1>1, MaxDownAssumption DEF QueueTypes
<1>6. CASE ReadSize \/ LockDown \/ UnlockDown
  <2>1. writer["down"].step = "idle" /\ UNCHANGED <<ready, down_fifo, writer>>
    <3>1. CASE ReadSize \/ LockDown
      BY <1>1, <1>2, <3>1 DEF ReadSize, LockDown, QueueTypes, Counted, Locked
    <3>2. CASE UnlockDown
      BY <1>1, <1>2, <3>2 DEF UnlockDown, QueueTypes, Counted
    <3> QED BY <1>6, <3>1, <3>2
  <2>2. worker' \in [pc : {"size", "read", "batch"}, left : 0 .. MaxDown] /\ worker'.left <= Len(down_fifo)
    <3>1. CASE ReadSize
      <4>1. Len(down_fifo) \in 0 .. MaxDown
        BY <1>5
      <4> QED BY <1>5, <3>1, <4>1 DEF ReadSize
    <3>2. CASE LockDown
      <4>1. worker \in [pc : {"size", "read", "batch"}, left : 0 .. MaxDown]
            /\ worker.left <= Len(down_fifo) + 0
        BY <1>1, <2>1 DEF QueueTypes
      <4> QED BY <1>5, <3>2, <4>1 DEF LockDown
    <3>3. CASE UnlockDown
      BY <1>5, <3>3, AtRest DEF UnlockDown
    <3> QED BY <1>6, <3>1, <3>2, <3>3
  <2>3. worker'.left <= Len(down_fifo') + (IF writer'["down"].step = "idle" THEN 0 ELSE 1)
    BY <1>5, <2>1, <2>2
  <2>4. Counted'
    BY <2>1 DEF Counted
  <2>5. QueueTypes'
    BY <1>1, <2>1, <2>2, <2>3, <2>4 DEF QueueTypes
  <2> QED BY <1>3, <2>5, ShapeParts
<1> QED BY <1>3, <1>4, <1>6, ShapeParts

\* The device starts for the first time.
LEMMA InitShape == Init => Shape
<1> SUFFICES ASSUME Init PROVE Shape
  OBVIOUS
<1>1. DataTypes /\ HistoryTypes
  BY DEF Init, DataTypes, HistoryTypes, NoRows
<1>2. WriterTypes
  BY CommandSteps DEF Init, WriterTypes, WriterSteps, Resting, Idle, Steps, Commands
<1>3. QueueTypes
  <2>1. ready \in BOOLEAN /\ down_fifo = <<>> /\ worker = Sleeping /\ writer["down"].step = "idle"
    BY AtRest DEF Init
  <2> QED BY <2>1, AtRest DEF QueueTypes, Counted
<1> QED BY <1>1, <1>2, <1>3, ShapeParts

\* Shape is inductive.
LEMMA NextShape == ASSUME Shape, [Next]_vars PROVE Shape'
<1>1. DataTypes /\ HistoryTypes /\ WriterTypes /\ QueueTypes
  BY ShapeParts
<1>2. CASE TakeEvent
  <2>1. /\ down_fifo \in Seq(DownEvents) /\ down_fifo # <<>> /\ Begin("down", Head(down_fifo))
        /\ down_fifo' = Tail(down_fifo) /\ UNCHANGED <<tables, cache, ready, worker>>
        /\ worker.pc = "batch" /\ worker.left > 0 /\ writer["down"].step = "idle"
    BY <1>1, <1>2 DEF TakeEvent, Begin, Locked, QueueTypes
  <2>2. /\ Head(down_fifo) \in DownEvents /\ Tail(down_fifo) \in Seq(DownEvents)
        /\ Len(Tail(down_fifo)) = Len(down_fifo) - 1 /\ Len(down_fifo) \in Nat
    BY <2>1
  <2>3. HistoryTypes' /\ WriterTypes' /\ writer'["down"].step # "idle"
    BY <2>1, <2>2, BeginShape DEF Writers
  <2>4. QueueTypes'
    BY <1>1, <2>1, <2>2, <2>3, MaxDownAssumption DEF QueueTypes, Counted, Locked
  <2> QED BY <1>1, <2>1, <2>3, <2>4, DataTypesKept, ShapeParts
<1>3. ASSUME NEW cmd \in TcpFaces, TcpBegin(cmd) PROVE Shape'
  <2>1. HistoryTypes' /\ WriterTypes' /\ writer'["down"] = writer["down"]
    BY <1>3, BeginShape DEF TcpBegin, Writers
  <2>2. QueueTypes' /\ DataTypes'
    BY <1>1, <1>3, <2>1, DataTypesKept DEF TcpBegin, QueueTypes, Counted, Locked
  <2> QED BY <2>1, <2>2, ShapeParts
<1>4. CASE Publish
  <2>1. HistoryTypes' /\ WriterTypes' /\ writer'["down"].step = "idle"
    BY <1>4, ReportShape DEF Publish, Writers
  <2>2. /\ worker' = [worker EXCEPT !.left = worker.left - 1]
        /\ writer["down"].step # "idle" /\ UNCHANGED <<tables, cache, ready, down_fifo>>
    BY <1>4 DEF Publish, OneLess
  <2>3. worker.left > 0 /\ worker.left \in 0 .. MaxDown /\ worker.left <= Len(down_fifo) + 1
        /\ Len(down_fifo) \in Nat /\ MaxDown \in Nat
    BY <1>1, <2>2, MaxDownAssumption DEF QueueTypes, Counted
  <2>4. worker' \in [pc : {"size", "read", "batch"}, left : 0 .. MaxDown]
        /\ worker'.left = worker.left - 1
    BY <1>1, <2>2, <2>3 DEF QueueTypes
  <2>5. QueueTypes'
    BY <1>1, <2>1, <2>2, <2>3, <2>4 DEF QueueTypes, Counted
  <2> QED BY <1>1, <2>1, <2>2, <2>5, DataTypesKept, ShapeParts
<1>5. CASE TcpEnd
  <2>1. HistoryTypes' /\ WriterTypes' /\ writer'["down"] = writer["down"]
    BY <1>5, ReportShape DEF TcpEnd, Writers
  <2>2. QueueTypes' /\ DataTypes'
    BY <1>1, <1>5, <2>1, DataTypesKept DEF TcpEnd, QueueTypes, Counted, Locked
  <2> QED BY <2>1, <2>2, ShapeParts
<1>6. CASE UNCHANGED vars
  BY <1>1, <1>6, ShapeParts, DataTypesKept, HistoryTypesKept
     DEF vars, WriterTypes, WriterSteps, QueueTypes, Counted, Locked
<1>7. CASE Step("down") \/ Step("tcp")
  BY <1>7, StepShape, RestartShape DEF Writers
<1> QED BY <1>2, <1>3, <1>4, <1>5, <1>6, <1>7, LoadShape, RestartShape, QueueShape, MeetShape
        DEF Next, process_downevent
-----------------------------------------------------------------------------
(* Every step *)

\* Steps that touch no user: the list, process_downevent between two commands, a reboot.
LEMMA QuietInv ==
    ASSUME Shape, \A u \in Users : UserInv(u),
           UNCHANGED <<tables, cache, ready, history>>,
           \A v \in Writers, u \in Users :
              (WorksOn(v, u)' <=> WorksOn(v, u)) /\ (WorksOn(v, u) => writer'[v] = writer[v])
    PROVE  \A u \in Users : UserInv(u)'
<1> TAKE u \in Users
<1>1. /\ UNCHANGED <<faceinfo, userinfo, mUserInfoMaps, mUserIDs, ready, mixed, refused, cutOff, gone, promised>>
      /\ InGroup(u)' = InGroup(u)
  BY DEF tables, cache, history, InGroup
<1> QED BY <1>1, Elsewhere

\* A reboot is asked for, or happens.
LEMMA RebootInv ==
    ASSUME Shape, \A u \in Users : UserInv(u), NEW w \in Writers, RebootDevice(w)
    PROVE  \A u \in Users : UserInv(u)'
<1>1. CASE Restart
  BY <1>1, RestartInv
<1>2. CASE ~Restart
  <2>1. writer[w].step = "reboot" /\ GoTo(w, "done") /\ UNCHANGED <<tables, cache, ready, history>>
    BY <1>2 DEF RebootDevice, rest
  <2>2. Moves(w, "done", writer[w].info) /\ writer[w].cmd.type = "RESET"
    BY <2>1, GoesTo, WriterFacts
  <2>3. \A v \in Writers, u \in Users :
          (WorksOn(v, u)' <=> WorksOn(v, u)) /\ (WorksOn(v, u) => writer'[v] = writer[v])
    <3>1. \A u : ~WorksOn(w, u)
      BY <2>2 DEF WorksOn
    <3> QED BY <2>2, <3>1, WriterMoves
  <2> QED BY <2>1, <2>3, QuietInv
<1> QED BY <1>1, <1>2

\* UserInv is inductive for a program in Shape.
LEMMA NextUserInv ==
    ASSUME Shape, \A u \in Users : UserInv(u), [Next]_vars
    PROVE  \A u \in Users : UserInv(u)'
<1>1. ASSUME UNCHANGED <<tables, cache, ready, writer, history>> PROVE \A u \in Users : UserInv(u)'
  BY <1>1, QuietInv DEF WorksOn
<1>2. CASE (\E event \in DownEvents : subscribe(event)) \/ ReadSize \/ LockDown \/ UnlockDown
  BY <1>1, <1>2 DEF subscribe, ReadSize, LockDown, UnlockDown
<1>3. CASE UNCHANGED vars
  BY <1>1, <1>3 DEF vars
<1>4. CASE TakeEvent
  <2>1. down_fifo \in Seq(DownEvents) /\ down_fifo # <<>>
    BY <1>4 DEF TakeEvent, Shape, TypeOK
  <2>2. Head(down_fifo) \in DownEvents
    BY <2>1
  <2> QED BY <1>4, <2>2, BeginInv DEF TakeEvent, Writers
<1>5. ASSUME NEW cmd \in TcpFaces, TcpBegin(cmd) PROVE \A u \in Users : UserInv(u)'
  BY <1>5, BeginInv DEF TcpBegin, Writers
<1>6. CASE Publish
  BY <1>6, ReportInv DEF Publish, Writers
<1>7. CASE TcpEnd
  BY <1>7, ReportInv DEF TcpEnd, Writers
<1>8. ASSUME NEW w \in Writers, Step(w) PROVE \A u \in Users : UserInv(u)'
  BY <1>8, TakePhotoInv, PutFaceRowInv, FindIDInv, ClearItemInv, AppendIDInv, InsertItemInv,
     PutUserRowInv, PutUserMapInv, GroupDeleteInv, DeleteUserRowInv, DeleteFaceRowInv, LookUpInv,
     RebootInv DEF Step
<1>9. "down" \in Writers /\ "tcp" \in Writers
  BY DEF Writers
<1> QED BY <1>2, <1>3, <1>4, <1>5, <1>6, <1>7, <1>8, <1>9, LoadDatabaseInv, RestartInv, MeetInv
        DEF Next, process_downevent

\* No user has a row yet.
LEMMA InitUserInv == Init => \A u \in Users : UserInv(u)
<1> SUFFICES ASSUME Init, NEW u \in Users PROVE UserInv(u)
  OBVIOUS
<1>1. \A w \in Writers : ~WorksOn(w, u)
  BY DEF Init, WorksOn, Resting, Idle
<1>2. /\ ~ready /\ faceinfo[u] = None /\ userinfo[u] = None
      /\ InGroup(u) = {} /\ u \notin gone /\ promised[u] = None
  BY DEF Init, NoRows, InGroup
<1> QED BY <1>1, <1>2 DEF UserInv, Alone, Rows, Copies, Paired, Promise, StaysOut

\* The inductive invariant.
LEMMA IInvHolds == Spec => []IInv
<1> DEFINE Inv == Shape /\ \A u \in Users : UserInv(u)
<1>1. Init => Inv
  BY InitShape, InitUserInv
<1>2. Inv /\ [Next]_vars => Inv'
  <2> SUFFICES ASSUME Inv, [Next]_vars PROVE Inv'
    OBVIOUS
  <2>1. Shape'
    BY NextShape
  <2>2. \A u \in Users : UserInv(u)'
    BY NextUserInv
  <2> QED BY <2>1, <2>2
<1>3. Inv => IInv
  BY DEF Shape, IInv
<1> QED BY <1>1, <1>2, <1>3, PTL DEF Spec
-----------------------------------------------------------------------------
(* What it promises *)

\* The types; and a batch of process_downevent, whose size was read without mDown_Mutex,
\* never asks for more events than down_fifo has.
THEOREM Types == Spec => []TypeOK
<1>1. IInv => TypeOK
  BY DEF IInv
<1> QED BY <1>1, IInvHolds, PTL

\* A user nobody is changing is at no step in the midst of a command.
LEMMA NotBusy ==
    ASSUME Shape, NEW u \in Users, ~Busy(u), NEW w \in Writers, WorksOn(w, u)
    PROVE  writer[w].step \notin Unsettled \cup {"userRow", "userMap"} /\ ~HalfWay(w)
BY DEF Busy, AtWork, Unsettled, HalfWay

\* The two tables and their two copies tell one story, through every sequence of commands
\* that fail or restart the device half-way: DBCache's map and the face group are what is
\* on disk but for users on whom both threads have worked at once since the start, and but
\* for faces the group is known to have refused to take or to let go; and each user has a
\* face and each face a user but where a command was cut off.
THEOREM RowsAlwaysAgree == Spec => []RowsAgree
<1>1. IInv => RowsAgree
  <2> SUFFICES ASSUME IInv PROVE RowsAgree
    OBVIOUS
  <2>1. Shape /\ \A u \in Users : UserInv(u)
    BY DEF Shape, IInv
  <2>2. ASSUME ready, NEW u \in Users \ mixed, ~Busy(u)
        PROVE  /\ u \notin refused => {i[2] : i \in ItemsOf(u)} = {faceinfo[u]} \ {None}
               /\ userinfo[u] # None => mUserInfoMaps[u] = userinfo[u]
    <3>1. \A w \in Writers : WorksOn(w, u) =>
             writer[w].step \notin Unsettled /\ writer[w].step # "userMap"
      BY <2>1, <2>2, NotBusy
    <3>2. Copies(u)
      BY <2>1 DEF UserInv
    <3>3. u \notin refused => InGroup(u) = {faceinfo[u]} \ {None}
      BY <2>2, <3>1, <3>2 DEF Copies
    <3>4. userinfo[u] # None => mUserInfoMaps[u] = userinfo[u]
      BY <2>2, <3>1, <3>2 DEF Copies
    <3>5. {i[2] : i \in ItemsOf(u)} = InGroup(u)
      BY <2>1, NoItems
    <3> QED BY <3>3, <3>4, <3>5
  <2>3. ASSUME NEW u \in Users \ cutOff, ~Busy(u)
        PROVE  faceinfo[u] = None <=> userinfo[u] = None
    <3>1. \A w \in Writers : WorksOn(w, u) => ~HalfWay(w)
      BY <2>1, <2>3, NotBusy
    <3> QED BY <2>1, <2>3, <3>1 DEF UserInv, Paired
  <2> QED BY <2>2, <2>3 DEF RowsAgree, CacheAgrees, RowsPaired
<1> QED BY <1>1, IInvHolds, PTL

\* A registration that publish_user_register_result reported done stays in force, on disk
\* and, unless the group refused the face, in what recognition searches, until the user's next registration or deletion begins,
\* however many permissions are set, commands fail and restarts come between.
THEOREM RegistrationsLast == Spec => []ReportedInForce
<1>1. IInv => ReportedInForce
  <2> SUFFICES ASSUME IInv, NEW u \in Users, promised[u] # None
               PROVE  /\ faceinfo[u] = promised[u].photo
                      /\ userinfo[u] # None /\ userinfo[u].floor = promised[u].floor
                      /\ ready => /\ u \notin refused => <<u, promised[u].photo>> \in group
                                  /\ mUserInfoMaps[u] # None
                                  /\ mUserInfoMaps[u].floor = promised[u].floor
    BY DEF ReportedInForce
  <2>1. Promise(u)
    BY DEF IInv, UserInv
  <2> QED BY <2>1 DEF Promise, InGroup
<1> QED BY <1>1, IInvHolds, PTL

\* A user whose deletion was reported is in neither the table of faces nor the group, after
\* a restart neither, until a registration of the user begins.
THEOREM DeletionsLast == Spec => []GoneStaysOut
<1>1. IInv => GoneStaysOut
  <2> SUFFICES ASSUME IInv, NEW u \in gone PROVE faceinfo[u] = None /\ ItemsOf(u) = {}
    BY DEF GoneStaysOut
  <2>1. u \in Users /\ Shape
    BY DEF IInv, Shape, TypeOK
  <2>2. StaysOut(u)
    BY <2>1 DEF IInv, UserInv
  <2> QED BY <2>1, <2>2, NoItems DEF StaysOut
<1> QED BY <1>1, IInvHolds, PTL
=============================================================================
