---------------------------- MODULE FacePipeline ----------------------------
(***************************************************************************)
(* The threads of FaceDetectService and the tracked-face list of           *)
(* FaceRecognitionApi: the camera thread reads frames into mPipe, the      *)
(* detection thread takes them out, finds the tracked faces, labels those  *)
(* already recognised from mTmp_FaceDB and queues the rest in mPipe_frg,   *)
(* the recognition thread identifies them and adds them to mTmp_FaceDB.    *)
(* An object detector, in builds that have it, takes frames from mPipe_obj.*)
(*                                                                         *)
(* The pipes are NoblockPipes: push on a full pipe drops the oldest entry  *)
(* and forgets the memory behind it, so the camera thread throttles itself *)
(* by looking at the sizes, each look in a critical section of its own.    *)
(***************************************************************************)
EXTENDS Naturals, Sequences, FiniteSets

CONSTANTS Buffers,      \* bound: the malloc'ed images that can exist at one time
          NoBuf,        \* mData == nullptr, after a read that failed
          Tracks,       \* mTrackID values
          Users,        \* mUserID values of the face group
          Stranger,     \* mUserID -2, a face of nobody in the group
          Nobody,       \* no label
          PipeCap,      \* SIZE of mPipe, one more than the camera's threshold (3)
          FrgLimit,     \* the camera's threshold on mPipe_frg (10)
          FrgCap,       \* SIZE of mPipe_frg (20)
          HasXDetect    \* whether the object detection thread is built in

ASSUME PipeAssumption == /\ PipeCap \in Nat \ {0}
                         /\ FrgLimit \in Nat
                         /\ FrgCap \in Nat
                         /\ FrgCap >= FrgLimit + PipeCap + 1
ASSUME BufferAssumption == NoBuf \notin Buffers
ASSUME LabelAssumption == Nobody \notin Users \cup {Stranger}
ASSUME XDetectAssumption == HasXDetect \in BOOLEAN

Images == Buffers \cup {NoBuf}
Labels == Users \cup {Stranger}

VARIABLES live,         \* the images malloc'ed and not freed
          mPipe, mPipe_obj,
          mPipe_frg,    \* the queued detections, each the tracks still to recognise
          mTmp_FaceDB,  \* UserInfo items: a track and who it is
          cam, det, rec, xdet,  \* the threads: program counter and locals
          shown         \* the labels the last preview callback was given

threadVars == <<cam, det, rec, xdet>>
vars == <<live, mPipe, mPipe_obj, mPipe_frg, mTmp_FaceDB, cam, det, rec, xdet, shown>>

\* NoblockPipe::push
PipePush(q, e, size) == IF Len(q) >= size THEN Append(Tail(q), e) ELSE Append(q, e)

Entries(q) == {q[i] : i \in DOMAIN q}

Init == /\ live = {}
        /\ mPipe = <<>> /\ mPipe_obj = <<>> /\ mPipe_frg = <<>>
        /\ mTmp_FaceDB = <<>>
        /\ cam = [pc |-> "size", buf |-> NoBuf]
        /\ det = [pc |-> "pop", buf |-> NoBuf, faces |-> {}]
        /\ rec = [pc |-> "pop", todo |-> {}, users |-> {}]
        /\ xdet = [pc |-> "pop", buf |-> NoBuf]
        /\ shown = [t \in Tracks |-> Nobody]
-----------------------------------------------------------------------------
(* cameraReadLoop *)

\* MppPipe::getFrame: a malloc'ed image (which one does not matter), or mData left null.
Fresh == CHOOSE b \in Buffers : b \notin live
Read(b) == b = NoBuf \/ (live # Buffers /\ b = Fresh)

Allocated(b) == live \cup ({b} \ {NoBuf})
Freed(b) == live \ {b}

\* Mutants: a camera thread without the throttle on mPipe, or on mPipe_frg.
MayRead_Always == TRUE
MayPush_Always == TRUE

MayRead == Len(mPipe) <= PipeCap - 1
MayPush == Len(mPipe_frg) <= FrgLimit

\* mPipe.size() <= 2, then mCamera->read; only this thread makes mPipe longer.
CamRead(b) ==
    /\ cam.pc = "size"
    /\ MayRead
    /\ Read(b)
    /\ live' = Allocated(b)
    /\ cam' = [pc |-> "frg", buf |-> b]
    /\ UNCHANGED <<mPipe, mPipe_obj, mPipe_frg, mTmp_FaceDB, det, rec, xdet, shown>>

CamKeep ==
    /\ cam.pc = "frg"
    /\ MayPush
    /\ cam' = [cam EXCEPT !.pc = "push"]
    /\ UNCHANGED <<live, mPipe, mPipe_obj, mPipe_frg, mTmp_FaceDB, det, rec, xdet, shown>>

CamRelease ==
    /\ cam.pc = "frg"
    /\ ~MayPush
    /\ live' = Freed(cam.buf)
    /\ cam' = [pc |-> "obj", buf |-> NoBuf]
    /\ UNCHANGED <<mPipe, mPipe_obj, mPipe_frg, mTmp_FaceDB, det, rec, xdet, shown>>

CamPush ==
    /\ cam.pc = "push"
    /\ mPipe' = PipePush(mPipe, cam.buf, PipeCap)
    /\ cam' = [pc |-> "obj", buf |-> NoBuf]
    /\ UNCHANGED <<live, mPipe_obj, mPipe_frg, mTmp_FaceDB, det, rec, xdet, shown>>

CamSkipObj ==
    /\ cam.pc = "obj"
    /\ mPipe_obj # <<>>
    /\ cam' = [cam EXCEPT !.pc = "size"]
    /\ UNCHANGED <<live, mPipe, mPipe_obj, mPipe_frg, mTmp_FaceDB, det, rec, xdet, shown>>

CamReadObj(b) ==
    /\ cam.pc = "obj"
    /\ mPipe_obj = <<>>
    /\ Read(b)
    /\ live' = Allocated(b)
    /\ mPipe_obj' = PipePush(mPipe_obj, b, 1)
    /\ cam' = [cam EXCEPT !.pc = "size"]
    /\ UNCHANGED <<mPipe, mPipe_frg, mTmp_FaceDB, det, rec, xdet, shown>>

Camera == \/ \E b \in Images : CamRead(b) \/ CamReadObj(b)
          \/ CamKeep \/ CamRelease \/ CamPush \/ CamSkipObj
-----------------------------------------------------------------------------
(* faceDetectLoop *)

DetPop ==
    /\ det.pc = "pop"
    /\ mPipe # <<>>
    /\ det' = [pc |-> "detect", buf |-> Head(mPipe), faces |-> {}]
    /\ mPipe' = Tail(mPipe)
    /\ UNCHANGED <<live, mPipe_obj, mPipe_frg, mTmp_FaceDB, cam, rec, xdet, shown>>

\* FaceDetect::detect: an image that could not be read has no faces.
DetDetect(faces) ==
    /\ det.pc = "detect"
    /\ det.buf = NoBuf => faces = {}
    /\ det' = [det EXCEPT !.pc = "callback", !.faces = faces]
    /\ UNCHANGED <<live, mPipe, mPipe_obj, mPipe_frg, mTmp_FaceDB, cam, rec, xdet, shown>>

\* The item a detected box ends up labelled with: every item of its track writes its
\* label, the last one stays.
LabelIn(db, t) ==
    LET hits == {i \in DOMAIN db : db[i].track = t}
    IN  IF hits = {} THEN Nobody
        ELSE db[CHOOSE i \in hits : \A j \in hits : j <= i].user

\* Mutant: the loop over mTmp_FaceDB that forgets to push a kept item back.
KeptItems_None(faces) == <<>>

\* One turn over mTmp_FaceDB: pop each item, push it back if a box has its track.
KeptItems(faces) ==
    LET kept[n \in 0 .. Len(mTmp_FaceDB)] ==
          IF n = 0 THEN <<>>
          ELSE IF mTmp_FaceDB[n].track \in faces THEN Append(kept[n - 1], mTmp_FaceDB[n])
          ELSE kept[n - 1]
    IN  kept[Len(mTmp_FaceDB)]

\* The boxes trigger_frg passes on without tracking_flag, the ones to recognise.
Unlabelled(faces) == {t \in faces : LabelIn(mTmp_FaceDB, t) = Nobody}

\* handleFaceDetectServiceResult_detect, under FaceRecognitionApi::mMutex: label the
\* boxes, forget the tracks that are gone, queue the recognition, call back.
DetCallback ==
    /\ det.pc = "callback"
    /\ mTmp_FaceDB' = KeptItems(det.faces)
    /\ mPipe_frg' = PipePush(mPipe_frg, Unlabelled(det.faces), FrgCap)
    /\ shown' = [t \in Tracks |-> IF t \in det.faces THEN LabelIn(mTmp_FaceDB, t) ELSE Nobody]
    /\ det' = [det EXCEPT !.pc = "release"]
    /\ UNCHANGED <<live, mPipe, mPipe_obj, cam, rec, xdet>>

DetRelease ==
    /\ det.pc = "release"
    /\ live' = Freed(det.buf)
    /\ det' = [pc |-> "pop", buf |-> NoBuf, faces |-> {}]
    /\ UNCHANGED <<mPipe, mPipe_obj, mPipe_frg, mTmp_FaceDB, cam, rec, xdet, shown>>

Detect == \/ DetPop \/ DetCallback \/ DetRelease
          \/ \E faces \in SUBSET Tracks : DetDetect(faces)
-----------------------------------------------------------------------------
(* faceRecognitionLoop *)

RecPop ==
    /\ rec.pc = "pop"
    /\ mPipe_frg # <<>>
    /\ rec' = [pc |-> "recognise", todo |-> Head(mPipe_frg), users |-> {}]
    /\ mPipe_frg' = Tail(mPipe_frg)
    /\ UNCHANGED <<live, mPipe, mPipe_obj, mTmp_FaceDB, cam, det, xdet, shown>>

\* facenetDetect and handleFaceRecognitionResult: a face scored too low is skipped, the
\* others are a user, a stranger, or (mUserID -1) a user the cache no longer has.
RecRecognise(who) ==
    /\ rec.pc = "recognise"
    /\ rec' = [pc |-> "add", todo |-> {},
               users |-> {[track |-> t, user |-> who[t]] : t \in {u \in rec.todo : who[u] # Nobody}}]
    /\ UNCHANGED <<live, mPipe, mPipe_obj, mPipe_frg, mTmp_FaceDB, cam, det, xdet, shown>>

\* handleFaceDetectServiceResult_Reconition takes mMutex for each user by itself.
RecAdd(info) ==
    /\ rec.pc = "add"
    /\ info \in rec.users
    /\ mTmp_FaceDB' = Append(mTmp_FaceDB, info)
    /\ rec' = [rec EXCEPT !.users = @ \ {info}]
    /\ UNCHANGED <<live, mPipe, mPipe_obj, mPipe_frg, cam, det, xdet, shown>>

RecDone ==
    /\ rec.pc = "add"
    /\ rec.users = {}
    /\ rec' = [rec EXCEPT !.pc = "pop"]
    /\ UNCHANGED <<live, mPipe, mPipe_obj, mPipe_frg, mTmp_FaceDB, cam, det, xdet, shown>>

Recognise == \/ RecPop \/ RecDone
             \/ \E who \in [rec.todo -> Labels \cup {Nobody}] : RecRecognise(who)
             \/ \E info \in rec.users : RecAdd(info)
-----------------------------------------------------------------------------
(* XDetectLoop *)

XPop ==
    /\ HasXDetect
    /\ xdet.pc = "pop"
    /\ mPipe_obj # <<>>
    /\ xdet' = [pc |-> "detect", buf |-> Head(mPipe_obj)]
    /\ mPipe_obj' = Tail(mPipe_obj)
    /\ UNCHANGED <<live, mPipe, mPipe_frg, mTmp_FaceDB, cam, det, rec, shown>>

XRelease ==
    /\ xdet.pc = "detect"
    /\ live' = Freed(xdet.buf)
    /\ xdet' = [pc |-> "pop", buf |-> NoBuf]
    /\ UNCHANGED <<mPipe, mPipe_obj, mPipe_frg, mTmp_FaceDB, cam, det, rec, shown>>

XDetect == XPop \/ XRelease
-----------------------------------------------------------------------------
Next == Camera \/ Detect \/ Recognise \/ XDetect

Spec == Init /\ [][Next]_vars

\* Every thread is a Task that loops for ever; none waits but in pop.
FairSpec == /\ Spec
            /\ WF_vars(Camera) /\ WF_vars(Detect) /\ WF_vars(Recognise) /\ WF_vars(XDetect)
-----------------------------------------------------------------------------
(* Properties *)

Item == [track : Tracks, user : Labels]

\* The detections on their way to the recogniser: queued, or ahead of the queue.
Ahead == Len(mPipe) + (IF det.pc \in {"detect", "callback"} THEN 1 ELSE 0)
                    + (IF cam.pc = "push" THEN 1 ELSE 0)

\* The camera's two looks at pipe sizes are enough: no push ever meets a full pipe, so
\* no image and no set of face objects (freed only by the recogniser) is dropped and
\* leaked, although each size is stale as soon as it is read.
PipesNeverOverflow ==
    /\ Len(mPipe) + (IF cam.pc = "frg" \/ cam.pc = "push" THEN 1 ELSE 0) <= PipeCap
    /\ Len(mPipe_obj) <= 1
    /\ Len(mPipe_frg) + Ahead <= FrgLimit + PipeCap + 1

ItemsOf(t) == {i \in DOMAIN mTmp_FaceDB : mTmp_FaceDB[i].track = t}
JobsOf(t) == {i \in DOMAIN mPipe_frg : t \in mPipe_frg[i]}

\* mTmp_FaceDB stays small: a track is queued for recognition only while it has no
\* item, so its items never outnumber the recognitions that were under way at once.
ItemsBounded ==
    \A t \in Tracks :
      Cardinality(ItemsOf(t)) + Cardinality(JobsOf(t))
        + (IF t \in rec.todo \/ \E u \in rec.users : u.track = t THEN 1 ELSE 0)
        <= FrgLimit + PipeCap + 2

\* Types of the threads' locals, the pipes and the tracked-face list, and the bounds of
\* the pipes and the list.
TypeOK ==
    /\ live \in SUBSET Buffers
    /\ mPipe \in Seq(Images) /\ mPipe_obj \in Seq(Images)
    /\ mPipe_frg \in Seq(SUBSET Tracks)
    /\ mTmp_FaceDB \in Seq(Item)
    /\ cam \in [pc : {"size", "frg", "push", "obj"}, buf : Images]
    /\ det \in [pc : {"pop", "detect", "callback", "release"}, buf : Images, faces : SUBSET Tracks]
    /\ rec \in [pc : {"pop", "recognise", "add"}, todo : SUBSET Tracks, users : SUBSET Item]
    /\ xdet \in [pc : {"pop", "detect"}, buf : Images]
    /\ shown \in [Tracks -> Labels \cup {Nobody}]
    /\ PipesNeverOverflow /\ ItemsBounded

\* Every malloc'ed image is in one place: the camera thread's hands, one pipe, or a
\* detector's hands.  None is leaked by a drop, none freed while another thread has it.
Places == <<{cam.buf}, Entries(mPipe), {det.buf}, Entries(mPipe_obj), {xdet.buf}>>
EveryImageOwned ==
    /\ live = (UNION {Places[i] : i \in 1 .. 5}) \ {NoBuf}
    /\ \A i, j \in 1 .. 5 : i # j => Places[i] \cap Places[j] \subseteq {NoBuf}
    /\ \A q \in {mPipe, mPipe_obj} : \A i, j \in DOMAIN q :
         q[i] = q[j] /\ q[i] # NoBuf => i = j

\* A face in view that is known stays known: no callback, and no recognition that comes
\* late, takes the items of a track away while the tracker still sees it.
KnownStaysKnown ==
    [][\A t \in Tracks : LabelIn(mTmp_FaceDB, t) # Nobody /\ LabelIn(mTmp_FaceDB, t)' = Nobody
         => det.pc = "callback" /\ t \notin det.faces]_vars

\* A track that from some time on is in every detection and has been recognised once is
\* shown with a label from then on: the label survives all later callbacks.
SeenFaceStaysLabelled ==
    \A t \in Tracks :
      (<>[](det.pc = "callback" => t \in det.faces) /\ []<>(ItemsOf(t) # {}))
        => <>[](shown[t] # Nobody)
=============================================================================
