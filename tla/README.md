# Verification of the camera program

TLA+ modules, TLC configurations and TLAPS proofs for `aipc`, the program of an IP camera
that recognises faces: it shows its video over RTSP with the faces' boxes as side data,
reports recognised persons to a cloud server with a photo, takes commands over TCP, and is
set up by showing it a QR code.

Paths are relative to the root of the repository. What is verified is the configuration the
top `CMakeLists.txt` builds for SDK 2v0 and board IPC. Its `WM_BUILD_TYPE`, factory or Official,
is seen in two places only: the factory build, "only for camtest!", leaves out the call that
loads the recogniser (`main.cpp:195`) and prints more (`facedetectservice.cpp:96`). The modules
are of the Official build, in which faces are recognised. The rest of the repository is vendored
(OpenCV, SQLite, HiSilicon headers and samples, ZBar, minIni), generated (`build/`), or not
compiled into the program (`http_cmd`, people counting, OpenCL and Qt helpers, the 3559A back
end). `wdt` is the kernel driver behind the watchdog device that the program opens.

## 1. Inventory

### Threads

`main` starts, in this order: watchdog, TCP acceptor and receiver, cloud server (MQTT
receiver, event publisher, uploader, down-event worker), photo saver, cloud set-up, infrared
filter, the face service's camera, detection and recognition threads (and an object detection
thread in some builds), the QR scanner, the RTSP server's pool of two; it then becomes the
RTSP event loop. The encoder's thread calls back into it with every unit of video.

```
 camera -> mPipe -> detection -> mPipe_frg -> recognition -> mTmp_FaceDB
                       |  ^______________________________________|
                       |
                       +-> boxes (data_mutex) -> encoder's thread -> H264RtpSink
                       |                                   -> list of RtpInstances -> viewers
                       |                                            ^ edited, unlocked
                       |                                   RTSP loop (main thread)
                       +-> update_iot: mark_list, up_fifo -> publisher -> MQTT
                                       save_file_fifo -> saver -> ftp_up_fifo -> uploader

 MQTT receiver -> down_fifo -> down-event worker -> face database
               -> security level, read by the QR scanner -> InitConfig.ini -> reboot
 TCP acceptor -> new_fd, connect_state -> TCP receiver -> callbacks (face, update)
```

### Parts

| Part | State | Operations | Hard | Correct when |
|---|---|---|---|---|
| Frame queue, `hihopesdk/base/core/src/queue/framequeue*.cpp` (constructed by the face service, called by no thread) | slots and their status, queue, free list, active set, two condition variables | dequeue, request, queue (producer); acquire, release (consumer) | several waiters woken together; frames touched outside the lock | slots partitioned, limits kept, no lost wake-up, frames in order, once, unchanged |
| Buffer queue, pipes, pool, `queue/bufferqueue.h`, `noblockpipe.h`, `pipe.h`, `pool.h` | a list and a mutex | push (drops the oldest when full), pop | size read in one critical section, push in another | nothing dropped that owns memory |
| Face pipeline, `business/facerecognition/src/` | three pipes, the camera's image, tracked-face list | four thread loops | stale sizes, late recognitions, failed camera reads | one owner per image, pipes bounded, a known face stays known |
| Cloud server, up, `cloudserver/src/cloud_server.cpp` | mark list, event list, upload list | check and mark users, queue, publish, upload | unlocked sizes and pops, clock arithmetic, full lists | one report per user and period, photos in order, disk cleaned |
| Cloud server, down, `cloudserver/src/cloud_server.cpp` | down list, its lock, the update file | MQTT handlers, down-event worker, download and decoding of updates | a callback run under the lock the MQTT thread needs; a file rewritten in place | the lock always comes free; an update announced by a reboot is whole |
| Main: events, boxes, QR, watchdog, infrared, logs, update, `src/main.cpp` | photo list, boxes, globals and ini file, flags | callbacks and thread loops | flags shared between threads, power loss between two writes | a reboot means the whole code is stored; boxes shown are the last found |
| TCP port, `tcp_cmd/tcp_cmd.cpp` | receive buffer and index, parts buffer and index, `new_fd`, `connect_state` | accept, receive, parse, deliver | TCP cuts packets anywhere; two threads share the connection | commands whole, in order, once |
| RTSP connections, `rtspserver/src/net/` | connections, list and trigger for deferred deletion, instances, the track's list, descriptors | loop: triggers, poll, read, six methods; encoder: walk the list | no lock on the list, deletion deferred, a descriptor closed twice | no freed memory used, no foreign descriptor touched, gone clients deleted |
| H.264 packetisation, `rtspserver/src/net/H264RtpSink.cpp` | sequence number, stamp, marker, extension | push264, handleFrame | sizes at the boundary of a packet; viewers joining and losing | a viewer puts together what was encoded |
| Face database, `datamanager/db_facerecognition/` | two tables, the maps and the face group that copy them | register, delete, set permission, load | two writers without a lock; a restart between any two accesses | tables and copies agree; what was reported done lasts |
| Watchdog, `main.cpp`, `wdt/hi_wdt.c` | counter and interrupt, margin, who feeds; the encoder's flag | feed, set the margin, open, release; the driver's own thread | feeding too early does nothing; sleeps that end late; a program that dies | reset within a bound when the encoder stalls, and only then |
| RS-485, `rs485_port/rs485.cpp` | command list | send, read answer | non-blocking read, retry for ever | each command answered by its own answer |

The full list with file names and what is left out of each is in `PROJECT.json` under
`components`; the places where this code is hard to test are under `hazards`, with the
properties that watch over each.

## 2. Modules

| Module | Models |
|---|---|
| `LoanFifo` | abstract: a queue of preallocated blanks that are lent, loaded, read and given back |
| `FrameQueue`, `FrameQueueProofs` | the frame queue; implements `LoanFifo` |
| `FacePipeline`, `FacePipelineProofs` | the face service's threads, pipes, images and tracked-face list |
| `CloudUplink`, `CloudUplinkProofs` | recognition events and photos on their way to the cloud |
| `VideoStream`, `VideoStreamProofs` | boxes, the encoder's callback, packetisation, and a viewer |
| `RtspServer`, `RtspServerProofs` | event loop, connections, the track's list and the thread that walks it, descriptors |
| `TcpCmd`, `TcpCmdProofs` | the TCP command port |
| `DevConfig`, `RebootProofs` | configuration by QR code |
| `FaceDatabase`, `FaceDatabaseProofs` | commands of the cloud and of the TCP port on the face database |
| `Upkeep`, `RebootProofs` | the watchdog, its driver and the way of an update |

`MCx` and its `.cfg` files instantiate `x` for TLC, `xProofs` proves theorems about it
(`RebootProofs` about two modules). Names follow the source; a definition whose
name ends in `_Word`, or a few named in a comment as mutants, is a plausible bug of the
definition after it and is used by no specification: putting it in the place of the definition
must break the property that `PROJECT.json` pairs it with.

### FrameQueue

All of the queue's state is under one mutex, so an action is one stretch of a call between
taking the mutex (or waking in `wait`) and returning (or waiting again). The face service
constructs one (`facedetectservice.cpp:10-12`), but no thread of this program calls it: the module
is about the library's class and any threads that use it as its interface asks. A thread's `pc` says
whether it is outside, waits on a condition variable, or has been woken and must look again:
`notify_all` moves every waiter to `retry`, and each of them rechecks on its own, which is where
a limit tested only once would be exceeded. `lent`, `filled` and `held` are what the clients
have. Writing the frame (`FillFrame`) is an action of its own because the code does it without
the mutex. Misuse by clients (releasing what they do not hold) is left out: no caller does it.
`Loan` is the refinement mapping to `LoanFifo`: free slots are blanks, `mQueue` with the frames
behind it is the FIFO.

### FacePipeline

Each thread is a record with a program counter and its locals; each critical section of a pipe
is one action, so that the size the camera thread looked at is stale when it pushes. `live` is
the set of images malloc'ed and not freed. `NoBuf` is the image a failed camera read leaves;
the code ignores the failure and pushes it on. A recognition ends with a label or as a stranger.

### CloudUplink

`detector` is `update_iot` in the detection thread, `publisher`, `saver`, `uploader` are the
thread loops; a turn of `mark_face`'s loop over the users is one step, the mark list being the
detection thread's own. `ftp_up_fifo` keeps the stored count of `std::list` apart from its nodes because
`process_ftpup` pops without the mutex: when a pop overlaps a push the result is a choice among
what the two may leave (`PopMeetsPush`), or links that are broken, with which the process is not
followed further (`PopBreaksList`). Times are seconds; `min` and `sec` are computed as
`localtime` would, with a minute and an hour of a few units so that they wrap within the bound.

### VideoStream

The callback takes the box counts under `data_mutex` in one action; every packet is one action,
and between any two a viewer may join, leave or lose a packet. A packet's body is an interval of
the frame's bytes, so that joining fragments is adding intervals. The viewer is external: it
follows RFC 6184 (drop a fragment that does not follow on, drop an end without a start) and
shows the boxes of the last side data.

### RtspServer

The loop thread's round is triggers, poll, serve; a round serves the ready descriptors in any
order. A request is its method, whether its URL names the session and, for SETUP, track and
transport. Track 1 is dead, for `main` gives it no sink, but SETUP accepts it: the connection gets an
instance that `addRtpInstance` puts into no list. Whether a transport is TCP is remembered by the
connection, not by the track, and also when the SETUP is refused. A peer that closes or resets is
seen as end of file; one whose host vanishes is the same as one that stays silent, since the code asks
for no keep-alive and never enforces the 60 seconds that PLAY announces: such a connection, and its
stream, stay for ever. A reply or a packet to a peer that has reset the connection may raise SIGPIPE,
which ends the process.
`handleDisconnection` only notes the descriptor and queues a trigger; the deletion is two
actions, because between the destructor of an RTP-over-TCP instance, which closes the
connection's descriptor, and the close of the connection itself another thread can be given the
number. The encoder's thread walks the list one node per action and takes no lock; `stale` says
that the node it stands on was freed. `crashed` records how the process could die. `undescribed`
counts the instances that were deleted without leaving the list.

### TcpCmd

A byte stream is a run of cells: the two that mark a head, the end of the head with the size,
and data. `Script` gives the packets a client sends, each with its place in the stream and in its
command; `StreamCell` is the stream, cell by cell, and `got` how much of it has been received. The
stream is cut into receives in every way up to `MaxRecv`, and a client may break off anywhere. The
buffer keeps its old cells behind the index; `recv` appends to it without a look at its size
(`RecvOverflows`). `cur_size` is a word that the code takes for an `int`: a size that is negative, or
so large that what is left over comes out positive, passes for a packet that is there, and
`process_data` and the `memcpy` behind it leave the buffer (`Signed`, `ParsePacket`). Such a size may
be sent, or read from the end of a head that has not arrived: what an earlier packet left there, or
memory never written. And `find_msg`'s unsigned bound, which has no end when
fewer cells than a head are there, is modelled as such. `mpkt_write_index`, which the constructor
does not set, starts with any of the values `Uninit`, and sums with it wrap at `WordMod`: a copy may
then fall before the buffer (`Copy`). The `memcpy` of what follows a packet to the front overlaps
itself, which C leaves undefined; `Shifted` takes it for a copy forwards, the outcome that leaves what a
`memmove` would. `deliver_cmd` clears byte 19 of the copy it makes for a face command: those are
assumed to be at least as long as their `Face_Upstream_First`, and `malloc` to succeed. A failed `accept` leaves -1 in `new_fd` (`AcceptFails`), on
which `recv` fails at once (`RecvFails`). `torn` is set when a packet was begun by one connection
and continued by another; the code does not separate them, and the properties are about streams
where it did not happen. `astray` has the command, if any, that was begun at an index never set.

### DevConfig

A pair of a code is checked against the level and for its value, stored in its global and put into
the file, and between any two pairs the MQTT thread may change the level or power be lost.
`param_check` never refuses, because it takes the size of a pointer: only some keys' values are tested,
and a value of 20 characters or more runs into the globals next to it (`Run`). minIni puts a line
in place when it fits, and else writes a copy, removes the file and renames the copy, looking at
none of the results; a file it cannot open it begins anew (`PutInPlace`, `PutAnew`, `PutCopy`,
`Rename`). The kernel writes the file back later (`WriteBackIni`), and a loss of power finds each line as
it was, as it is, or gone (`PowerLoss`). `system("reboot")` returns at once: `RebootByCode` only asks, if
the command can be run, and the thread scans on until `ConfigShutdown`. A start reads the file, unless
`setup_env` returned before it for want of a socket or of eth0 (`main.cpp:902-912`): then the program
runs on the defaults, `env` is `"defaults"`. The other reboots, by the watchdog, an update or a
message of the cloud, do what a loss of power or `ConfigShutdown` does.

### FaceDatabase

`worker` is `process_downevent`: it reads the size of `down_fifo` without the lock, takes the
lock, and runs as many commands as it had read, each through all its steps, before it lets go.
`writer` holds, for that thread and for the one of the TCP port, the command in hand and its next
access to a table, the map, `mUserIDs` or the face group; each access is one action, since nothing
keeps the two threads apart. Two unlocked changes of one container that meet are a data race:
one is lost (`AppendsMeet`, `InsertsMeet`) or the process dies, which, with a loss of power and the
reboots the program asks for, is `Restart`. Memory goes then, `down_fifo` with it; tables stay.
The code looks at few results: `updateFaceInfo` returns true whatever the face group's delete and
insert have said (`dbcache.cpp:208-218`), so that a user's face may be on disk and not be searched, or
the old one be (`refused`), until a registration puts it right or a start loads the group anew; and a
user the group does not have cannot be deleted by `delface` until then. `ftpdown`'s result is ignored too
(`main.cpp:712`), and a picture that an earlier download left under the name is taken for the new one;
a picture sent by TCP is read 32 records, not bytes, behind its head (`main.cpp:690`). Whose face is
registered is therefore any (`TakePhoto`).
The histories say which users the properties must leave out and why.

### Upkeep

Time passes by `Tick`, a second each. The hardware is a counter and the interrupt's bit `RIS`; a
feeding is only a feeding once that bit is set, as `hidog_feed` has it, so what counts is the time
from there to the next look at the flag. A sleep ends up to `Late` seconds after it is due; the
look at the flag, its clearing and the feeding are three actions that no tick comes between.
`app` is how far `main` is: `ota_stoped` is 1 from `start` on, and `run` says that the encoder has
called back. An update is four actions of the MQTT thread (download, read and remove, write,
reboot), in which the file may be what was sent (`coded`), what is to run (`script`), or neither
(`spoiled`). The code looks at no result on the way: a file that cannot be opened, for reading or for
writing after it was removed, a read or a write cut short, a download that failed, all are followed by
the reboot (`OpenFails`, `ReadBack`, `WriteBack`, `ftpget`; `mishap` says which it was). `system("reboot")`
returns at once; the program goes on, may even be sent the next update, until init ends it
(`Shutdown`), which syncs. A reset loses what has not been synced.

## 3. Runs

| Run | Shows |
|---|---|
| `frame_queue` | 2 producers, 2 consumers, 2 + 1 slots: bookkeeping and limits (`SlotsAccounted`), wake-ups and no standoff (`SleepersJustified`), stable frames, refinement of `LoanFifo`; every waiting producer is woken and every queued frame acquired |
| `face_pipeline` | all four threads, 4 images, 1 track: no pipe overflows although all sizes are stale, every image has one owner, a recognised face stays known, and one that stays in view is labelled |
| `cloud` | 2 users over a minute that wraps: marks distinct, reports of one user spaced within a minute, photos in order through two lists that fill up, every file on disk accounted for, events published |
| `cloud_marks` | violation: see findings |
| `rtsp_server` | 2 descriptors, UDP and TCP, both tracks, the unlocked walk and foreign files: deferred deletion is sound, and exactly which histories lead to freed memory or a foreign descriptor |
| `rtsp_live` | a connection whose client has closed it is deleted (UDP) |
| `video_stream` | packetisation at all boundary sizes with a lossy viewer; boxes current; stamps |
| `tcp_cmd` | 2 clients, 5 commands in up to 3 parts, one of them and one part without data, one that announces more than the buffer holds: delivered whole, in order; no whole packet held back; exactly which histories leave the buffers; service of a client that is alone |
| `dev_config` | codes of up to two pairs, one key whose values are tested and one whose are not: what a code was accepted with stays in the file, and in force where it is read, through level changes, puts that fail or are cut, reboots and losses of power |
| `dev_config_level` | violation: see findings |
| `face_database` | 1 user, 2 photos, 2 commands waiting, both writers, failures and restarts anywhere: tables and copies agree but for what the group refused, a registration reported done lasts, a deleted user stays out, the lock comes free |
| `upkeep` | the program's and the driver's times, scaled: a stall is answered by a reset within two timeouts and a late look (24 seconds with the code's times), a death within four (40), nothing else is; an update is run as it was sent, unless one of the named things went wrong |

### What the properties admit

Some properties name what the code does not guarantee, and hold because they do:

- `NoFrontOfEmpty`: the unlocked pop of `process_ftpup` that meets a push may break the list; no
  other thread ever uses the front of an empty list.
- `FaultsExplained`: the encoder's thread meets freed memory when the loop deletes the node it
  stands on, in that same walk (`overlapped`), or after a connection that did SETUP without DESCRIBE, whose destructor's
  `mSession` was never set (`undescribed`). The property says that nothing else does it: it does not
  say that these two do not happen, and they do. PLAY of an unknown URL ends the process
  (`crashed = "play"`), of which no property speaks.
- `OneOwner`: an RTP-over-TCP connection's descriptor is closed twice, and from then on (`doubled`)
  nothing is promised of descriptors.
- `PeerGoneDeleted` speaks of a peer that closed, not of one that vanished.
- `TypeOK` of `TcpCmd` (`CrashesExplained`): the process leaves a buffer after one of four histories:
  a packet was `torn` by another connection; a part was copied to an index that was never set
  (`astray`); the packet at the front announces so much that a receive more does not fit (`TooLong`,
  negative sizes included); or a part of the very first head is there, whose scan has no end and whose
  size is read from memory never written (`FirstHead`).
- `ConfigConsistent`: a put that failed unseen or was cut by a loss of power (`putMishap`) ends the
  promise; and a start that did not read the file, or a value that ran into other globals, leaves the
  file right and the globals not (`env`).
- `Delivered`: nothing is promised once two connections' bytes ran into one packet (`torn`). The first command in parts may reach its callback torn. Begun at an index never set,
  its first part may be put too far into the buffer, a middle part be refused, and the last, if it is
  smaller, pass `check_pkt` and have the buffer delivered.
- `CompleteNotHeld`: a packet without data at the end of the buffer waits for the next byte, since
  `find_msg`'s bound is one short of it.
- `ServedWhileAlone`: the first command in parts may be refused for the same index; a client is not
  served that the receiver's late clearing of `connect_state` hit, or that was forgotten because
  another `accept` failed.
- `UnitsIntact`, `UnitsArrive`: with a packet of 1400 bytes, units of 1401 to 1404 bytes are
  sent as an end without a start, or with side data as a unit with bytes beyond its end; a unit
  of 1405 bytes is sent as a start without an end.

- `RowsAgree`, `ReportedInForce`, `GoneStaysOut`: users on whom both writers have worked at the
  same time are left out until the next start (`mixed`); so are, for the pairing of the tables,
  users one of whose commands was cut off between the two rows (`cutOff`), and users whose
  permission was set after they had been deleted, since the map keeps them and `aiot_setperm`
  writes its entry back as a row. Users of whom the face group did not do as it was asked (`refused`)
  are left out where the properties speak of the group, until it is put right. A command that arrives before the database is loaded ends the
  process, and a restart loses the commands that wait.
- `StallBounded`: an update script that never ends is fed for ever, as is a program that dies
  before it has opened the device, by the driver. `hidog_release` leaves the program's margin, so
  the driver's thread, every thirty seconds, can put off the reset after a death once, not more.
- `BiteJustified`: the least silence that is answered by a reset is `Timeout + 1 - Nap - Late`,
  seven seconds with the code's times, but one look less for the first frame after `ota_stoped`, three seconds: the
  counter may have run out already when the feeding stops. An encoder that needs that long to
  start may, if the looks fall badly, be reset before it has started. Both are exact: with one
  second more TLC finds a counterexample.
- `UpdateKept`: only an update with which nothing went wrong counts. A download that fails leaves the
  old script, which is decoded once more and spoiled; a file that cannot be opened is rebooted for as
  it is, coded or removed; a short write leaves a part; a reset between removal and the reboot leaves
  none.
- `LockReleased`: downloads, detections and publishing are steps that end. That the MQTT thread is kept
  out for as long as an FTP download takes, `cloud_server.cpp:444`, is what the code does; a download
  that never ends would keep it out for ever.

### Bounds

Sizes are the smallest at which both sides of every comparison occur. Limits of 10, 20 or 64
become 1 to 4: the code compares with them and does nothing else, and the pipes keep the code's
relation of capacity to threshold (`FrgCap = FrgLimit + PipeCap + 1`, the least for which the
look at the size is enough; the code's 20 leaves more). Two clients, producers or descriptors are
what an interleaving of two needs; a third waiter or viewer is like the second. In `VideoStream`
the sizes are one of each class: small, one and four bytes too short for a full packet, exactly
one and three full packets, and full packets with a rest. Sequence numbers wrap at 4 and a viewer loses
at most 2 packets in a row, as 2^16 stands to what a network loses. In `CloudUplink` a minute of
three seconds wraps in `cloud`, an hour of two such minutes in `cloud_marks`; for longer runs there
are the proofs. In `TcpCmd` a
head is three cells, which is what the scan's bound can be short of or beyond, `MaxRecv` the three a
head has, and the buffer of 7 just holds the largest packet but a cell and one receive, except the
last of the second client's, whose size of 10 does not fit and is negative as an int of `WordMod` 16;
`Uninit` has 0, an index within, one beyond, and one that wraps to 0 (1,457,110 states).
In `RtspServer` the track's list holds two instances, other threads one descriptor and one instance
is deleted without leaving the list (`MaxListed`, `MaxTheirs`, `MaxLeft`); the proofs are for any
bounds. In `DevConfig` there are a key whose value is tested and one whose is not, which is all the
cases tell apart; that at level 1 some keys should pass is the question of `dev_config_level`.
In `FaceDatabase`
one user is enough for two writers to meet, since nothing couples users but the containers'
races, and the proofs are for any users. `Upkeep` has times in about
the proportions of the code's 10, 60, 30 and 3 seconds, the least that satisfy the same
`TimesAssumption`; `MaxQuiet` only ends the count of a history, above the bounds it is compared with.
`CHECK_DEADLOCK FALSE` is set where the model really stops: the clock's bound, a script that is
sent, a process that has crashed. `RtspServer`'s safety run uses the symmetry of descriptors and
of instance storage; the liveness run does not.

### Fairness

Every thread of the program is a `while` loop with no way out in normal operation, and each is a
native thread, so each gets weak fairness as a whole: `Camera`, `Detect`, `Recognise`, `XDetect`;
publisher, saver, uploader, and the detection thread once it is inside `update_iot`; acceptor
(an `accept` that fails is possible, never due) and receiver; `Loop` and `Sender`; `process_downevent`, whose downloads, detections and
publishing are single steps that are assumed to end, as is publishing in `CloudUplink`. `Upkeep` has no fairness: it states bounds in seconds
instead, and `Tick` is held back by sleepers that are overdue. Of the TCP clients it is assumed that they go on sending: a receive is a step of `Receiver`, so its
fairness has a connected client send what it has left or close (`ServedWhileAlone` is about clients
that do). Nothing is assumed of RTSP clients, the MQTT broker, the encoder, other threads' files, or of
which of several enabled steps a thread takes. `FrameQueue`'s `FairSpec`
assumes that its clients' loops go on, that is, that they hand back what they took: without it
no queue can promise anything. Mutexes are not assumed to be fair.

## 4. Proofs

Of the runs' properties, the theorems state all invariants and action properties of every passing
run, for all values of the constants that satisfy the named `ASSUME`s of the module;
TLC evaluates those on its instances. Each proof has the same shape: an inductive invariant
(usually `IInv`, checked by TLC before it was proved), a lemma per action or per part that a step
preserves it, and the properties from it. What is proved is about `Spec`, without fairness.

`FrameQueueProofs` proves, for all finite or infinite sets of disjoint producers and consumers,
all positive limits with at most 64 slots, and any number of frames:

| Theorem | Says |
|---|---|
| `TypeCorrect` | `Spec => []TypeOK` |
| `Partition` | each slot is in exactly one place, the one its status says |
| `Limits` | neither side gets more than its limit |
| `Wakeups` | nobody sleeps on a condition that holds |
| `Standoff` | a producer and a consumer never wait for each other |
| `Stable` | no frame is written while it waits or is read |
| `Accounts`, `Sleepers` | the pairs of these that the run checks: `SlotsAccounted`, `SleepersJustified` |
| `Implements` | `Spec => LoanSpec`: every step is one of `LoanFifo`'s under the mapping `Loan`, or a stutter |

The assumptions are the three named ones of `FrameQueue`: `CountsAssumption` (the constructor's
parameters are positive and fit `NUM_BUFFER_SLOTS`, which the constructor does not check),
`FrameIdsAssumption`, `ThreadsAssumption`.

None of the properties is inductive alone. That limits hold needs the count of statuses to be
the count of slots in clients' hands, which is `SlotsPartitioned`; that no wake-up is lost needs
that a waiter was below its limit, `WaitersBelowLimit`, since a thread at its limit returns
instead of waiting, and a release that only lowers the count wakes nobody who waits for it. The
inductive invariant `IInv` is the conjunction of `TypeOK`, `SlotsPartitioned`, `LimitsHold`,
`NoLostWakeup` and `WaitersBelowLimit`; there is one lemma per action that it is preserved.
`Standoff` follows from it by counting: if a producer waits, no slot is free, and if a consumer
waits none is queued, so all `MaxAcquired + MaxDequeued` slots are in clients' hands, while both
waiters being below their limit leaves room for at most two fewer. For `Implements`, a step of the
queue is shown to borrow, load, hand in, take or give back a blank: free slots, those lent and the
queue behind the mapping are told apart by `SlotsPartitioned`, and a frame that the mapping reads
through its slot is the one that was loaded because no step but `FillFrame` writes frames.

`RebootProofs` proves of `Upkeep`, for all times that satisfy `TimesAssumption` (a late look comes within half
a timeout, the driver's sleep within its margin and no sooner than two timeouts):

| Theorem | Says |
|---|---|
| `Types` | `Spec => []TypeOK`; that no sleeper is more than `Late` seconds late is in it |
| `Stalls` | `Spec => []StallBounded` |
| `Bites` | `Spec => BiteJustified` |
| `Updates` | `Spec => []UpdateKept` |

The invariant `Clocks` relates what is left until a reset to the history. `Left`, the counter plus
a whole margin unless the interrupt is up, falls by one in each second without feeding, in which
`quiet` rises by one; a feeding puts `Left` back to two timeouts at most and comes at most a nap
and its lateness after the last frame (`StallCounted`). After a death `quiet + Left` grows at
most once, for the driver's next turn comes later than two timeouts (`DeathCounted`). In the other
direction, while the interrupt is up and there was no long silence, the next look at the flag
comes before the counter's end, and silence is at least as old as the interrupt
(`LookInTime`). `UpdateInv` follows an update with which nothing has gone wrong from step to step and
says where it is (`OnItsWay`).

And of `DevConfig` it proves `Complete`, `ConfigSpec => []ConfigConsistent`, for all keys and values and for
codes of every length, from `KeysAssumption`, `ValuesAssumption` and `PairsAssumption`. The
invariant `CodeInv` speaks of the file or, between its removal and the renaming, of the copy (`Kept`):
what is left of a code is its end (`CodeBehind`), of the pairs before it the last of each key is in
force (`StoredSoFar`), and so is what earlier codes were accepted with (`Lasting`).

`FacePipelineProofs`, for any images, tracks and users, with or without the second detector, and
all thresholds that satisfy `PipeAssumption` (`FrgCap >= FrgLimit + PipeCap + 1`, the relation the
code's numbers have):

| Theorem | Says |
|---|---|
| `TypeCorrect` | `Spec => []TypeOK`: no push meets a full pipe, and a track has at most `FrgLimit + PipeCap + 2` items |
| `ImagesOwned` | `Spec => []EveryImageOwned` |
| `KnownFacesStayKnown` | `Spec => KnownStaysKnown` |

That images are owned needs the pipes' bounds, for a push onto a full pipe would drop an image, and
`Hands`, that a thread has an image only between taking and giving it. The bounds need that the
camera thread is the only one to push into `mPipe`: what it saw can only have fallen since. The
tracked-face list is bounded because a track is queued only while it has no item, so that
items and recognitions under way share one bound (`ItemsBounded`), kept with `Work`: a recogniser
has one user per track in hand. `KeptItems`, the callback's loop over the list, is a
recursive function; the lemma about it follows the loop turn by turn, by the least turn at which it
would fail.

`CloudUplinkProofs`, for any users, any limit of the lists (`LimitAssumption`) and any clock with
at least two minutes in an hour (`ClockAssumption`); a callback's list of faces is any non-empty
sequence of users (`BoxesAssumption`), and `Gone` is nobody (`GoneAssumption`):

| Theorem | Says |
|---|---|
| `Types` | `Spec => []TypeOK`, limits of the lists and distinct marks included |
| `NoEmptyFront` | `Spec => []NoFrontOfEmpty` |
| `PhotosOrdered` | `Spec => []PhotosInOrder` |
| `DiskIsAccounted` | `Spec => []DiskAccounted` |
| `ReportsAreSpaced` | `Spec => ReportsSpaced` |

`Flow` says that a size read without the lock still holds when it is used, since each list has one
consumer. `PhotoInv` joins the two lists and the threads' locals into one chain of photos that
increases, with `lastSaved` at its young end, and says where each file on disk belongs. `ReportInv` says that a user reported within
`FilterSecond` in the same minute still has the mark (`Held`), also while `mark_face` is half-way
through the users of an event (`MarksOfEvent`), and that an event in the detection thread's hands
was allowed when it was made (`EventAllowed`).

`FaceDatabaseProofs`, for any users, photos and floors, any length of `down_fifo`
(`MaxDownAssumption`), and `None` no photo, row or registration (`NoneAssumption`):

| Theorem | Says |
|---|---|
| `Types` | `Spec => []TypeOK`, with the batch within `down_fifo` |
| `RowsAlwaysAgree` | `Spec => []RowsAgree` |
| `RegistrationsLast` | `Spec => []ReportedInForce` |
| `DeletionsLast` | `Spec => []GoneStaysOut` |

The properties speak of users at rest, the invariant `UserInv` of every step of a command: how far
it has come with the rows (`Rows`) and with the copies in memory (`Copies`, of the group only what it did not
refuse), that the rows are a
pair outside it (`Paired`), that only a SETPERM is at a user with a registration in force
(`Promise`), and that no registration is at a user who is gone (`StaysOut`). `Alone` says that two
writers at one user are noted in `mixed` and `cutOff`. A restart keeps the parts about tables; the
load that follows makes the copies from them.

`RtspServerProofs`, for any finite set of descriptors, any instances, any bounds of the track's list, of
others' descriptors and of instances left behind, and either or both transports (`RtspConstants`):

| Theorem | Says |
|---|---|
| `TypeCorrect` | `Spec => []TypeOK`, with `ListedAreLive` |
| `DisconnectsAlwaysKnown` | `Spec => []DisconnectsKnown` |
| `FaultsAlwaysExplained` | `Spec => []FaultsExplained` |
| `OwnersKept` | `Spec => []OneOwner` |

`Round` follows a descriptor around the loop: ready, or served and on the list of disconnections,
never both, and off the list before the poller is asked; so a trigger stands for a descriptor of its
own, and there are no more of them than descriptors. `Holdings` follows an instance from SETUP to
the deletion of its connection: each belongs to one track of one connection. `Listed` says that the
list the encoder's thread walks holds those of the live track, unless a connection did SETUP without
DESCRIBE, and `Walk` that the thread's place is in the list unless it is `stale`. That descriptors are finitely many is needed to count the triggers.

`VideoStreamProofs`, for any packet of more than four bytes and units of any such sizes
(`PacketAssumption`), limits of boxes that fit the extension (`BoxAssumption`; 16 and 6 in 24 in
the code), and sequence numbers that wrap later than a viewer loses packets (`WrapAssumption`):

| Theorem | Says |
|---|---|
| `TypeCorrect` | `Spec => []TypeOK` |
| `UnitsAlwaysIntact` | `Spec => []UnitsIntact` |
| `UnitsAlwaysArrive` | `Spec => []UnitsArrive` |
| `BoxesAlwaysCurrent` | `Spec => []BoxesCurrent` |

A part of a unit that a viewer goes on with is the unit's beginning up to where the encoder is
(`PartFits`, `Place`), because a gap is always noticed: `expect` and `lost` add up to `mSeq`, modulo
a number greater than `lost` can become (`Tracking`). With that the five sizes the properties leave
out are shown to be the only ones, for a packet of any size.

`TcpCmdProofs`, for any clients and scripts of any length whose packets follow on from each other
(`ScriptAssumption`) and whose ids are commands' own (`IdsAssumption`), any sizes the packets
announce, any buffer with room for a head and one receive that an int can count (`SizesAssumption`),
and any width of the sums and values of `mpkt_write_index`:

| Theorem | Says |
|---|---|
| `TypeCorrect` | `Spec => []TypeOK`: the buffers are left only as `CrashesExplained` says |
| `DeliveredRight` | `Spec => []Delivered` |
| `NotHeld` | `Spec => []CompleteNotHeld` |

Nothing bounds what recv appends: `TypeCorrect` says that the buffer is left only for a packet that
announces more than 3000 less 900 bytes, or one of the other histories. The invariant says, as long as nothing is `torn`, that `G_cmd_buffer` holds some
client's stream from the start of one of its packets on (`Held`); that outside the parse loop this is
the client read last and not a whole packet, one without data apart (`Rested`); that
`multi_pkt_buf` has the parts before that packet, unless they were refused or begun astray
(`Assembled`); and that what was delivered lies before it (`DoneBefore`). One packet without data may
still lie in front when another client's bytes are appended; `Held` has that case. The stale cells
matter only where less than a head is left and the scan has no end: there `StaleHead` says that a
head stands at the front all the same, which is then found with too little behind it, so that the
loop goes back to `recv`; and `StaleSize` that the size read with it is one that a packet had, unless
nothing was ever written there. Since packets are given by their positions, a cell of the stream is
compared with the packet that covers it (`StreamCells`), and the one induction, that packets cover
the stream without gaps, is over their numbers, by the least that would fail. `Links` says that a
connection is read from its `accept` to the next one's and not again, so a stream that was left is
never continued.

Only model-checked:

- all liveness properties (`ProducerWoken`, `QueuedIsAcquired`, `SeenFaceStaysLabelled`,
  `EventsPublished`, `PeerGoneDeleted`, `ServedWhileAlone`, `LockReleased`): they depend on fairness
  and ENABLED, which the prover does not handle;
- the two runs that expect a violation.

## 5. Findings

- `cloud_marks`, `cloud_server.cpp:128`: `check_timeout` compares minute and second only, the
  tests of hour and day being commented out; a mark an hour old, or a little less, passes for fresh. The comment at
  line 119 says "remove time out mark".
- `dev_config_level`, `main.cpp:1328`: `(Key!='I')||(Key!='J')||...` is true of every key, so at
  security level 1 even the address cannot be set. The comment above it says that it can.

## 6. Not modelled

- The neural networks, the HiSilicon media pipeline and drivers (numerics and vendor calls); the
  text of RTSP, MQTT and ini files; vendored code, which is most of the repository's lines and
  why the modules stand for a small share of them.
- What the program creates and does not use: the frame queue, which is modelled nevertheless, for its
  protocol is the hardest of the library's; `ThreadPool` (two threads, no task), `Handler` (no
  message), `AsyncLogging`, `TimerManager` (no timer), `BufferQueue`, multicast, file and audio
  sources, the other pollers; stopping the face service, which nobody calls; the table
  `permissioninfo` and `DBCache::clear`.
- RS-485: one list under one lock with one consumer. What would be worth stating, that an answer
  belongs to its command, depends on how boards answer and how a line cuts it.
- The infrared filter and the log threads, which set a GPIO and upload or truncate a file; the
  vendor's updater, a program of its own (`vendor_checkota`); reconnection to the broker, which
  the MQTT library does.
- Bytes on a TCP connection shared by RTSP replies and interleaved RTP.
- In `FaceDatabase`, what recognition reads of the group while it changes; in `Upkeep`, what an
  update script does, and a device file that cannot be opened; in `DevConfig`, which globals a long
  value runs into beyond the configuration's own.
- What follows once a process has left a buffer, used freed memory or broken a list: `crashed` is the
  end of the behaviour in every module that has it.

## 7. Plan

Nothing that the runs check and the prover can reach is left unproved. What could be added:

1. `BufferQueue` as a second implementation of `LoanFifo`, should something use it.
2. RS-485, once it is known how a board's answer is told from a late one.
3. Proofs of the liveness properties, `ServedWhileAlone` first, should the prover come to handle
   ENABLED; what they need of safety is proved.
