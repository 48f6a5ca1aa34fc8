------------------------------- MODULE Upkeep -------------------------------
(***************************************************************************)
(* What keeps the camera going: the watchdog and the update script.        *)
(*                                                                         *)
(* The program's thread thread_wdt_loop feeds the watchdog as long as the  *)
(* encoder calls back.  The driver feeds the hardware only once its        *)
(* counter has run out and raised the interrupt; if it runs out again      *)
(* first, the hardware resets the board.  While nobody has the device      *)
(* open, a kernel thread feeds it.                                         *)
(*                                                                         *)
(* An update arrives as a coded file, is decoded in place and runs at the  *)
(* next start, before the encoder; until then the watchdog is fed anyway.  *)
(* No call on the way is looked at: whatever fails, the board is told to   *)
(* reboot, which it does some time later, the program going on meanwhile.  *)
(* The board may restart, or the program die, at any time.                 *)
(***************************************************************************)
EXTENDS Integers

CONSTANTS Timeout,     \* seconds: what the program sets, 10
          Margin,      \* seconds: HIDOG_TIMER_MARGIN, 60
          SelfFeed,    \* seconds: the sleep of hidog_deamon, half the margin
          Nap,         \* seconds: the sleep of thread_wdt_loop, 3
          Late,        \* bound: how much later than asked a sleep may end
          MaxQuiet     \* bound: the seconds counted without a sign of life

ASSUME TimesAssumption == /\ {Timeout, Margin, SelfFeed, Nap, MaxQuiet} \subseteq Nat \ {0}
                          /\ Late \in Nat
                          /\ 2 * (Nap + Late) < Timeout
                          /\ SelfFeed + Late < Margin
                          /\ SelfFeed >= 2 * Timeout
                          /\ MaxQuiet > 4 * Timeout

VARIABLES counter, RIS, \* the hardware: seconds left, and RIS
          cur_margin,         \* what the counter is loaded with
          hidog_state,
          hidog_deamon,       \* seconds the kernel thread still sleeps
          app,                \* how far the program is
          feeder,             \* thread_wdt_loop: counter, seconds it still sleeps
          wdt_alive_flag,
          quiet,              \* history: seconds without a sign of life
          silence,             \* history: whether quiet has been long since the last feeding
          otaFile,            \* OTA/update.sh
          unsynced,           \* whether the flash may hold an earlier state of it
          ota,                \* the MQTT thread: counter, what it decoded
          rebooting,          \* whether init has been told to reboot
          stored,             \* history: what became of the last update asked for
          mishap              \* history: what has gone wrong with it

dogVars == <<counter, RIS, cur_margin, hidog_state, hidog_deamon>>
appVars == <<app, feeder, wdt_alive_flag, quiet, silence>>
otaVars == <<otaFile, unsynced, ota, rebooting, stored, mishap>>
vars == <<dogVars, appVars, otaVars>>

\* The least silence that may cost a reset: the flag is looked at each Nap + Late seconds at
\* most; before the first frame the counter may have run for as long when silence begins.
LongSilence == Timeout + 1 - (IF app = "start" THEN 2 ELSE 1) * (Nap + Late)

NoFeeder == [pc |-> "none", nap |-> 0]
OtaIdle == [pc |-> "idle", text |-> "none"]

\* A board just started: the driver is loaded and its thread has gone to sleep.
Started == /\ counter = Margin /\ RIS = 0
           /\ cur_margin = Margin
           /\ hidog_state = "SELFCLR" /\ hidog_deamon = SelfFeed
           /\ app = "off" /\ feeder = NoFeeder
           /\ wdt_alive_flag = 0 /\ quiet = 0 /\ silence = "short"
           /\ ota = OtaIdle /\ rebooting = 0 /\ unsynced = 0

Init == Started /\ otaFile = "none" /\ stored = "no" /\ mishap = "none"
-----------------------------------------------------------------------------
(* The driver and the hardware *)

\* Clears the interrupt, which starts the counter afresh; before there is one it does nothing.
hidog_feed == /\ RIS' = 0
              /\ counter' = IF RIS = 1 THEN cur_margin ELSE counter

\* Mutant: the new time is left for the next reload.
hidog_set_heartbeat_Later(t) == cur_margin' = t /\ hidog_feed

hidog_set_heartbeat(t) == /\ cur_margin' = t
                          /\ counter' = t
                          /\ RIS' = 0

Restart == /\ counter' = Margin /\ RIS' = 0
           /\ cur_margin' = Margin
           /\ hidog_state' = "SELFCLR" /\ hidog_deamon' = SelfFeed
           /\ app' = "off" /\ feeder' = NoFeeder
           /\ wdt_alive_flag' = 0 /\ quiet' = 0 /\ silence' = "short"
           /\ ota' = OtaIdle /\ rebooting' = 0 /\ unsynced' = 0
           /\ stored' = IF stored = "asked" THEN "waits" ELSE stored

Files == {"none", "coded", "script", "spoiled"}

\* A reset or a loss of power: of what has not been synced any state may be found.
Reboot == /\ Restart
          /\ otaFile' \in IF unsynced = 1 THEN Files ELSE {otaFile}
          /\ mishap' = IF unsynced = 1 THEN "end" ELSE mishap

\* A sleeper that is due is late by Late seconds at most.
Overdue == \/ hidog_deamon <= -Late
           \/ feeder.pc = "nap" /\ feeder.nap <= -Late

\* Feeding follows the look at the flag at once.
MayTick == ~Overdue /\ feeder.pc \notin {"clear", "feed"}

Bite == /\ MayTick
        /\ counter = 1 /\ RIS = 1
        /\ Reboot

ota_stoped == app \in {"start", "run"}

\* When the watchdog, once opened, is there for something: from then on silence counts.
Guarded == (ota_stoped /\ feeder.pc # "open") \/ app = "dead"

Tick == /\ MayTick
        /\ ~(counter = 1 /\ RIS = 1)
        /\ counter' = IF counter = 1 THEN cur_margin ELSE counter - 1
        /\ RIS' = IF counter = 1 THEN 1 ELSE RIS
        /\ hidog_deamon' = hidog_deamon - 1
        /\ feeder' = IF feeder.pc = "nap" THEN [feeder EXCEPT !.nap = @ - 1] ELSE feeder
        /\ quiet' = IF Guarded /\ quiet < MaxQuiet THEN quiet + 1 ELSE quiet
        /\ silence' = IF quiet' >= LongSilence THEN "long" ELSE silence
        /\ UNCHANGED <<cur_margin, hidog_state, app, wdt_alive_flag, otaVars>>

\* hidog_deamon: one turn of its loop.
SelfFeeds == /\ hidog_deamon <= 0
             /\ hidog_deamon' = SelfFeed
             /\ IF hidog_state = "SELFCLR" THEN hidog_feed ELSE UNCHANGED <<counter, RIS>>
             /\ UNCHANGED <<cur_margin, hidog_state, appVars, otaVars>>
-----------------------------------------------------------------------------
(* The program *)

\* main up to checkota, the watchdog's thread started.
StartApp == /\ app = "off"
            /\ app' = "checkota"
            /\ feeder' = [feeder EXCEPT !.pc = "open"]
            /\ UNCHANGED <<dogVars, wdt_alive_flag, quiet, silence, otaVars>>

\* thread_wdt_loop: hidog_open, which feeds, and WDIOC_SETTIMEOUT.
OpenDog == /\ feeder.pc = "open"
           /\ hidog_state' = "EXTCLR"
           /\ hidog_set_heartbeat(Timeout)
           /\ feeder' = [pc |-> "nap", nap |-> Nap]
           /\ UNCHANGED <<hidog_deamon, app, wdt_alive_flag, quiet, silence, otaVars>>

\* Mutants: a thread that feeds whatever happens, or that forgets the updating program.
FedAnyway_Always == TRUE
FedAnyway_Never == FALSE

FedAnyway == ~ota_stoped

\* Its loop looks at the flag,
LookAtFlag ==
    /\ feeder.pc = "nap" /\ feeder.nap <= 0
    /\ feeder' = CASE wdt_alive_flag = 1 -> [feeder EXCEPT !.pc = "clear"]
                   [] wdt_alive_flag = 0 /\ FedAnyway -> [feeder EXCEPT !.pc = "feed"]
                   [] OTHER -> [feeder EXCEPT !.nap = Nap]
    /\ UNCHANGED <<dogVars, app, wdt_alive_flag, quiet, silence, otaVars>>

\* clears it, and a frame in between is not seen,
ClearFlag == /\ feeder.pc = "clear"
             /\ wdt_alive_flag' = 0
             /\ feeder' = [feeder EXCEPT !.pc = "feed"]
             /\ UNCHANGED <<dogVars, app, quiet, silence, otaVars>>

\* and feeds.
FeedDog == /\ feeder.pc = "feed"
           /\ hidog_feed
           /\ feeder' = [pc |-> "nap", nap |-> Nap]
           /\ silence' = IF RIS = 1 THEN "short" ELSE silence
           /\ UNCHANGED <<cur_margin, hidog_state, hidog_deamon, app, wdt_alive_flag, quiet, otaVars>>

\* No script, or no shell to run it in, which is not looked at: ota_stoped = 1.
CheckotaDone == /\ app = "checkota"
                /\ app' = "start" /\ quiet' = 0
                /\ mishap' = IF otaFile = "none" THEN mishap ELSE "run"
                /\ UNCHANGED <<dogVars, feeder, wdt_alive_flag, silence, otaFile, unsynced, ota,
                               rebooting, stored>>

\* system("OTA/update.sh"),
RunScript == /\ app = "checkota" /\ otaFile # "none"
             /\ app' = "script"
             /\ unsynced' = 1
             /\ stored' = IF otaFile = "script" /\ stored = "waits" THEN "ran" ELSE stored
             /\ UNCHANGED <<dogVars, feeder, wdt_alive_flag, quiet, silence, otaFile, ota, rebooting,
                            mishap>>

\* which ends: the script may have removed itself or not.
ScriptDone == /\ app = "script"
              /\ app' = "start" /\ quiet' = 0
              /\ otaFile' \in IF otaFile = "script" THEN {"script", "none"} ELSE {otaFile}
              /\ UNCHANGED <<dogVars, feeder, wdt_alive_flag, silence, unsynced, ota, rebooting,
                             stored, mishap>>

\* venc_h264_callback, once the encoder has been started.
Frame == /\ app \in {"start", "run"}
         /\ app' = "run"
         /\ wdt_alive_flag' = 1
         /\ quiet' = 0
         /\ UNCHANGED <<dogVars, feeder, silence, otaVars>>

\* What ftpget, write or the script leaves of the file when the process ends.
Torn == CASE app = "script" /\ otaFile = "script" -> {"script", "none"}
          [] ota.pc = "get" -> {otaFile, "coded", "spoiled"}
          [] ota.pc = "write" -> {otaFile, "spoiled"}
          [] OTHER -> {otaFile}
CutShort == IF ota.pc \in {"get", "decode", "write"} THEN "end" ELSE mishap

\* The process ends, by a fault or main's return, and nothing starts it again; hidog_release,
\* if the device was open, leaves the margin as set.
Die == /\ app \in {"checkota", "script", "start", "run"}
       /\ app' = "dead"
       /\ IF feeder.pc = "open"
          THEN UNCHANGED <<counter, RIS, cur_margin, hidog_state>>
          ELSE hidog_state' = "SELFCLR" /\ hidog_set_heartbeat(cur_margin)
       /\ feeder' = NoFeeder /\ wdt_alive_flag' = 0
       /\ quiet' = 0 /\ silence' = "short"
       /\ otaFile' \in Torn /\ ota' = OtaIdle /\ mishap' = CutShort
       /\ UNCHANGED <<hidog_deamon, unsynced, rebooting, stored>>
-----------------------------------------------------------------------------
(* subscribe_run_zqota, for this device and version *)

\* Before ftp_init the message only reboots.
UpdateMessage(ftp_init_flag) ==
    /\ ota_stoped /\ ota.pc = "idle"
    /\ IF ftp_init_flag
       THEN /\ ota' = [ota EXCEPT !.pc = "get"]
            /\ unsynced' = 1
            /\ stored' = "asked" /\ mishap' = "none"
       ELSE /\ ota' = [ota EXCEPT !.pc = "reboot"]
            /\ UNCHANGED <<unsynced, stored, mishap>>
    /\ UNCHANGED <<dogVars, appVars, otaFile, rebooting>>

\* ftpget brings the file, a part of it, or nothing over whatever was there.
ftpget(got) ==
    /\ ota.pc = "get"
    /\ otaFile' = got
    /\ mishap' = IF got = "coded" THEN "none" ELSE "fetch"
    /\ ota' = [ota EXCEPT !.pc = IF got = "none" THEN "reboot" ELSE "decode"]
    /\ UNCHANGED <<dogVars, appVars, unsynced, rebooting, stored>>

\* Mutant: a file that needs no decoding.
Decoded_Not(file) == file

\* Bytes shifted by the key; a script decoded again is spoiled.
Decoded(file) == IF file = "coded" THEN "script" ELSE "spoiled"

\* check_otafile reads the file, all of it or a part, and removes it, if rm can be run;
ReadBack(all) ==
    /\ ota.pc = "decode"
    /\ ota' = [pc |-> "write", text |-> IF all THEN Decoded(otaFile) ELSE "spoiled"]
    /\ mishap' = IF all THEN mishap ELSE "read"
    /\ otaFile' \in {"none", otaFile}
    /\ UNCHANGED <<dogVars, appVars, unsynced, rebooting, stored>>

\* it writes what it decoded, all of it or not;
WriteBack(all) ==
    /\ ota.pc = "write"
    /\ otaFile' = IF all THEN ota.text ELSE "spoiled"
    /\ mishap' = IF all THEN mishap ELSE "write"
    /\ ota' = [pc |-> "reboot", text |-> "none"]
    /\ UNCHANGED <<dogVars, appVars, unsynced, rebooting, stored>>

\* or it cannot open the file, to read or to write, and returns 0.
OpenFails ==
    /\ ota.pc \in {"decode", "write"}
    /\ ota' = [pc |-> "reboot", text |-> "none"]
    /\ mishap' = "open"
    /\ UNCHANGED <<dogVars, appVars, otaFile, unsynced, rebooting, stored>>

\* system("reboot") tells init, if it can be run, and returns: the thread goes on.
OtaReboot ==
    /\ ota.pc = "reboot"
    /\ ota' = OtaIdle
    /\ rebooting' \in {rebooting, 1}
    /\ UNCHANGED <<dogVars, appVars, otaFile, unsynced, stored, mishap>>

\* init ends the processes wherever they are, syncs and reboots.
Shutdown ==
    /\ rebooting = 1
    /\ Restart
    /\ otaFile' \in Torn /\ mishap' = CutShort

Ota == \/ \E flag \in BOOLEAN : UpdateMessage(flag)
       \/ \E got \in {"coded", "spoiled", otaFile} : ftpget(got)
       \/ \E all \in BOOLEAN : ReadBack(all) \/ WriteBack(all)
       \/ OpenFails \/ OtaReboot \/ Shutdown
-----------------------------------------------------------------------------
Next == \/ Tick \/ Bite \/ SelfFeeds \/ Reboot
        \/ StartApp \/ OpenDog \/ LookAtFlag \/ ClearFlag \/ FeedDog
        \/ CheckotaDone \/ RunScript \/ ScriptDone \/ Frame \/ Die
        \/ Ota

Spec == Init /\ [][Next]_vars
-----------------------------------------------------------------------------
(* Properties *)

\* Types of the driver's, the program's and the update's state.
TypeOK ==
    /\ counter \in 1 .. cur_margin /\ RIS \in {0, 1}
    /\ cur_margin \in {Margin, Timeout}
    /\ hidog_state \in {"SELFCLR", "EXTCLR"} /\ hidog_deamon \in -Late .. SelfFeed
    /\ app \in {"off", "checkota", "script", "start", "run", "dead"}
    /\ feeder \in [pc : {"none", "open", "nap", "clear", "feed"}, nap : -Late .. Nap]
    /\ wdt_alive_flag \in {0, 1} /\ quiet \in 0 .. MaxQuiet /\ silence \in {"short", "long"}
    /\ otaFile \in Files /\ unsynced \in {0, 1} /\ rebooting \in {0, 1}
    /\ ota \in [pc : {"idle", "get", "decode", "write", "reboot"}, text : Files]
    /\ stored \in {"no", "asked", "waits", "ran"}
    /\ mishap \in {"none", "fetch", "open", "read", "write", "end", "run"}

\* An encoder that stalls, or never starts, and a program that dies do not last: the board
\* is reset in time.
StallBounded ==
    /\ ota_stoped => quiet <= 2 * Timeout + Nap + Late
    /\ app = "dead" /\ cur_margin = Timeout => quiet <= 4 * Timeout

\* And nothing else makes the watchdog bite: neither an update, nor the frame the flag
\* misses, nor the feeding that does nothing before the counter has run out.
BiteJustified == [][Bite => app = "dead" \/ (ota_stoped /\ silence = "long")]_vars

\* Unless one of the named things has gone wrong since an update was asked for (a fetch, an
\* open, a read or a write that failed unseen, a sudden end, a script no shell was there for),
\* the next start finds it as it was sent and does not go past it; and a file that is no
\* script lies there only after one of them.
UpdateKept ==
    /\ stored = "waits" /\ mishap = "none" => otaFile = "script" /\ ~ota_stoped
    /\ otaFile \in {"coded", "spoiled"} /\ ota.pc = "idle" => mishap # "none"
=============================================================================
