----------------------------- MODULE DevConfig -----------------------------
(***************************************************************************)
(* Configuration by QR code: thread_qrcode_setup hands the text of a code, *)
(* "INITCAM:" and pairs of a key letter and a value, to save_DevConfig.    *)
(* Each pair is checked against the security level, which the MQTT thread  *)
(* sets at any time, stored in its global and put into InitConfig.ini by   *)
(* minIni; when all are through, the camera is told to reboot, and starts  *)
(* with what the file says, if setup_env comes to reading it.              *)
(*                                                                         *)
(* minIni looks at no write, and replaces the file by removing it and      *)
(* renaming a copy; nothing is synced before the reboot.  The globals hold *)
(* 20 bytes each and the test of the length never refuses (it takes the    *)
(* size of a pointer): a longer value runs into the globals next to it.    *)
(***************************************************************************)
EXTENDS Naturals, Sequences

CONSTANTS Keys,        \* the letters of the cases, 'A' to 'M'
          IpKeys,      \* 'I', 'J', 'K' (the camera's address) and 'L' (its route)
          Checked,     \* the cases that test the value: the ports, the route, the flip
          Values, Bad, \* values that pass the test of a checked key, and one that does not
          Long,        \* a value of 20 characters or more
          Default,     \* what setup_env takes for a key without a line
          MaxPairs     \* bound: the pairs of a code

NoLine == "no line"           \* the file has no line of the key
Damaged == "damaged"          \* the global has been run into

ASSUME KeysAssumption == IpKeys \subseteq Keys /\ Checked \subseteq Keys
ASSUME ValuesAssumption ==
    /\ Default \in Values /\ Bad # Long
    /\ {Bad, Long, NoLine, Damaged, "none"} \cap Values = {}
    /\ {Bad, Long} \cap {NoLine, Damaged, "none"} = {}
ASSUME PairsAssumption == MaxPairs \in Nat

Unknown == "unsupported"      \* any other letter
Levels == 0 .. 2              \* Ctl_Dev_Security_Level
AnyValue == Values \cup {Bad, Long}
\* The value of an unsupported key is not looked at.
Pair == [key : Keys, value : AnyValue] \cup [key : {Unknown}, value : Values]
Codes == UNION {[1 .. n -> Pair] : n \in 0 .. MaxPairs}

VARIABLES security_level,
          ram,         \* the globals mqtt_server_ip ... camflip
          env,         \* history: what they are: read from the file, not read, or run into
          ini,         \* InitConfig.ini, the value of each key's line
          temp,        \* the copy that is to be renamed to it
          flash,       \* what of the file has been written to the flash
          qr,          \* the thread: counter and the pairs left of the code
          restarting,  \* whether init has been told to reboot
          code,        \* history: the code in work
          promised,    \* history: the last value of each key in a code that was all stored
          putMishap       \* history: whether a put has been cut, or has lost lines unseen

fileVars == <<ini, temp, flash>>
configVars == <<security_level, ram, env, fileVars, qr, restarting, code, promised, putMishap>>

NoFile == [k \in Keys |-> NoLine]
QrIdle == [pc |-> "scan", left |-> <<>>]
Settled == flash = ini /\ temp = NoFile /\ qr.pc # "rename"

ConfigInit ==
    /\ security_level = 0
    /\ ini \in [Keys -> Values] /\ ram = ini /\ env = "read"
    /\ temp = NoFile /\ flash = ini
    /\ qr = QrIdle /\ restarting = 0
    /\ code = <<>> /\ promised = [k \in Keys |-> "none"] /\ putMishap = "none"

\* subscribe_device_security_level
SetLevel(l) ==
    /\ security_level' = l
    /\ UNCHANGED <<ram, env, fileVars, qr, restarting, code, promised, putMishap>>

MayConfigure == security_level # 0

\* save_DevConfig up to the loop.
Scan(pairs) ==
    /\ qr.pc = "scan"
    /\ MayConfigure
    /\ qr' = [pc |-> "pairs", left |-> pairs]
    /\ code' = pairs
    /\ UNCHANGED <<security_level, ram, env, fileVars, restarting, promised, putMishap>>

\* The test of the key at level 1: not I, or not J, or not K, which every key passes.
Refused(key) == security_level = 1 /\ (key # "I" \/ key # "J" \/ key # "K" \/ key = "L")

\* param_check refuses nothing: only the checked cases test their value.
Supported(pair) == pair.key \in Keys /\ (pair.key \in Checked => pair.value \in Values)

\* A long value runs into any of the other globals.
Run(globals, long) ==
    {[k \in Keys |-> IF k \in hit THEN Damaged ELSE globals[k]] :
        hit \in IF long THEN SUBSET Keys ELSE {{}}}

\* One pair gets to its global.
StoreGlobal(pair) ==
    /\ qr.pc = "pairs" /\ qr.left # <<>> /\ pair = Head(qr.left)
    /\ ~Refused(pair.key) /\ Supported(pair)
    /\ ram' \in Run([ram EXCEPT ![pair.key] = pair.value], pair.value = Long)
    /\ env' = IF pair.value = Long THEN "overrun" ELSE env
    /\ promised' = [promised EXCEPT ![pair.key] = "none"]
    /\ UNCHANGED <<security_level, restarting>>

\* ini.put fails, and so does save_DevConfig.
PutFails(pair) ==
    /\ StoreGlobal(pair)
    /\ qr' = QrIdle /\ code' = <<>>
    /\ UNCHANGED <<fileVars, putMishap>>

\* The line has the value, or one as long, which is written over.
PutInPlace(pair) ==
    /\ StoreGlobal(pair)
    /\ ini' = [ini EXCEPT ![pair.key] = pair.value]
    /\ qr' = [qr EXCEPT !.left = Tail(@)]
    /\ UNCHANGED <<temp, flash, code, putMishap>>

\* A file that cannot be opened is taken for none and begun anew.
PutAnew(pair) ==
    /\ StoreGlobal(pair)
    /\ ini' = [NoFile EXCEPT ![pair.key] = pair.value]
    /\ qr' = [qr EXCEPT !.left = Tail(@)]
    /\ putMishap' = IF ini = NoFile THEN putMishap ELSE "failed"
    /\ UNCHANGED <<temp, flash, code>>

\* Else a copy is written, of which lines may be lost, and the file is removed
PutCopy(pair, lost) ==
    /\ StoreGlobal(pair)
    /\ temp' = [k \in Keys |-> IF k \in lost THEN NoLine
                               ELSE IF k = pair.key THEN pair.value ELSE ini[k]]
    /\ ini' = NoFile
    /\ putMishap' = IF lost = {} THEN putMishap ELSE "failed"
    /\ qr' = [pc |-> "rename", left |-> Tail(qr.left)]
    /\ UNCHANGED <<flash, code>>

\* and replaced by the copy, if rename succeeds.
Rename(ok) ==
    /\ qr.pc = "rename"
    /\ ini' = IF ok THEN temp ELSE NoFile
    /\ temp' = NoFile
    /\ putMishap' = IF ok THEN putMishap ELSE "failed"
    /\ qr' = [qr EXCEPT !.pc = "pairs"]
    /\ UNCHANGED <<security_level, ram, env, flash, restarting, code, promised>>

\* The kernel writes the file back some time after it was changed.
WriteBackIni ==
    /\ flash # ini
    /\ flash' = ini
    /\ UNCHANGED <<security_level, ram, env, ini, temp, qr, restarting, code, promised, putMishap>>

\* return -1: the pairs before it stay stored.
StopAtPair ==
    /\ qr.pc = "pairs" /\ qr.left # <<>>
    /\ Refused(Head(qr.left).key) \/ ~Supported(Head(qr.left))
    /\ qr' = QrIdle /\ code' = <<>>
    /\ UNCHANGED <<security_level, ram, env, fileVars, restarting, promised, putMishap>>

\* Mutant: a reboot with pairs left.
AllStored_Early == Len(qr.left) <= 1

AllStored == qr.left = <<>>

IsLast(i, n) == \A j \in i + 1 .. n : code[j].key # code[i].key

\* What the code says of each key, or what was promised before.
Promise(new) ==
    \A k \in Keys :
      \/ \E i \in DOMAIN code : /\ code[i].key = k /\ IsLast(i, Len(code))
                                /\ new[k] = code[i].value
      \/ new[k] = promised[k] /\ \A i \in DOMAIN code : code[i].key # k

\* system("reboot") tells init, if it can be run, and returns: scan_image goes on with the next
\* symbol, the thread with the next picture.
RebootByCode ==
    /\ qr.pc = "pairs" /\ AllStored
    /\ restarting' \in {restarting, 1}
    /\ promised' \in {new \in [Keys -> AnyValue \cup {"none"}] : Promise(new)}
    /\ qr' = QrIdle /\ code' = <<>>
    /\ UNCHANGED <<security_level, ram, env, fileVars, putMishap>>

Loaded(file) == [k \in Keys |-> IF file[k] = NoLine THEN Default ELSE file[k]]
HasLong(file) == \E k \in Keys : file[k] = Long

\* The program starts on this file; setup_env reads it or, without a socket or eth0, does not.
StartOn(file) ==
    /\ ini' = file /\ temp' = NoFile /\ flash' = file
    /\ \/ /\ ram' = [k \in Keys |-> Default]
          /\ env' = "defaults"
       \/ /\ ram' \in Run(Loaded(file), HasLong(file))
          /\ env' = IF HasLong(file) THEN "overrun" ELSE "read"
    /\ security_level' = 0
    /\ qr' = QrIdle /\ restarting' = 0 /\ code' = <<>>
    /\ UNCHANGED promised

\* init ends the process wherever it is, syncs and reboots;
ConfigShutdown ==
    /\ restarting = 1
    /\ StartOn(ini)
    /\ putMishap' = IF qr.pc = "rename" THEN "cut" ELSE putMishap

\* or power is lost, or the watchdog resets the board: each line as it was or as it is, or gone.
PowerLoss ==
    \E file \in IF Settled THEN {ini} ELSE [Keys -> AnyValue \cup {NoLine}] :
      /\ \A k \in Keys : file[k] \in {flash[k], ini[k], temp[k], NoLine} \/ Settled
      /\ StartOn(file)
      /\ putMishap' = IF Settled THEN putMishap ELSE "cut"

ConfigNext ==
    \/ \E l \in Levels : SetLevel(l)
    \/ \E pairs \in Codes : Scan(pairs)
    \/ \E pair \in Pair : \/ PutFails(pair) \/ PutInPlace(pair) \/ PutAnew(pair)
                          \/ \E lost \in SUBSET Keys : PutCopy(pair, lost)
    \/ \E ok \in BOOLEAN : Rename(ok)
    \/ WriteBackIni \/ StopAtPair \/ RebootByCode \/ ConfigShutdown \/ PowerLoss

ConfigSpec == ConfigInit /\ [][ConfigNext]_configVars
-----------------------------------------------------------------------------
(* Properties *)

\* Types; a checked key never gets a value that fails its test.
ConfigTypeOK ==
    /\ security_level \in Levels
    /\ ram \in [Keys -> AnyValue \cup {Damaged}] /\ env \in {"read", "defaults", "overrun"}
    /\ ini \in [Keys -> AnyValue \cup {NoLine}] /\ temp \in [Keys -> AnyValue \cup {NoLine}]
    /\ flash \in [Keys -> AnyValue \cup {NoLine}]
    /\ \A k \in Checked : ram[k] \notin {Bad, Long} /\ ini[k] \notin {Bad, Long}
    /\ qr \in [pc : {"scan", "pairs", "rename"}, left : Codes]
    /\ restarting \in {0, 1}
    /\ code \in Codes
    /\ promised \in [Keys -> AnyValue \cup {"none"}] /\ putMishap \in {"none", "cut", "failed"}

\* system("reboot") by a QR code is the sign that the whole code is kept: its values, the
\* last of each key, are in the file and, if setup_env read it and none was too long, in the
\* globals, from then on: over the pairs that were put one by one while the level changed,
\* the codes that were scanned before the reboot came, the reboot, and every loss of power
\* but one that cut a put.
CodeKept ==
    putMishap = "none" /\ qr.pc # "rename" =>
      /\ \A k \in Keys : ini[k] # NoLine
      /\ \A k \in Keys : promised[k] # "none" =>
           ini[k] = promised[k] /\ (env = "read" => ram[k] = promised[k])

\* Types hold, and what a code was accepted with lasts.
ConfigConsistent == ConfigTypeOK /\ CodeKept

\* "If Security_level is 1, only IP address and Camera Route could be set"
\* (main.cpp:1327): at level 1 those keys are not what stops a code.
IpSettableAtLevelOne ==
    [][StopAtPair /\ security_level = 1 => Head(qr.left).key \notin IpKeys]_configVars
=============================================================================
