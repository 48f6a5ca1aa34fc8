---------------------------- MODULE RebootProofs ----------------------------
(***************************************************************************)
(* What a reboot of the camera means, and what it leaves, as Upkeep and    *)
(* DevConfig have it: the watchdog's reset comes in time and only where it *)
(* is justified, an update survives to the next start, and a reboot by QR  *)
(* code is the sign that the whole code is in force.                       *)
(***************************************************************************)
EXTENDS Upkeep, DevConfig, SequenceTheorems, TLAPS

-----------------------------------------------------------------------------
(* The watchdog and the update, for all times that agree with              *)
(* TimesAssumption.  The bounds follow from what is left until a reset:    *)
(* while nobody feeds, Left falls as quiet rises, and a feeding raises     *)
(* Left to two timeouts at most.                                           *)

Napping == feeder.pc = "nap"
Feeding == feeder.pc \in {"nap", "clear", "feed"}

\* Seconds until the hardware resets the board, if nothing is fed.
Left == counter + (IF RIS = 1 THEN 0 ELSE cur_margin)

\* The margin and the driver's state are those of who has the device open.
DriverMatches ==
    /\ feeder.pc = "none" <=> app \in {"off", "dead"}
    /\ Feeding => cur_margin = Timeout
    /\ Feeding <=> hidog_state = "EXTCLR"
    /\ feeder.pc \in {"none", "open"} /\ app # "dead" => cur_margin = Margin

\* At the driver's own margin its thread comes before the counter runs out again.
SelfFed == cur_margin = Margin /\ RIS = 1 => hidog_deamon + Late < counter

StallCounted ==
    /\ app # "run" => wdt_alive_flag = 0
    /\ ota_stoped =>
      /\ feeder.pc = "open" => quiet = 0
      /\ app = "start" /\ feeder.pc \in {"clear", "feed"} => quiet = 0
      /\ Napping => IF wdt_alive_flag = 1 THEN quiet + feeder.nap <= Nap
                    ELSE quiet + Left <= 2 * Timeout + Nap + Late
      /\ feeder.pc \in {"clear", "feed"} => quiet <= Nap + Late
      /\ feeder.pc = "feed" /\ wdt_alive_flag = 1 => quiet = 0

\* The driver's thread can help a dead program's board once.
DeathCounted ==
    app = "dead" /\ cur_margin = Timeout =>
      \/ quiet + Left <= 2 * Timeout
      \/ quiet + Left <= 4 * Timeout /\ hidog_deamon >= Left

\* As long as there has been no long silence, the next look comes before the reset.
LookInTime ==
    /\ app \in {"checkota", "script"} /\ Napping /\ RIS = 1 => Timeout - counter < Nap - feeder.nap
    /\ ota_stoped /\ silence = "short" => quiet < LongSilence
    /\ ota_stoped /\ Napping /\ RIS = 1 /\ silence = "short" =>
         /\ feeder.nap + Late < counter
         /\ wdt_alive_flag = 0 => Timeout - counter < quiet + (IF app = "start" THEN Nap + Late ELSE 0)

Clocks == DriverMatches /\ SelfFed /\ StallCounted /\ DeathCounted /\ LookInTime

\* Where an update is that was asked for and with which nothing has gone wrong.
OnItsWay ==
    stored = "asked" /\ mishap = "none" =>
      /\ ota.pc = "decode" => otaFile = "coded"
      /\ ota.pc = "write" => ota.text = "script"
      /\ ota.pc \in {"idle", "reboot"} => otaFile = "script"

UpdateInv ==
    /\ ota.pc # "idle" => ota_stoped
    /\ ota.pc \in {"get", "decode", "write"} => stored = "asked"
    /\ stored = "asked" => (ota_stoped \/ app = "dead") /\ unsynced = 1
    /\ stored = "waits" /\ mishap = "none" => app # "script"
    /\ otaFile \in {"coded", "spoiled"} /\ ota.pc \in {"idle", "reboot"} => mishap # "none"
    /\ OnItsWay
    /\ UpdateKept

LEMMA Times ==
    /\ Timeout \in Nat \ {0} /\ Margin \in Nat \ {0} /\ SelfFeed \in Nat \ {0}
    /\ Nap \in Nat \ {0} /\ MaxQuiet \in Nat \ {0} /\ Late \in Nat
    /\ 2 * Nap + 2 * Late < Timeout /\ SelfFeed + Late < Margin
    /\ SelfFeed >= 2 * Timeout /\ MaxQuiet > 4 * Timeout
    /\ Margin # Timeout
BY TimesAssumption
-----------------------------------------------------------------------------
LEMMA InitTypes == Init => TypeOK
BY Times DEF Init, Started, TypeOK, NoFeeder, OtaIdle, Files

\* The step in which a board starts again.
LEMMA RestartTypes ==
    ASSUME TypeOK, Restart, otaFile' \in Files,
           mishap' \in {"none", "fetch", "open", "read", "write", "end", "run"}
    PROVE  TypeOK'
BY Times DEF TypeOK, Restart, NoFeeder, OtaIdle, Files

LEMMA FeedTypes ==
    ASSUME TypeOK, hidog_feed
    PROVE  counter' \in 1 .. cur_margin /\ RIS' \in {0, 1}
BY Times DEF TypeOK, hidog_feed

LEMMA StepTypes == TypeOK /\ [Next]_vars => TypeOK'
<1> SUFFICES ASSUME TypeOK, [Next]_vars
             PROVE  TypeOK'
  OBVIOUS
<1> USE Times
<1>1. CASE Tick
  BY <1>1 DEF Tick, TypeOK, MayTick, Overdue, otaVars
<1>2. ASSUME Reboot PROVE TypeOK'
  BY <1>2, RestartTypes DEF Reboot, TypeOK, Files
<1>3. CASE Bite
  BY <1>3, <1>2 DEF Bite
<1>4. CASE SelfFeeds
  BY <1>4, FeedTypes DEF SelfFeeds, TypeOK, appVars, otaVars
<1>5. CASE StartApp
  BY <1>5 DEF StartApp, TypeOK, dogVars, otaVars
<1>6. CASE OpenDog
  BY <1>6 DEF OpenDog, hidog_set_heartbeat, TypeOK, otaVars
<1>7. CASE LookAtFlag
  BY <1>7 DEF LookAtFlag, FedAnyway, TypeOK, dogVars, otaVars
<1>8. CASE ClearFlag
  BY <1>8 DEF ClearFlag, TypeOK, dogVars, otaVars
<1>9. CASE FeedDog
  BY <1>9, FeedTypes DEF FeedDog, TypeOK, otaVars
<1>10. CASE CheckotaDone
  BY <1>10 DEF CheckotaDone, TypeOK, dogVars, otaVars
<1>11. CASE RunScript \/ ScriptDone
  BY <1>11 DEF RunScript, ScriptDone, TypeOK, Files, dogVars
<1>12. CASE Frame
  BY <1>12 DEF Frame, TypeOK, dogVars, otaVars
<1>13. CASE Die
  <2>1. otaFile' \in Files /\ ota' = OtaIdle /\ mishap' \in {mishap, "end"}
    BY <1>13 DEF Die, Torn, CutShort, TypeOK, Files
  <2> QED BY <1>13, <2>1 DEF Die, hidog_set_heartbeat, TypeOK, NoFeeder, OtaIdle, Files
<1>14. CASE Ota
  <2>1. ASSUME NEW flag \in BOOLEAN, UpdateMessage(flag) PROVE TypeOK'
    BY <2>1 DEF UpdateMessage, TypeOK, dogVars, appVars
  <2>2. ASSUME NEW got \in {"coded", "spoiled", otaFile}, ftpget(got) PROVE TypeOK'
    BY <2>2 DEF ftpget, TypeOK, Files, dogVars, appVars
  <2>3. ASSUME NEW all \in BOOLEAN, ReadBack(all) \/ WriteBack(all) PROVE TypeOK'
    BY <2>3 DEF ReadBack, Decoded, WriteBack, TypeOK, Files, dogVars, appVars
  <2>4. CASE OpenFails \/ OtaReboot
    BY <2>4 DEF OpenFails, OtaReboot, OtaIdle, TypeOK, Files, dogVars, appVars
  <2>5. CASE Shutdown
    <3>1. otaFile' \in Files /\ mishap' \in {mishap, "end"}
      BY <2>5 DEF Shutdown, Torn, CutShort, TypeOK, Files
    <3> QED BY <2>5, <3>1, RestartTypes DEF Shutdown, TypeOK
  <2> QED BY <1>14, <2>1, <2>2, <2>3, <2>4, <2>5 DEF Ota
<1>15. CASE UNCHANGED vars
  BY <1>15 DEF vars, dogVars, appVars, otaVars, TypeOK
<1> QED
  BY <1>1, <1>2, <1>3, <1>4, <1>5, <1>6, <1>7, <1>8, <1>9, <1>10, <1>11, <1>12, <1>13,
     <1>14, <1>15 DEF Next

\* The driver, the program and the update stay within their types.
THEOREM Types == Spec => []TypeOK
<1> QED BY InitTypes, StepTypes, PTL DEF Spec
-----------------------------------------------------------------------------
LEMMA InitClocks == Init => Clocks
BY Times DEF Init, Started, NoFeeder, Clocks, DriverMatches, SelfFed, StallCounted, DeathCounted,
   LookInTime, Feeding, Napping, ota_stoped

\* A board just started has nobody to count for.
LEMMA RestartClocks == Restart => Clocks'
BY Times DEF Restart, NoFeeder, Clocks, DriverMatches, SelfFed, StallCounted, DeathCounted,
   LookInTime, Feeding, Napping, ota_stoped

LEMMA StepClocks == TypeOK /\ Clocks /\ [Next]_vars => Clocks'
<1> SUFFICES ASSUME TypeOK, Clocks, [Next]_vars
             PROVE  Clocks'
  OBVIOUS
<1> USE Times
<1>1. CASE Tick
  <2>1. DriverMatches'
    BY <1>1 DEF Tick, Clocks, DriverMatches, Feeding, TypeOK
  <2>2. SelfFed'
    BY <1>1 DEF Tick, Clocks, SelfFed, TypeOK
  <2>3. StallCounted'
    BY <1>1 DEF Tick, MayTick, Overdue, Guarded, Clocks, StallCounted, DriverMatches, Feeding,
                Napping, Left, ota_stoped, TypeOK
  <2>4. DeathCounted'
    BY <1>1 DEF Tick, Guarded, Clocks, DeathCounted, Left, ota_stoped, TypeOK
  <2>5. LookInTime'
    BY <1>1 DEF Tick, MayTick, Overdue, Guarded, Clocks, LookInTime, DriverMatches, Feeding, Napping,
                LongSilence, ota_stoped, TypeOK
  <2> QED BY <2>1, <2>2, <2>3, <2>4, <2>5 DEF Clocks
<1>2. CASE Reboot \/ Bite \/ Shutdown
  BY <1>2, RestartClocks DEF Reboot, Bite, Shutdown
<1>3. CASE SelfFeeds
  <2>1. DriverMatches' /\ SelfFed'
    BY <1>3 DEF SelfFeeds, hidog_feed, Clocks, DriverMatches, SelfFed, Feeding, TypeOK, appVars
  <2>2. DeathCounted'
    BY <1>3 DEF SelfFeeds, hidog_feed, Clocks, DriverMatches, DeathCounted, Feeding, Left, TypeOK,
                appVars
  <2>3. StallCounted' /\ LookInTime'
    BY <1>3 DEF SelfFeeds, hidog_feed, Clocks, DriverMatches, StallCounted, LookInTime, Feeding,
                Napping, Left, LongSilence, ota_stoped, TypeOK, appVars
  <2> QED BY <2>1, <2>2, <2>3 DEF Clocks
<1>4. CASE StartApp
  BY <1>4 DEF StartApp, Clocks, DriverMatches, SelfFed, StallCounted, DeathCounted, LookInTime,
              Feeding, Napping, Left, ota_stoped, TypeOK, dogVars
<1>5. CASE OpenDog
  BY <1>5 DEF OpenDog, hidog_set_heartbeat, Clocks, DriverMatches, SelfFed, StallCounted,
              DeathCounted, LookInTime, Feeding, Napping, Left, LongSilence, ota_stoped, TypeOK
<1>6. CASE LookAtFlag
  BY <1>6 DEF LookAtFlag, FedAnyway, Clocks, DriverMatches, SelfFed, StallCounted, DeathCounted,
              LookInTime, Feeding, Napping, Left, LongSilence, ota_stoped, TypeOK, dogVars
<1>7. CASE ClearFlag
  BY <1>7 DEF ClearFlag, Clocks, DriverMatches, SelfFed, StallCounted, DeathCounted, LookInTime,
              Feeding, Napping, Left, LongSilence, ota_stoped, TypeOK, dogVars
<1>8. CASE FeedDog
  BY <1>8 DEF FeedDog, hidog_feed, Clocks, DriverMatches, SelfFed, StallCounted, DeathCounted,
              LookInTime, Feeding, Napping, Left, LongSilence, ota_stoped, TypeOK
<1>9. CASE CheckotaDone \/ RunScript \/ ScriptDone
  BY <1>9 DEF CheckotaDone, RunScript, ScriptDone, Clocks, DriverMatches, SelfFed, StallCounted, DeathCounted,
              LookInTime, Feeding, Napping, Left, LongSilence, ota_stoped, TypeOK, dogVars
<1>10. CASE Frame
  BY <1>10 DEF Frame, Clocks, DriverMatches, SelfFed, StallCounted, DeathCounted, LookInTime,
               Feeding, Napping, Left, LongSilence, ota_stoped, TypeOK, dogVars
<1>11. CASE Die
  BY <1>11 DEF Die, hidog_set_heartbeat, NoFeeder, Clocks, DriverMatches, SelfFed, StallCounted,
               DeathCounted, LookInTime, Feeding, Napping, Left, ota_stoped, TypeOK
<1>12. CASE UNCHANGED <<dogVars, appVars>>
  BY <1>12 DEF Clocks, DriverMatches, SelfFed, StallCounted, DeathCounted, LookInTime, Feeding,
               Napping, Left, LongSilence, ota_stoped, dogVars, appVars
<1>13. CASE Ota
  BY <1>2, <1>12, <1>13 DEF Ota, UpdateMessage, ftpget, ReadBack, WriteBack, OpenFails, OtaReboot
<1>14. CASE UNCHANGED vars
  BY <1>12, <1>14 DEF vars
<1> QED
  BY <1>1, <1>2, <1>3, <1>4, <1>5, <1>6, <1>7, <1>8, <1>9, <1>10, <1>11, <1>13, <1>14 DEF Next

THEOREM ClocksHold == Spec => [](TypeOK /\ Clocks)
<1>1. Init => TypeOK /\ Clocks
  BY InitTypes, InitClocks
<1>2. TypeOK /\ Clocks /\ [Next]_vars => (TypeOK /\ Clocks)'
  BY StepTypes, StepClocks
<1> QED BY <1>1, <1>2, PTL DEF Spec

\* A stall of the encoder, and a dead program that had opened the device, last no longer than
\* two and four timeouts and the late look, for every choice of the times.
THEOREM Stalls == Spec => []StallBounded
<1>1. TypeOK /\ Clocks => StallBounded
  BY Times DEF Clocks, DriverMatches, StallCounted, DeathCounted, StallBounded, Feeding, Napping,
               Left, ota_stoped, TypeOK
<1> QED BY <1>1, ClocksHold, PTL

\* The board is reset by the watchdog only for a dead program or a long silence.
THEOREM Bites == Spec => BiteJustified
<1>1. TypeOK /\ Clocks /\ Bite => app = "dead" \/ (ota_stoped /\ silence = "long")
  BY Times DEF Bite, MayTick, Overdue, Clocks, DriverMatches, SelfFed, LookInTime, Feeding, Napping,
               ota_stoped, TypeOK
<1> QED BY <1>1, ClocksHold, PTL DEF BiteJustified
-----------------------------------------------------------------------------
LEMMA StepUpdate == TypeOK /\ UpdateInv /\ [Next]_vars => UpdateInv'
<1> SUFFICES ASSUME TypeOK, UpdateInv, [Next]_vars
             PROVE  UpdateInv'
  OBVIOUS
<1>1. CASE \/ Tick \/ SelfFeeds \/ StartApp \/ OpenDog \/ LookAtFlag \/ ClearFlag \/ FeedDog
           \/ CheckotaDone \/ Frame \/ UNCHANGED vars
  BY <1>1 DEF Tick, SelfFeeds, StartApp, OpenDog, LookAtFlag, ClearFlag, FeedDog, CheckotaDone, Frame,
              UpdateInv, OnItsWay, UpdateKept, ota_stoped, vars, otaVars, appVars, TypeOK
<1>2. CASE Reboot \/ Bite
  <2>1. /\ Restart
        /\ mishap' = IF unsynced = 1 THEN "end" ELSE mishap
        /\ unsynced # 1 => otaFile' = otaFile
    BY <1>2 DEF Reboot, Bite
  <2> QED BY <2>1 DEF Restart, OtaIdle, UpdateInv, OnItsWay, UpdateKept, ota_stoped, TypeOK
<1>3. CASE RunScript \/ ScriptDone
  BY <1>3 DEF RunScript, ScriptDone, UpdateInv, OnItsWay, UpdateKept, ota_stoped, TypeOK
<1>4. CASE Die
  BY <1>4 DEF Die, Torn, CutShort, OtaIdle, UpdateInv, OnItsWay, UpdateKept, ota_stoped, TypeOK
<1>5. CASE Shutdown
  BY <1>5 DEF Shutdown, Restart, Torn, CutShort, OtaIdle, UpdateInv, OnItsWay, UpdateKept,
              ota_stoped, TypeOK
<1>6. ASSUME NEW flag \in BOOLEAN, UpdateMessage(flag) PROVE UpdateInv'
  BY <1>6 DEF UpdateMessage, UpdateInv, OnItsWay, UpdateKept, ota_stoped, appVars, TypeOK
<1>7. ASSUME NEW got \in {"coded", "spoiled", otaFile}, ftpget(got) PROVE UpdateInv'
  BY <1>7 DEF ftpget, UpdateInv, OnItsWay, UpdateKept, ota_stoped, appVars, TypeOK, Files
<1>8. ASSUME NEW all \in BOOLEAN, ReadBack(all) \/ WriteBack(all) PROVE UpdateInv'
  BY <1>8 DEF ReadBack, Decoded, WriteBack, UpdateInv, OnItsWay, UpdateKept, ota_stoped, appVars, TypeOK
<1>9. CASE OpenFails \/ OtaReboot
  BY <1>9 DEF OpenFails, OtaReboot, OtaIdle, UpdateInv, OnItsWay, UpdateKept, ota_stoped, appVars, TypeOK
<1> QED BY <1>1, <1>2, <1>3, <1>4, <1>5, <1>6, <1>7, <1>8, <1>9 DEF Next, Ota

\* An update with which nothing has gone wrong is run, and run as it was sent; and no file that
\* is no script is left without one of the named failures.
THEOREM Updates == Spec => []UpdateKept
<1>1. Init => UpdateInv
  BY DEF Init, Started, OtaIdle, UpdateInv, OnItsWay, UpdateKept, ota_stoped
<1>2. TypeOK /\ UpdateInv /\ [Next]_vars => UpdateInv'
  BY StepUpdate
<1>3. UpdateInv => UpdateKept
  BY DEF UpdateInv
<1> QED BY <1>1, <1>2, <1>3, Types, PTL DEF Spec
-----------------------------------------------------------------------------
(* Configuration by QR code, for every set of keys and values and codes of *)
(* every length: the pairs already taken off the code are kept, the last   *)
(* of each key, and so is what earlier codes were accepted with.           *)

Done == Len(code) - Len(qr.left)

\* The file, or the copy that is about to become it.
Kept == IF qr.pc = "rename" THEN temp ELSE ini

InForce(key, value) == Kept[key] = value /\ (env = "read" => ram[key] = value)

CodeBehind ==
    qr.pc # "scan" =>
      /\ Len(qr.left) <= Len(code)
      /\ \A i \in 1 .. Len(qr.left) : qr.left[i] = code[Done + i]

\* The last pair of its key among those taken off the code is in force.
StoredSoFar ==
    qr.pc # "scan" /\ putMishap = "none" =>
      \A i \in 1 .. Done : IsLast(i, Done) =>
        code[i].key \in Keys /\ InForce(code[i].key, code[i].value)

Lasting ==
    putMishap = "none" =>
      /\ \A k \in Keys : Kept[k] # NoLine
      /\ \A k \in Keys : promised[k] # "none" => InForce(k, promised[k])

CheckedKept == \A k \in Checked : temp[k] \notin {Bad, Long} /\ flash[k] \notin {Bad, Long}

CodeInv == ConfigTypeOK /\ CheckedKept /\ CodeBehind /\ StoredSoFar /\ Lasting

\* Codes are the short sequences of pairs, and what is left of one is one.
LEMMA CodeFacts ==
    ASSUME NEW c \in Codes
    PROVE  /\ c \in Seq(Pair) /\ Len(c) \in 0 .. MaxPairs
           /\ DOMAIN c = 1 .. Len(c)
           /\ \A i \in 1 .. Len(c) : c[i] \in Pair
           /\ c # <<>> => /\ Tail(c) \in Codes
                          /\ Len(Tail(c)) = Len(c) - 1 /\ Len(c) >= 1
                          /\ Head(c) = c[1] /\ Head(c) \in Pair
                          /\ \A i \in 1 .. Len(c) - 1 : Tail(c)[i] = c[i + 1]
<1>1. PICK n \in 0 .. MaxPairs : c \in [1 .. n -> Pair]
  BY DEF Codes
<1>2. c \in Seq(Pair) /\ Len(c) = n /\ n \in Nat
  BY <1>1, PairsAssumption
<1>3. DOMAIN c = 1 .. Len(c) /\ \A i \in 1 .. Len(c) : c[i] \in Pair
  BY <1>1, <1>2
<1>4. ASSUME c # <<>>
      PROVE  /\ Tail(c) \in Codes
             /\ Len(Tail(c)) = Len(c) - 1 /\ Len(c) >= 1
             /\ Head(c) = c[1] /\ Head(c) \in Pair
             /\ \A i \in 1 .. Len(c) - 1 : Tail(c)[i] = c[i + 1]
  <2>1. n - 1 \in 0 .. MaxPairs
    BY <1>2, <1>4, EmptySeq, PairsAssumption
  <2>2. /\ Tail(c) \in Seq(Pair) /\ Len(Tail(c)) = n - 1
        /\ Head(c) \in Pair /\ Head(c) = c[1]
        /\ \A i \in 1 .. n - 1 : Tail(c)[i] = c[i + 1]
    BY <1>2, <1>4, <2>1, HeadTailProperties
  <2>3. Tail(c) \in [1 .. n - 1 -> Pair]
    BY <2>2, LenProperties
  <2>4. Tail(c) \in Codes
    BY <2>1, <2>3 DEF Codes
  <2> QED BY <1>2, <2>1, <2>2, <2>4
<1> QED BY <1>1, <1>2, <1>3, <1>4

LEMMA EmptyIsCode == <<>> \in Codes
<1>1. <<>> \in [1 .. 0 -> Pair]
  OBVIOUS
<1> QED BY <1>1, PairsAssumption DEF Codes

LEMMA Strings ==
    /\ Default \in AnyValue /\ Default \in Values /\ Default \notin {Bad, Long, NoLine}
    /\ NoLine \notin AnyValue /\ Damaged \notin AnyValue /\ "none" \notin AnyValue
    /\ NoLine \notin {Bad, Long} /\ Damaged \notin {Bad, Long}
    /\ \A v \in Values : v \notin {Bad, Long}
    /\ Checked \subseteq Keys
BY ValuesAssumption, KeysAssumption DEF AnyValue

LEMMA RunFacts ==
    ASSUME NEW g \in [Keys -> AnyValue \cup {Damaged}], NEW long, NEW r \in Run(g, long)
    PROVE  /\ r \in [Keys -> AnyValue \cup {Damaged}]
           /\ \A k \in Keys : r[k] \in {g[k], Damaged}
           /\ ~long => r = g
<1>1. PICK hit \in SUBSET Keys : /\ r = [k \in Keys |-> IF k \in hit THEN Damaged ELSE g[k]]
                                 /\ ~long => hit = {}
  BY DEF Run
<1>2. ~long => r = g
  BY <1>1
<1> QED BY <1>1, <1>2

LEMMA InitCode == ConfigInit => CodeInv
<1> SUFFICES ASSUME ConfigInit PROVE CodeInv
  OBVIOUS
<1>1. ini \in [Keys -> AnyValue] /\ \A k \in Keys : ini[k] \in Values
  BY DEF ConfigInit, AnyValue
<1>2. ConfigTypeOK /\ CheckedKept
  BY <1>1, Strings, EmptyIsCode DEF ConfigInit, QrIdle, NoFile, ConfigTypeOK, CheckedKept, Levels
<1>3. CodeBehind /\ StoredSoFar /\ Lasting
  BY <1>1, Strings DEF ConfigInit, QrIdle, CodeBehind, StoredSoFar, Lasting, InForce, Kept
<1> QED BY <1>2, <1>3 DEF CodeInv

\* A start: what was in force stays so if the file and the mishaps are as they were.
LEMMA StartCode ==
    ASSUME CodeInv, NEW file \in [Keys -> AnyValue \cup {NoLine}], StartOn(file),
           \A k \in Checked : file[k] \notin {Bad, Long},
           putMishap' \in {"none", "cut", "failed"},
           putMishap' = "none" => putMishap = "none" /\ file = ini /\ qr.pc # "rename"
    PROVE  CodeInv'
<1> USE DEF StartOn, QrIdle
<1>1. Loaded(file) \in [Keys -> AnyValue] /\ \A k \in Checked : Loaded(file)[k] \notin {Bad, Long}
  BY Strings DEF Loaded
<1>2. /\ ram' \in [Keys -> AnyValue \cup {Damaged}]
      /\ \A k \in Checked : ram'[k] \notin {Bad, Long}
      /\ env' \in {"read", "defaults", "overrun"}
      /\ env' = "read" => ram' = Loaded(file)
  <2>1. CASE ram' = [k \in Keys |-> Default] /\ env' = "defaults"
    BY <2>1, Strings
  <2>2. CASE /\ ram' \in Run(Loaded(file), HasLong(file))
             /\ env' = IF HasLong(file) THEN "overrun" ELSE "read"
    <3>1. /\ ram' \in [Keys -> AnyValue \cup {Damaged}]
          /\ \A k \in Keys : ram'[k] \in {Loaded(file)[k], Damaged}
          /\ ~HasLong(file) => ram' = Loaded(file)
      BY <1>1, <2>2, RunFacts
    <3> QED BY <1>1, <2>2, <3>1, Strings
  <2> QED BY <2>1, <2>2
<1>3. ConfigTypeOK' /\ CheckedKept'
  BY <1>2, Strings, EmptyIsCode DEF CodeInv, ConfigTypeOK, CheckedKept, NoFile, Levels
<1>4. CodeBehind' /\ StoredSoFar'
  BY DEF CodeBehind, StoredSoFar
<1>5. Lasting'
  <2> SUFFICES ASSUME putMishap' = "none" PROVE Lasting'
    BY DEF Lasting
  <2>1. /\ \A k \in Keys : ini[k] # NoLine
        /\ \A k \in Keys : promised[k] # "none" => ini[k] = promised[k]
    BY DEF CodeInv, Lasting, InForce, Kept
  <2>2. Kept' = ini /\ promised' = promised
    BY DEF Kept
  <2>3. env' = "read" => \A k \in Keys : ram'[k] = ini[k]
    BY <1>2, <2>1 DEF Loaded
  <2> QED BY <2>1, <2>2, <2>3 DEF Lasting, InForce
<1> QED BY <1>3, <1>4, <1>5 DEF CodeInv

\* What the four ways of putting a pair that goes on have in common.
PairStored(pair) ==
    /\ StoreGlobal(pair)
    /\ \E pc2 \in {"pairs", "rename"} : qr' = [pc |-> pc2, left |-> Tail(qr.left)]
    /\ code' = code
    /\ putMishap' \in {putMishap, "failed"}
    /\ ini' \in [Keys -> AnyValue \cup {NoLine}] /\ temp' \in [Keys -> AnyValue \cup {NoLine}]
    /\ \A k \in Checked : ini'[k] \notin {Bad, Long} /\ temp'[k] \notin {Bad, Long}
    /\ flash' = flash
    /\ putMishap' = "none" =>
         \/ Kept' = [Kept EXCEPT ![pair.key] = pair.value]
         \/ Kept' = [NoFile EXCEPT ![pair.key] = pair.value] /\ Kept = NoFile

LEMMA PairFacts ==
    ASSUME CodeInv, NEW pair \in Pair, StoreGlobal(pair)
    PROVE  /\ qr.pc = "pairs" /\ qr.left # <<>> /\ pair = Head(qr.left)
           /\ pair.key \in Keys /\ pair.value \in AnyValue
           /\ pair.key \in Checked => pair.value \in Values
           /\ ram' \in [Keys -> AnyValue \cup {Damaged}]
           /\ \A k \in Checked : ram'[k] \notin {Bad, Long}
           /\ env' \in {"read", "defaults", "overrun"}
           /\ env' = "read" => env = "read" /\ ram' = [ram EXCEPT ![pair.key] = pair.value]
           /\ promised' = [promised EXCEPT ![pair.key] = "none"]
           /\ UNCHANGED <<security_level, restarting>>
<1>1. pair.key \in Keys /\ pair.value \in AnyValue /\ (pair.key \in Checked => pair.value \in Values)
  <2>1. pair.key \in Keys /\ (pair.key \in Checked => pair.value \in Values)
    BY DEF StoreGlobal, Supported
  <2>2. pair.value \in AnyValue
    <3>1. pair \in [key : Keys, value : AnyValue] \/ pair \in [key : {Unknown}, value : Values]
      BY DEF Pair
    <3>2. Values \subseteq AnyValue
      BY DEF AnyValue
    <3> QED BY <3>1, <3>2
  <2> QED BY <2>1, <2>2
<1> DEFINE g == [ram EXCEPT ![pair.key] = pair.value]
<1>2. g \in [Keys -> AnyValue \cup {Damaged}] /\ \A k \in Checked : g[k] \notin {Bad, Long}
  BY <1>1, Strings DEF CodeInv, ConfigTypeOK
<1>3. ram' \in Run(g, pair.value = Long)
  BY DEF StoreGlobal
<1> HIDE DEF g
<1>4. /\ ram' \in [Keys -> AnyValue \cup {Damaged}]
      /\ \A k \in Keys : ram'[k] \in {g[k], Damaged}
      /\ pair.value # Long => ram' = g
  BY <1>2, <1>3, RunFacts
<1>5. \A k \in Checked : ram'[k] \notin {Bad, Long}
  BY <1>2, <1>4, Strings
<1>6. /\ env' \in {"read", "defaults", "overrun"}
      /\ env' = "read" => env = "read" /\ pair.value # Long
  BY DEF StoreGlobal, CodeInv, ConfigTypeOK
<1>7. env' = "read" => env = "read" /\ ram' = [ram EXCEPT ![pair.key] = pair.value]
  BY <1>4, <1>6 DEF g
<1> QED BY <1>1, <1>4, <1>5, <1>6, <1>7 DEF StoreGlobal

LEMMA PairStoredCode ==
    ASSUME CodeInv, NEW pair \in Pair, PairStored(pair)
    PROVE  CodeInv'
<1>1. /\ qr.pc = "pairs" /\ qr.left # <<>> /\ pair = Head(qr.left)
      /\ pair.key \in Keys /\ pair.value \in AnyValue
      /\ ram' \in [Keys -> AnyValue \cup {Damaged}]
      /\ \A k \in Checked : ram'[k] \notin {Bad, Long}
      /\ env' \in {"read", "defaults", "overrun"}
      /\ env' = "read" => env = "read" /\ ram' = [ram EXCEPT ![pair.key] = pair.value]
      /\ promised' = [promised EXCEPT ![pair.key] = "none"]
      /\ UNCHANGED <<security_level, restarting>>
  BY PairFacts DEF PairStored
<1>2. code' = code /\ qr'.left = Tail(qr.left) /\ qr'.pc \in {"pairs", "rename"}
  BY DEF PairStored
<1>3. /\ Tail(qr.left) \in Codes
      /\ Len(Tail(qr.left)) = Len(qr.left) - 1 /\ Len(qr.left) >= 1
      /\ Len(qr.left) \in Nat /\ Len(code) \in Nat
      /\ pair = qr.left[1]
      /\ \A i \in 1 .. Len(qr.left) - 1 : Tail(qr.left)[i] = qr.left[i + 1]
  BY <1>1, CodeFacts, PairsAssumption DEF CodeInv, ConfigTypeOK
<1>4. ConfigTypeOK' /\ CheckedKept'
  <2>1. promised' \in [Keys -> AnyValue \cup {"none"}] /\ putMishap' \in {"none", "cut", "failed"}
    BY <1>1 DEF CodeInv, ConfigTypeOK, PairStored
  <2>2. qr' \in [pc : {"scan", "pairs", "rename"}, left : Codes]
    BY <1>3 DEF PairStored
  <2> QED BY <1>1, <1>2, <2>1, <2>2 DEF CodeInv, ConfigTypeOK, CheckedKept, PairStored
<1>5. /\ Done' = Done + 1 /\ Done \in Nat /\ pair = code[Done + 1]
      /\ CodeBehind'
  <2>1. Len(qr.left) <= Len(code) /\ \A i \in 1 .. Len(qr.left) : qr.left[i] = code[Done + i]
    BY <1>1 DEF CodeInv, CodeBehind
  <2>2. Done' = Done + 1 /\ Done \in Nat
    <3>1. Done' = Len(code) - (Len(qr.left) - 1)
      BY <1>2, <1>3 DEF Done
    <3>2. Done = Len(code) - Len(qr.left)
      BY DEF Done
    <3>3. Len(qr.left) <= Len(code)
      BY <2>1
    <3> HIDE DEF Done
    <3>4. /\ Len(qr.left) \in Nat /\ Len(code) \in Nat
      BY <1>3
    <3> QED BY <3>1, <3>2, <3>3, <3>4
  <2>3. pair = code[Done + 1]
    BY <1>3, <2>1
  <2>4. ASSUME NEW i \in 1 .. Len(qr'.left)
        PROVE  qr'.left[i] = code'[Done' + i]
    <3>1. i + 1 \in 1 .. Len(qr.left) /\ qr'.left[i] = qr.left[i + 1]
      BY <1>2, <1>3
    <3>2. qr.left[i + 1] = code[Done + (i + 1)] /\ Done + (i + 1) = Done' + i
      BY <2>1, <2>2, <3>1
    <3> QED BY <1>2, <3>1, <3>2
  <2>5. Len(qr'.left) <= Len(code')
    BY <1>2, <1>3, <2>1
  <2> QED BY <2>2, <2>3, <2>4, <2>5 DEF CodeBehind
<1>6. ASSUME putMishap' = "none"
      PROVE  /\ putMishap = "none" /\ Kept' = [Kept EXCEPT ![pair.key] = pair.value]
             /\ Kept \in [Keys -> AnyValue \cup {NoLine}]
             /\ \A k \in Keys : Kept[k] # NoLine
  <2>1. putMishap = "none" /\ \A k \in Keys : Kept[k] # NoLine
    BY <1>6 DEF PairStored, CodeInv, Lasting
  <2>2. Kept # NoFile
    BY <1>1, <2>1 DEF NoFile
  <2>3. Kept \in [Keys -> AnyValue \cup {NoLine}]
    BY DEF Kept, CodeInv, ConfigTypeOK
  <2> QED BY <1>6, <2>1, <2>2, <2>3 DEF PairStored
<1>7. StoredSoFar'
  <2> SUFFICES ASSUME putMishap' = "none", NEW i \in 1 .. Done', IsLast(i, Done)'
               PROVE  code'[i].key \in Keys /\ InForce(code[i].key, code[i].value)'
    BY DEF StoredSoFar
  <2>1. CASE i = Done + 1
    BY <2>1, <1>1, <1>2, <1>5, <1>6 DEF InForce, CodeInv, ConfigTypeOK
  <2>2. CASE i # Done + 1
    <3>1. i \in 1 .. Done
      BY <1>5, <2>2
    <3>2. \A j \in i + 1 .. Done + 1 : code[j].key # code[i].key
      BY <1>2, <1>5 DEF IsLast
    <3>3. IsLast(i, Done) /\ code[i].key # pair.key
      BY <1>5, <3>1, <3>2 DEF IsLast
    <3>4. code[i].key \in Keys /\ InForce(code[i].key, code[i].value)
      BY <1>1, <1>6, <3>1, <3>3 DEF CodeInv, StoredSoFar
    <3> QED BY <1>1, <1>2, <1>6, <3>3, <3>4 DEF InForce, CodeInv, ConfigTypeOK
  <2> QED BY <2>1, <2>2
<1>8. Lasting'
  <2> SUFFICES ASSUME putMishap' = "none"
               PROVE  /\ \A k \in Keys : Kept'[k] # NoLine
                      /\ \A k \in Keys : promised'[k] # "none" => InForce(k, promised[k])'
    BY DEF Lasting
  <2>1. \A k \in Keys : Kept'[k] # NoLine
    BY <1>1, <1>6, Strings
  <2>2. ASSUME NEW k \in Keys, promised'[k] # "none"
        PROVE  InForce(k, promised[k])'
    <3>1. k # pair.key /\ promised'[k] = promised[k]
      BY <1>1, <2>2 DEF CodeInv, ConfigTypeOK
    <3>2. InForce(k, promised[k])
      BY <1>6, <2>2, <3>1 DEF CodeInv, Lasting
    <3> QED BY <1>1, <1>6, <3>1, <3>2 DEF InForce, CodeInv, ConfigTypeOK
  <2> QED BY <2>1, <2>2
<1> QED BY <1>4, <1>5, <1>7, <1>8 DEF CodeInv

LEMMA StepCode == CodeInv /\ [ConfigNext]_configVars => CodeInv'
<1> SUFFICES ASSUME CodeInv, [ConfigNext]_configVars
             PROVE  CodeInv'
  OBVIOUS
<1> USE DEF fileVars
<1>1. ASSUME NEW l \in Levels, SetLevel(l) PROVE CodeInv'
  BY <1>1 DEF SetLevel, CodeInv, ConfigTypeOK, CheckedKept, CodeBehind, StoredSoFar, Lasting, InForce,
              Kept, Done, IsLast
<1>2. ASSUME NEW pairs \in Codes, Scan(pairs) PROVE CodeInv'
  <2>1. ConfigTypeOK' /\ CheckedKept'
    BY <1>2 DEF Scan, CodeInv, ConfigTypeOK, CheckedKept
  <2>2. Len(pairs) \in Nat /\ Done' = 0
    BY <1>2, CodeFacts, PairsAssumption DEF Scan, Done
  <2>3. CodeBehind' /\ StoredSoFar'
    BY <1>2, <2>2 DEF Scan, CodeBehind, StoredSoFar
  <2>4. Lasting'
    BY <1>2 DEF Scan, CodeInv, Lasting, InForce, Kept
  <2> QED BY <2>1, <2>3, <2>4 DEF CodeInv
<1>3. ASSUME NEW pair \in Pair, PutFails(pair) PROVE CodeInv'
  <2>1. /\ qr.pc = "pairs" /\ pair.key \in Keys
        /\ ram' \in [Keys -> AnyValue \cup {Damaged}]
        /\ \A k \in Checked : ram'[k] \notin {Bad, Long}
        /\ env' \in {"read", "defaults", "overrun"}
        /\ env' = "read" => env = "read" /\ ram' = [ram EXCEPT ![pair.key] = pair.value]
        /\ promised' = [promised EXCEPT ![pair.key] = "none"]
        /\ UNCHANGED <<security_level, restarting>>
    BY <1>3, PairFacts DEF PutFails
  <2>2. ConfigTypeOK' /\ CheckedKept'
    BY <1>3, <2>1, EmptyIsCode DEF PutFails, QrIdle, CodeInv, ConfigTypeOK, CheckedKept
  <2>3. CodeBehind' /\ StoredSoFar'
    BY <1>3 DEF PutFails, QrIdle, CodeBehind, StoredSoFar
  <2>4. Lasting'
    BY <1>3, <2>1 DEF PutFails, QrIdle, CodeInv, ConfigTypeOK, Lasting, InForce, Kept
  <2> QED BY <2>2, <2>3, <2>4 DEF CodeInv
<1>4. ASSUME NEW pair \in Pair, PutInPlace(pair) PROVE CodeInv'
  <2>1. qr.pc = "pairs" /\ pair.key \in Keys /\ pair.value \in AnyValue
        /\ (pair.key \in Checked => pair.value \in Values)
    BY <1>4, PairFacts DEF PutInPlace
  <2>2. /\ ini' = [ini EXCEPT ![pair.key] = pair.value] /\ temp' = temp /\ flash' = flash
        /\ qr' = [pc |-> "pairs", left |-> Tail(qr.left)]
        /\ code' = code /\ putMishap' = putMishap /\ StoreGlobal(pair)
    BY <1>4, <2>1 DEF PutInPlace, CodeInv, ConfigTypeOK
  <2>3. /\ ini' \in [Keys -> AnyValue \cup {NoLine}] /\ temp' \in [Keys -> AnyValue \cup {NoLine}]
        /\ \A k \in Checked : ini'[k] \notin {Bad, Long} /\ temp'[k] \notin {Bad, Long}
    BY <2>1, <2>2, Strings DEF CodeInv, ConfigTypeOK, CheckedKept
  <2>4. Kept' = [Kept EXCEPT ![pair.key] = pair.value]
    BY <2>1, <2>2 DEF Kept
  <2>5. PairStored(pair)
    BY <2>2, <2>3, <2>4 DEF PairStored
  <2> QED BY <2>5, PairStoredCode
<1>5. ASSUME NEW pair \in Pair, PutAnew(pair) PROVE CodeInv'
  <2>1. qr.pc = "pairs" /\ pair.key \in Keys /\ pair.value \in AnyValue
        /\ (pair.key \in Checked => pair.value \in Values)
    BY <1>5, PairFacts DEF PutAnew
  <2>2. PairStored(pair)
    BY <1>5, <2>1, Strings DEF PutAnew, NoFile, PairStored, CodeInv, ConfigTypeOK, CheckedKept, Kept
  <2> QED BY <2>2, PairStoredCode
<1>6. ASSUME NEW pair \in Pair, NEW lost \in SUBSET Keys, PutCopy(pair, lost) PROVE CodeInv'
  <2>1. qr.pc = "pairs" /\ pair.key \in Keys /\ pair.value \in AnyValue
        /\ (pair.key \in Checked => pair.value \in Values)
    BY <1>6, PairFacts DEF PutCopy
  <2>2. /\ temp' \in [Keys -> AnyValue \cup {NoLine}]
        /\ \A k \in Checked : temp'[k] \notin {Bad, Long}
        /\ lost = {} => temp' = [ini EXCEPT ![pair.key] = pair.value]
    BY <1>6, <2>1, Strings DEF PutCopy, CodeInv, ConfigTypeOK
  <2>3. /\ ini' = NoFile /\ flash' = flash
        /\ qr' = [pc |-> "rename", left |-> Tail(qr.left)]
        /\ code' = code /\ StoreGlobal(pair)
        /\ putMishap' = IF lost = {} THEN putMishap ELSE "failed"
    BY <1>6 DEF PutCopy
  <2>4. ini' \in [Keys -> AnyValue \cup {NoLine}] /\ \A k \in Checked : ini'[k] \notin {Bad, Long}
    BY <2>3, Strings DEF NoFile
  <2>5. putMishap' = "none" => Kept' = [Kept EXCEPT ![pair.key] = pair.value]
    BY <2>1, <2>2, <2>3 DEF Kept
  <2>6. PairStored(pair)
    BY <2>2, <2>3, <2>4, <2>5 DEF PairStored
  <2> QED BY <2>6, PairStoredCode
<1>7. ASSUME NEW ok \in BOOLEAN, Rename(ok) PROVE CodeInv'
  <2>1. ConfigTypeOK' /\ CheckedKept'
    BY <1>7, Strings DEF Rename, NoFile, CodeInv, ConfigTypeOK, CheckedKept
  <2>2. qr.pc = "rename" /\ qr' = [pc |-> "pairs", left |-> qr.left]
        /\ UNCHANGED <<ram, env, code, promised>>
        /\ (putMishap' = "none" => putMishap = "none" /\ Kept' = Kept)
    BY <1>7 DEF Rename, Kept, CodeInv, ConfigTypeOK
  <2>3. Done' = Done
    BY <2>2 DEF Done
  <2>4. CodeBehind'
    BY <2>2, <2>3 DEF CodeInv, CodeBehind
  <2>5. StoredSoFar' /\ Lasting'
    BY <2>2, <2>3 DEF CodeInv, StoredSoFar, Lasting, InForce, IsLast
  <2> QED BY <2>1, <2>4, <2>5 DEF CodeInv
<1>8. CASE StopAtPair
  <2>1. ConfigTypeOK' /\ CheckedKept'
    BY <1>8, EmptyIsCode DEF StopAtPair, QrIdle, CodeInv, ConfigTypeOK, CheckedKept
  <2> QED BY <1>8, <2>1 DEF StopAtPair, QrIdle, CodeInv, CodeBehind, StoredSoFar, Lasting, InForce, Kept
<1>9. CASE RebootByCode
  <2>1. Done = Len(code) /\ DOMAIN code = 1 .. Len(code)
    BY <1>9, CodeFacts, PairsAssumption DEF RebootByCode, AllStored, Done, CodeInv, ConfigTypeOK
  <2>2. ConfigTypeOK' /\ CheckedKept'
    BY <1>9, EmptyIsCode DEF RebootByCode, QrIdle, CodeInv, ConfigTypeOK, CheckedKept
  <2>3. CodeBehind' /\ StoredSoFar'
    BY <1>9 DEF RebootByCode, QrIdle, CodeBehind, StoredSoFar
  <2>4. Lasting'
    <3> SUFFICES ASSUME putMishap' = "none"
                 PROVE  /\ \A k \in Keys : Kept'[k] # NoLine
                        /\ \A k \in Keys : promised'[k] # "none" => InForce(k, promised[k])'
      BY DEF Lasting
    <3>1. qr.pc = "pairs" /\ putMishap = "none" /\ Kept' = Kept /\ UNCHANGED <<env, ram>>
      BY <1>9 DEF RebootByCode, QrIdle, Kept
    <3>2. Promise(promised')
      BY <1>9 DEF RebootByCode
    <3>3. ASSUME NEW k \in Keys, promised'[k] # "none"
          PROVE  InForce(k, promised'[k])
      <4>1. CASE promised'[k] = promised[k]
        BY <3>1, <3>3, <4>1 DEF CodeInv, Lasting
      <4>2. ASSUME NEW i \in DOMAIN code, code[i].key = k, IsLast(i, Len(code)),
                   promised'[k] = code[i].value
            PROVE  InForce(k, promised'[k])
        BY <2>1, <3>1, <4>2 DEF CodeInv, StoredSoFar
      <4> QED BY <3>2, <4>1, <4>2 DEF Promise
    <3> QED BY <3>1, <3>3 DEF CodeInv, Lasting, InForce
  <2> QED BY <2>2, <2>3, <2>4 DEF CodeInv
<1>10. CASE WriteBackIni
  BY <1>10 DEF WriteBackIni, CodeInv, ConfigTypeOK, CheckedKept, CodeBehind, StoredSoFar, Lasting,
               InForce, Kept, Done, IsLast
<1>11. CASE ConfigShutdown
  BY <1>11, StartCode DEF ConfigShutdown, CodeInv, ConfigTypeOK
<1>12. CASE PowerLoss
  <2>1. PICK file \in [Keys -> AnyValue \cup {NoLine}] :
          /\ StartOn(file)
          /\ putMishap' = IF Settled THEN putMishap ELSE "cut"
          /\ Settled => file = ini
          /\ ~Settled => \A k \in Keys : file[k] \in {flash[k], ini[k], temp[k], NoLine}
    BY <1>12 DEF PowerLoss, CodeInv, ConfigTypeOK
  <2>2. \A k \in Checked : file[k] \notin {Bad, Long}
    BY <2>1, Strings DEF CodeInv, ConfigTypeOK, CheckedKept
  <2> QED BY <2>1, <2>2, StartCode DEF Settled, CodeInv, ConfigTypeOK
<1>13. CASE UNCHANGED configVars
  BY <1>13 DEF configVars, CodeInv, ConfigTypeOK, CheckedKept, CodeBehind, StoredSoFar, Lasting,
               InForce, Kept, Done, IsLast
<1> QED BY <1>1, <1>2, <1>3, <1>4, <1>5, <1>6, <1>7, <1>8, <1>9, <1>10, <1>11, <1>12, <1>13
        DEF ConfigNext

\* What a code was accepted with lasts, whatever its length and however pairs fail, levels
\* change and starts go, until a put is cut or loses lines.
THEOREM Complete == ConfigSpec => []ConfigConsistent
<1>1. CodeInv => CodeKept
  BY DEF CodeInv, Lasting, InForce, Kept, CodeKept
<1>2. CodeInv => ConfigConsistent
  BY <1>1 DEF CodeInv, ConfigConsistent
<1> QED BY InitCode, StepCode, <1>2, PTL DEF ConfigSpec
=============================================================================
