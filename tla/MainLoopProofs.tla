---------------------------- MODULE MainLoopProofs -----------------------------
(* Proofs about WifiLink, for every set of networks and delay of the timer that   *)
(* closes the access point, and about MainLoop: loop() runs WifiLink and Schedule *)
(* each as its module says, so what is proved of the two holds of them together.  *)
EXTENDS MainLoop, Sequences, TLAPS

-------------------------------------------------------------------------------
(* WifiLink.                                                                     *)

\* Every variable keeps its type; the closing timer stays within its delay.
THEOREM LinkTypeCorrect == Spec => []TypeOK
<1>1. Init => TypeOK
  <2> SUFFICES ASSUME Init PROVE TypeOK
    OBVIOUS
  <2>1. closing \in 0 .. Idle
    BY WifiAssumption DEF WifiAssumption, Init, Idle
  <2>2. status \in Statuses
    BY DEF Init, Statuses
  <2> QED BY <2>1, <2>2 DEF Init, TypeOK
<1>2. TypeOK /\ [Next]_vars => TypeOK'
  <2> SUFFICES ASSUME TypeOK, [Next]_vars PROVE TypeOK'
    OBVIOUS
  <2> USE WifiAssumption DEF WifiAssumption, TypeOK, Idle, Statuses, Failed, conf, link
  <2>1. CASE StationChanges
    BY <2>1 DEF StationChanges
  <2>2. CASE NothingToFind
    BY <2>2 DEF NothingToFind
  <2>3. CASE Poll
    <3>1. wifi_status' \in BOOLEAN /\ linked' \in BOOLEAN /\ wiped' \in BOOLEAN
      BY <2>3, Zenon DEF Poll
    <3>2. closing' \in 0 .. Idle
      BY <2>3 DEF Poll, Minute
    <3> QED BY <2>3, <3>1, <3>2, Zenon DEF Poll
  <2>4. CASE ClosingTime
    BY <2>4 DEF ClosingTime
  <2>5. CASE CloseAP
    BY <2>5 DEF CloseAP
  <2>6. CASE PostWifi
    BY <2>6 DEF PostWifi, Written
  <2>7. CASE Connect
    BY <2>7 DEF Connect
  <2>8. CASE Wipe
    BY <2>8 DEF Wipe
  <2>9. CASE Reboot
    <3>1. closing' \in 0 .. Idle
      BY <2>9 DEF Reboot, Boot
    <3>2. status' \in Statuses
      BY <2>9 DEF Reboot, Boot
    <3>3. file' = file /\ station_conf' = file /\ using' = file
      BY <2>9 DEF Reboot, Boot
    <3> QED BY <2>9, <3>1, <3>2, <3>3 DEF Reboot, Boot
  <2>10. CASE UNCHANGED vars
    BY <2>10 DEF vars
  <2> QED BY <2>1, <2>2, <2>3, <2>4, <2>5, <2>6, <2>7, <2>8, <2>9, <2>10 DEF Next
<1> QED BY <1>1, <1>2, PTL DEF Spec

\* The access point is there until the device has been on the network.
THEOREM ApStays == Spec => []ApUntilLinked
<1>1. Init => ApUntilLinked
  BY DEF Init, ApUntilLinked
<1>2. TypeOK /\ ApUntilLinked /\ [Next]_vars => ApUntilLinked'
  <2> SUFFICES ASSUME TypeOK, ApUntilLinked, [Next]_vars PROVE ApUntilLinked'
    OBVIOUS
  <2> USE DEF ApUntilLinked, conf, link
  <2>1. CASE StationChanges \/ NothingToFind
    BY <2>1 DEF StationChanges, NothingToFind
  <2>2. CASE Poll
    BY <2>2 DEF Poll, HasAddress
  \* A timer that is not armed neither counts down nor fires.
  <2>3. CASE ClosingTime \/ CloseAP
    <3>1. closing # Idle
      BY <2>3, WifiAssumption DEF WifiAssumption, ClosingTime, CloseAP, Idle
    <3>2. linked
      BY <3>1
    <3> QED BY <2>3, <3>2 DEF ClosingTime, CloseAP
  <2>4. CASE PostWifi \/ Connect
    BY <2>4 DEF PostWifi, Connect
  <2>5. CASE Wipe \/ Reboot
    BY <2>5 DEF Wipe, Reboot, Boot
  <2>6. CASE UNCHANGED vars
    BY <2>6 DEF vars
  <2> QED BY <2>1, <2>2, <2>3, <2>4, <2>5, <2>6 DEF Next
<1> QED BY <1>1, <1>2, LinkTypeCorrect, PTL DEF Spec

\* The credentials in RAM are always those in the file, and the station is only
\* ever given the ones in RAM.
RamIsFile == station_conf = file

\* What the station tries or has is what the next boot will try, unless newer
\* credentials are about to be used.
THEOREM LinkSaved == Spec => []LinkIsSaved
<1>1. Init => RamIsFile /\ LinkIsSaved
  BY DEF Init, RamIsFile, LinkIsSaved
<1>2. RamIsFile /\ LinkIsSaved /\ [Next]_vars => RamIsFile' /\ LinkIsSaved'
  <2> SUFFICES ASSUME RamIsFile, LinkIsSaved, [Next]_vars
               PROVE  RamIsFile' /\ LinkIsSaved'
    OBVIOUS
  <2> USE DEF RamIsFile, LinkIsSaved, conf, link
  <2>1. CASE StationChanges \/ NothingToFind
    BY <2>1 DEF StationChanges, NothingToFind
  <2>2. CASE Poll \/ ClosingTime \/ CloseAP
    BY <2>2 DEF Poll, ClosingTime, CloseAP
  <2>3. CASE PostWifi
    BY <2>3 DEF PostWifi, Written
  <2>4. CASE Connect \/ Wipe
    BY <2>4 DEF Connect, Wipe
  <2>5. CASE Reboot
    BY <2>5 DEF Reboot, Boot
  <2>6. CASE UNCHANGED vars
    BY <2>6 DEF vars
  <2> QED BY <2>1, <2>2, <2>3, <2>4, <2>5, <2>6 DEF Next
<1> QED BY <1>1, <1>2, PTL DEF Spec

-------------------------------------------------------------------------------
(* Schedule, as MainLoop has it, for every division of the day into hours and   *)
(* minutes: bytes 7 to 13 of the file.                                         *)

Files == [7 .. 13 -> Nat]

\* Saving a switch changes that switch's byte alone.
LEMMA SavedState ==
    ASSUME NEW f \in Files, NEW x \in S!Outputs, NEW on \in BOOLEAN
    PROVE  /\ S!Saved(f, x, on) \in Files
           /\ S!LoadedAlarm(S!Saved(f, x, on)) = S!LoadedAlarm(f)
           /\ S!LoadedState(S!Saved(f, x, on)) =
                IF on THEN S!LoadedState(f) \union {x} ELSE S!LoadedState(f) \ {x}
<1>1. CASE x = "effect"
  BY <1>1 DEF Files, S!Saved, S!Offset, S!Flag, S!LoadedAlarm, S!LoadedState
<1>2. CASE x = "sound"
  BY <1>2 DEF Files, S!Saved, S!Offset, S!Flag, S!LoadedAlarm, S!LoadedState
<1> QED BY <1>1, <1>2 DEF S!Outputs

\* Writing an alarm changes its five bytes alone, and they are what is read.
LEMMA SavedAlarm ==
    ASSUME NEW f \in Files, NEW a \in S!Alarms
    PROVE  /\ S!AlarmSaved(f, a) \in Files
           /\ S!LoadedAlarm(S!AlarmSaved(f, a)) = a
           /\ S!LoadedState(S!AlarmSaved(f, a)) = S!LoadedState(f)
<1> DEFINE g == S!AlarmSaved(f, a)
<1>1. /\ a.On \in S!Times /\ a.Off \in S!Times /\ a.Event \in Nat
      /\ a = [On |-> a.On, Off |-> a.Off, Event |-> a.Event]
  BY DEF S!Alarms
<1>2. \A t \in S!Times : t[1] \in Nat /\ t[2] \in Nat /\ t = <<t[1], t[2]>>
  BY DayAssumption DEF DayAssumption, S!Times
<1>3. /\ g[7] = a.On[1] /\ g[8] = a.On[2] /\ g[9] = a.Off[1] /\ g[10] = a.Off[2]
      /\ g[11] = a.Event /\ g[12] = f[12] /\ g[13] = f[13]
  BY DEF S!AlarmSaved, S!Buffer, Files
<1>4. g \in Files
  <2>1. \A o \in 7 .. 13 : g[o] \in Nat
    <3>1. \A o \in 7 .. 13 : o \in {7, 8, 9, 10, 11, 12, 13}
      OBVIOUS
    <3> QED BY <3>1, <1>1, <1>2, <1>3 DEF Files
  <2> QED BY <2>1 DEF S!AlarmSaved, Files
<1>5. S!LoadedAlarm(g) = a
  BY <1>1, <1>2, <1>3 DEF S!LoadedAlarm
<1>6. S!LoadedState(g) = S!LoadedState(f)
  BY <1>3 DEF S!LoadedState
<1> QED BY <1>4, <1>5, <1>6

-------------------------------------------------------------------------------
(* The switch statement and the clock.                                         *)

\* The alarm switches outputs only.
LEMMA SwitchedOutputs == \A event \in 0 .. 3 : S!Switched(event) \subseteq S!Outputs
<1>1. S!Case = <<{"sound"}, {"effect"}, {"effect", "sound"}>> /\ Len(S!Case) = 3
  BY DEF S!Case
<1>2. \A c \in 1 .. 3 : S!Case[c] \subseteq S!Outputs
  BY <1>1 DEF S!Outputs
<1> QED BY <1>1, <1>2 DEF S!Switched

\* What an alarm's On minute makes of the file is what saving each output it
\* switches would.
LEMMA StartedFile ==
    ASSUME NEW f \in Files, NEW on, on \subseteq S!Outputs,
           NEW g, g = [o \in DOMAIN f |-> IF \E x \in on : o = S!Offset[x] THEN 1 ELSE f[o]]
    PROVE  /\ g \in Files
           /\ S!LoadedAlarm(g) = S!LoadedAlarm(f)
           /\ S!LoadedState(g) = S!LoadedState(f) \union on
<1>1. g \in Files
  BY DEF Files
<1>2. S!Offset["effect"] = 12 /\ S!Offset["sound"] = 13
  BY DEF S!Offset
<1>3. \A x \in on : S!Offset[x] \in {12, 13}
  BY <1>2 DEF S!Outputs
<1>4. \A o \in 7 .. 11 : g[o] = f[o]
  BY <1>3 DEF Files
<1>5. g[12] = IF "effect" \in on THEN 1 ELSE f[12]
  BY <1>2 DEF Files, S!Outputs
<1>6. g[13] = IF "sound" \in on THEN 1 ELSE f[13]
  BY <1>2 DEF Files, S!Outputs
<1>7. S!LoadedAlarm(g) = S!LoadedAlarm(f)
  BY <1>4 DEF S!LoadedAlarm
<1>8. S!LoadedState(g) = S!LoadedState(f) \union on
  <2>1. on = (IF "effect" \in on THEN {"effect"} ELSE {})
                \union (IF "sound" \in on THEN {"sound"} ELSE {})
    BY DEF S!Outputs
  <2> QED BY <1>5, <1>6, <2>1 DEF S!LoadedState
<1> QED BY <1>1, <1>7, <1>8

\* The next minute is a minute of the day.
LEMMA MinuteOfDay ==
    ASSUME clock \in S!Times, S!Tick
    PROVE  clock' \in S!Times
<1>1. clock[1] \in 0 .. Hours - 1 /\ clock[2] \in 0 .. Minutes - 1
  BY DEF S!Times
<1>2. (clock[1] + 1) % Hours \in 0 .. Hours - 1
  BY <1>1, DayAssumption DEF DayAssumption
<1>3. clock[2] < Minutes - 1 => clock[2] + 1 \in 0 .. Minutes - 1
  BY <1>1, DayAssumption DEF DayAssumption
<1>4. 0 \in 0 .. Minutes - 1
  BY DayAssumption DEF DayAssumption
<1> QED BY <1>1, <1>2, <1>3, <1>4 DEF S!Tick, S!Times

-------------------------------------------------------------------------------
(* The invariant: a restart reads what is in use.  It needs no strengthening    *)
(* but the types.                                                              *)

ScheduleTyped ==
    /\ clock \in S!Times
    /\ Alarm \in S!Alarms
    /\ running \subseteq S!Outputs
    /\ settings \in Files

ScheduleInv == ScheduleTyped /\ S!RestartKeeps

\* The defaults the first boot writes are an alarm that is off and both outputs on.
LEMMA FactoryDefaults ==
    /\ S!Factory \in Files
    /\ S!LoadedAlarm(S!Factory) \in S!Alarms
    /\ S!LoadedState(S!Factory) \subseteq S!Outputs
<1>1. S!Factory \in Files
  BY DEF S!Factory, Files
<1>2. S!LoadedAlarm(S!Factory) \in S!Alarms
  <2>1. S!LoadedAlarm(S!Factory) = [On |-> <<0, 0>>, Off |-> <<0, 0>>, Event |-> 0]
    BY DEF S!LoadedAlarm, S!Factory
  <2>2. <<0, 0>> \in S!Times
    BY DayAssumption DEF DayAssumption, S!Times
  <2> QED BY <2>1, <2>2 DEF S!Alarms
<1> QED BY <1>1, <1>2 DEF S!LoadedState, S!Outputs

LEMMA InitScheduleInv == S!Init => ScheduleInv
BY FactoryDefaults DEF S!Init, ScheduleInv, ScheduleTyped, S!RestartKeeps

\* A poll, whether or not an alarm's minute has come.
LEMMA PollScheduleInv ==
    ASSUME ScheduleInv, S!Poll
    PROVE  ScheduleInv'
<1> USE DEF ScheduleInv, ScheduleTyped, S!RestartKeeps
<1>1. S!Switched(Alarm.Event) \subseteq S!Outputs
  BY SwitchedOutputs DEF S!Alarms
<1>2. CASE S!StartsAlarm
  <2>1. /\ settings' \in Files
        /\ S!LoadedAlarm(settings') = S!LoadedAlarm(settings)
        /\ S!LoadedState(settings') = S!LoadedState(settings) \union S!Switched(Alarm.Event)
    BY <1>1, <1>2, StartedFile DEF S!StartsAlarm
  <2> QED BY <1>1, <1>2, <2>1 DEF S!Poll, S!StartsAlarm
<1>3. CASE S!EndsAlarm
  BY <1>3 DEF S!Poll, S!EndsAlarm, S!LoadedAlarm, S!LoadedState
<1>4. CASE S!NoAlarm
  BY <1>4 DEF S!Poll, S!NoAlarm, S!LoadedAlarm, S!LoadedState
<1> QED BY <1>2, <1>3, <1>4 DEF S!Poll

\* What the control page and the alarm page send.
LEMMA PostScheduleInv ==
    ASSUME ScheduleInv, S!PostAlarm \/ S!PostState
    PROVE  ScheduleInv'
<1> USE DEF ScheduleInv, ScheduleTyped, S!RestartKeeps
<1>1. CASE S!PostAlarm
  <2>1. PICK a \in S!Alarms : Alarm' = a /\ settings' = S!AlarmSaved(settings, a)
    BY <1>1 DEF S!PostAlarm
  <2> QED BY <1>1, <2>1, SavedAlarm DEF S!PostAlarm
<1>2. CASE S!PostState
  <2>1. PICK x \in S!Outputs, on \in BOOLEAN :
           /\ running' = IF on THEN running \union {x} ELSE running \ {x}
           /\ settings' = S!Saved(settings, x, on)
    BY <1>2 DEF S!PostState
  <2>2. /\ settings' \in Files
        /\ S!LoadedAlarm(settings') = S!LoadedAlarm(settings)
        /\ S!LoadedState(settings') = IF on THEN S!LoadedState(settings) \union {x}
                                ELSE S!LoadedState(settings) \ {x}
    BY <2>1, SavedState
  <2> QED BY <1>2, <2>1, <2>2 DEF S!PostState
<1> QED BY <1>1, <1>2

LEMMA NextScheduleInv == ScheduleInv /\ [S!Next]_S!vars => ScheduleInv'
<1> SUFFICES ASSUME ScheduleInv, [S!Next]_S!vars PROVE ScheduleInv'
  OBVIOUS
<1> USE DEF ScheduleInv, ScheduleTyped, S!RestartKeeps
<1>1. CASE S!Poll
  BY <1>1, PollScheduleInv
<1>2. CASE S!Tick
  BY <1>2, MinuteOfDay DEF S!Tick, S!LoadedAlarm, S!LoadedState
<1>3. CASE S!Sync \/ S!WifiChanges
  BY <1>3 DEF S!Sync, S!WifiChanges, S!LoadedAlarm, S!LoadedState
<1>4. CASE S!PostAlarm \/ S!PostState
  BY <1>4, PostScheduleInv
<1>5. CASE S!Reboot
  <2>1. S!LoadedState(settings) \subseteq S!Outputs
    BY DEF S!LoadedState, S!Outputs
  <2> QED BY <1>5, <2>1 DEF S!Reboot, S!LoadedAlarm, S!LoadedState
<1>6. CASE UNCHANGED S!vars
  BY <1>6 DEF S!vars, S!LoadedAlarm, S!LoadedState
<1> QED BY <1>1, <1>2, <1>3, <1>4, <1>5, <1>6 DEF S!Next

\* A restart reads the alarm in use, and switches on all that is on.
THEOREM RestartReads == S!Spec => []S!RestartKeeps
<1>1. ScheduleInv => S!RestartKeeps
  BY DEF ScheduleInv
<1> QED BY InitScheduleInv, NextScheduleInv, <1>1, PTL DEF S!Spec

-------------------------------------------------------------------------------
(* The composition.                                                              *)

\* Every pass is a step of WifiLink, or changes nothing of it.
LEMMA WifiSteps == LoopSpec => Spec
<1>1. LoopInit => Init
  BY DEF LoopInit
<1>2. [LoopNext]_all => [Next]_vars
  <2> SUFFICES ASSUME [LoopNext]_all PROVE [Next]_vars
    OBVIOUS
  <2>1. CASE WifiPoll
    BY <2>1 DEF WifiPoll, Next
  <2>2. CASE AlarmPoll \/ NextMinute \/ ClockSet \/ ScheduleSet
    <3>1. UNCHANGED wifi /\ wifi_status' = wifi_status
      BY <2>2 DEF AlarmPoll, NextMinute, ClockSet, ScheduleSet,
                  S!Poll, S!Tick, S!Sync, S!PostAlarm, S!PostState
    <3> QED BY <3>1 DEF wifi, vars
  <2>3. CASE TimerCounts \/ TimerCloses \/ TimerConnects
    BY <2>3 DEF TimerCounts, TimerCloses, TimerConnects, Next
  <2>4. CASE Radio \/ WifiSet
    BY <2>4 DEF Radio, WifiSet, Next
  <2>5. CASE Restart
    BY <2>5 DEF Restart, Next
  <2>6. CASE UNCHANGED all
    BY <2>6 DEF all, wifi, vars
  <2> QED BY <2>1, <2>2, <2>3, <2>4, <2>5, <2>6 DEF LoopNext
<1> QED BY <1>1, <1>2, PTL DEF LoopSpec, Spec

\* What is proved of the wifi holds in the loop.
THEOREM LoopTypeCorrect == LoopSpec => []TypeOK
BY WifiSteps, LinkTypeCorrect, PTL

\* The access point is there until the device has been on the network.
THEOREM LoopApStays == LoopSpec => []ApUntilLinked
BY WifiSteps, ApStays, PTL

\* What the station tries or has is what the next boot will try, unless newer
\* credentials are about to be used.
THEOREM LoopLinkSaved == LoopSpec => []LinkIsSaved
BY WifiSteps, LinkSaved, PTL

-------------------------------------------------------------------------------
\* A poll of the wifi leaves wifi_status, or makes the change Schedule allows for.
LEMMA WifiPollSteps ==
    ASSUME TypeOK, WifiPoll
    PROVE  S!WifiChanges \/ UNCHANGED S!vars
<1>1. UNCHANGED schedule /\ wifi_status' \in BOOLEAN /\ wifi_status \in BOOLEAN
  BY Zenon DEF WifiPoll, Poll, TypeOK
<1>2. CASE wifi_status' = wifi_status
  BY <1>1, <1>2 DEF schedule, S!vars
<1>3. CASE wifi_status' # wifi_status
  <2>1. wifi_status' = ~wifi_status
    BY <1>1, <1>3, Zenon
  <2> QED BY <1>1, <2>1, Zenon DEF schedule, S!WifiChanges
<1> QED BY <1>2, <1>3

\* Every pass is a step of Schedule, or changes nothing of it.
LEMMA ScheduleSteps == LoopSpec => S!Spec
<1>1. LoopInit => S!Init
  BY DEF LoopInit
<1>2. TypeOK /\ [LoopNext]_all => [S!Next]_S!vars
  <2> SUFFICES ASSUME TypeOK, [LoopNext]_all PROVE [S!Next]_S!vars
    OBVIOUS
  <2>1. CASE AlarmPoll \/ NextMinute \/ ClockSet \/ ScheduleSet
    BY <2>1 DEF AlarmPoll, NextMinute, ClockSet, ScheduleSet, S!Next
  <2>2. CASE Restart
    BY <2>2 DEF Restart, S!Next
  <2>3. CASE WifiPoll
    BY <2>3, WifiPollSteps DEF S!Next
  <2>4. CASE TimerCounts \/ TimerCloses \/ TimerConnects
    BY <2>4 DEF TimerCounts, TimerCloses, TimerConnects, ClosingTime, CloseAP, Connect,
                schedule, S!vars
  <2>5. CASE Radio \/ WifiSet
    BY <2>5 DEF Radio, WifiSet, StationChanges, NothingToFind, PostWifi, Wipe,
                schedule, S!vars
  <2>6. CASE UNCHANGED all
    BY <2>6 DEF all, schedule, S!vars
  <2> QED BY <2>1, <2>2, <2>3, <2>4, <2>5, <2>6 DEF LoopNext
<1> QED BY <1>1, <1>2, LoopTypeCorrect, PTL DEF LoopSpec, S!Spec

\* A restart of the device reads the alarm in use, and switches on all that is on.
THEOREM LoopRestartReads == LoopSpec => []RestartKeeps
BY ScheduleSteps, RestartReads, PTL DEF RestartKeeps
===============================================================================
