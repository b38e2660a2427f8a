------------------------------- MODULE MainLoop --------------------------------
(* WifiLink and Schedule as loop() of main.c runs them, one after the other in   *)
(* every pass: the one sets wifi_status, the other looks at the clock only while *)
(* it is set.  A restart is one restart of both.                                 *)
EXTENDS WifiLink, DayTime

VARIABLES clock, polled, Alarm, running,
          settings    \* /param.txt; WifiLink's file is /wifi.txt

S == INSTANCE Schedule WITH file <- settings

wifi == <<mode, conf, link, closing, connecting, linked, wiped>>
schedule == <<clock, polled, Alarm, running, settings>>
all == <<wifi, wifi_status, schedule>>

-------------------------------------------------------------------------------
LoopInit == Init /\ S!Init

WifiPoll == Poll /\ UNCHANGED schedule
AlarmPoll == S!Poll /\ UNCHANGED wifi
NextMinute == S!Tick /\ UNCHANGED wifi
TimerCounts == ClosingTime /\ UNCHANGED schedule
TimerCloses == CloseAP /\ UNCHANGED schedule
TimerConnects == Connect /\ UNCHANGED schedule

\* What the network, the web page and the panel do meanwhile.
Radio == (StationChanges \/ NothingToFind) /\ UNCHANGED schedule
WifiSet == (PostWifi \/ Wipe) /\ UNCHANGED schedule
ClockSet == S!Sync /\ UNCHANGED wifi
ScheduleSet == (S!PostAlarm \/ S!PostState) /\ UNCHANGED wifi

Restart == Reboot /\ S!Reboot

LoopNext == WifiPoll \/ AlarmPoll \/ NextMinute \/ TimerCounts \/ TimerCloses
              \/ TimerConnects \/ Radio \/ WifiSet \/ ClockSet \/ ScheduleSet \/ Restart

LoopSpec == LoopInit /\ [][LoopNext]_all

\* loop() goes on, the SDK's timers fire, time passes.
LoopLive == LoopSpec /\ WF_all(WifiPoll) /\ WF_all(AlarmPoll) /\ WF_all(NextMinute)
              /\ WF_all(TimerCounts) /\ WF_all(TimerCloses) /\ WF_all(TimerConnects)
-------------------------------------------------------------------------------
(* Properties.                                                                 *)

\* A restart loses neither the alarm nor what is on: S!RestartKeeps.
RestartKeeps == S!RestartKeeps

\* A device that is left alone and whose link lasts runs its alarm: the poll finds
\* the link, sets wifi_status and keeps it set, and so each output that the alarm's
\* event is named for goes on and off day after day, unless On and Off are one minute.
LeftAlone == <>[][WifiPoll \/ AlarmPoll \/ NextMinute \/ TimerCounts \/ TimerCloses]_all
LinkRunsAlarm ==
    LeftAlone /\ <>[](status = "GOT_IP") => \A x \in S!Outputs :
        /\ []<>(S!Covers(x) => x \in running)
        /\ []<>(S!Covers(x) => x \notin running)

\* The events are None, Sound, Effect and Both (source/main.c:38), and the page offers
\* sound alone and effect alone: an alarm switches nothing that its event does not name.
AlarmSwitchesMeant ==
    [][AlarmPoll => \A x \in S!Outputs :
         (x \in running) # (x \in running') => x \in S!Meant(Alarm.Event)]_all
===============================================================================
