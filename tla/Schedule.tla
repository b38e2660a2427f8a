------------------------------- MODULE Schedule --------------------------------
(* The daily alarm of main.c and what it switches: the effect and the sound,     *)
(* which the control page switches too.  Both, and the alarm itself, are kept in *)
(* bytes 7 to 13 of /param.txt; bytes 0 to 6 are PanelUi's.                      *)
EXTENDS DayTime, Sequences

VARIABLES
    clock,        \* realtime_get: <<hour, minute>>
    polled,       \* loop() has read this minute
    wifi_status,  \* kept by WifiLink: without it the alarm looks at no clock
    Alarm,        \* VarSaveFlash.Alarm: On, Off and Event
    running,      \* Firework_State: what is on of "effect" and "sound"
    file          \* /param.txt, byte by byte

vars == <<clock, polled, wifi_status, Alarm, running, file>>

Outputs == {"effect", "sound"}
Alarms == [On : Times, Off : Times, Event : 0 .. 3]

-------------------------------------------------------------------------------
(* /param.txt.  fopen(.., "w") does not truncate: a write replaces its bytes.   *)

\* Fault: the two flags trade places.
Swapped == [effect |-> 13, sound |-> 12]

Offset == [effect |-> 12, sound |-> 13]

Flag(on) == IF on THEN 1 ELSE 0

\* The alarm's bytes.
Buffer(a) == <<a.On[1], a.On[2], a.Off[1], a.Off[2], a.Event>>

\* POST {"api_type":"alarm"} writes them.
AlarmSaved(f, a) == [o \in DOMAIN f |-> IF o \in 7 .. 11 THEN Buffer(a)[o - 6] ELSE f[o]]

\* What setup() makes of the file.
LoadedAlarm(f) ==
    [On |-> <<f[7], f[8]>>, Off |-> <<f[9], f[10]>>, Event |-> f[11]]
LoadedState(f) == (IF f[12] # 0 THEN {"effect"} ELSE {})
                     \union (IF f[13] # 0 THEN {"sound"} ELSE {})

\* save_state_effect and save_state_sound.
Saved(f, x, on) == [f EXCEPT ![Offset[x]] = Flag(on)]

-------------------------------------------------------------------------------
(* The alarm's switch statement.  Its cases have no break: an event runs on      *)
(* through the cases after its own.                                              *)

Case == <<{"sound"}, {"effect"}, {"effect", "sound"}>>

Switched(event) ==
    IF event = 0 THEN {} ELSE UNION {Case[c] : c \in event .. Len(Case)}

\* Fault: the hour alone is compared.
SameHour(now, time) == now[1] = time[1]

SameMinute(now, time) == now = time

\* The alarm's On minute: switched on, and saved ...
StartsAlarm ==
    /\ wifi_status
    /\ SameMinute(clock, Alarm.On)
    /\ running' = running \union Switched(Alarm.Event)
    /\ file' = [o \in DOMAIN file |->
                    IF \E x \in Switched(Alarm.Event) : o = Offset[x]
                    THEN 1 ELSE file[o]]

\* ... and its Off minute, if it is another one: switched off, and not saved.
EndsAlarm ==
    /\ wifi_status
    /\ ~SameMinute(clock, Alarm.On)
    /\ SameMinute(clock, Alarm.Off)
    /\ running' = running \ Switched(Alarm.Event)
    /\ UNCHANGED file

NoAlarm ==
    /\ \/ ~wifi_status
       \/ ~SameMinute(clock, Alarm.On) /\ ~SameMinute(clock, Alarm.Off)
    /\ UNCHANGED <<running, file>>

\* loop() reads the clock every 500 ms.
Poll ==
    /\ StartsAlarm \/ EndsAlarm \/ NoAlarm
    /\ polled' = TRUE
    /\ UNCHANGED <<clock, wifi_status, Alarm>>

\* The next minute: a minute has many polls.
Tick ==
    /\ polled
    /\ clock' = IF clock[2] < Minutes - 1 THEN <<clock[1], clock[2] + 1>>
                ELSE <<(clock[1] + 1) % Hours, 0>>
    /\ polled' = FALSE
    /\ UNCHANGED <<wifi_status, Alarm, running, file>>

\* The SNTP client sets the clock.
Sync ==
    /\ clock' \in Times
    /\ polled' = FALSE
    /\ UNCHANGED <<wifi_status, Alarm, running, file>>

WifiChanges ==
    /\ wifi_status' = ~wifi_status
    /\ UNCHANGED <<clock, polled, Alarm, running, file>>

\* POST {"api_type":"alarm"}: the page sends the five fields, the event last.
PostAlarm ==
    /\ \E a \in Alarms : Alarm' = a
    /\ file' = AlarmSaved(file, Alarm')
    /\ UNCHANGED <<clock, polled, wifi_status, running>>

\* POST {"api_type":"cled"} and {"api_type":"csound"}.
PostState ==
    /\ \E x \in Outputs, on \in BOOLEAN :
          /\ running' = IF on THEN running \union {x} ELSE running \ {x}
          /\ file' = Saved(file, x, on)
    /\ UNCHANGED <<clock, polled, wifi_status, Alarm>>

\* setup() finds an empty file on the first boot and writes the defaults.
Factory == [o \in 7 .. 13 |-> IF o \in {12, 13} THEN 1 ELSE 0]

Init ==
    /\ clock \in Times
    /\ polled = FALSE
    /\ wifi_status = FALSE
    /\ file = Factory
    /\ Alarm = LoadedAlarm(Factory)
    /\ running = LoadedState(Factory)

\* A power cycle, or a restart after an update.
Reboot ==
    /\ clock' \in Times
    /\ polled' = FALSE
    /\ wifi_status' = FALSE
    /\ Alarm' = LoadedAlarm(file)
    /\ running' = LoadedState(file)
    /\ UNCHANGED file

Next == Poll \/ Tick \/ Sync \/ WifiChanges \/ PostAlarm \/ PostState \/ Reboot

Spec == Init /\ [][Next]_vars
-------------------------------------------------------------------------------
(* Properties.                                                                 *)

TypeOK ==
    /\ clock \in Times
    /\ polled \in BOOLEAN /\ wifi_status \in BOOLEAN
    /\ Alarm \in Alarms
    /\ running \subseteq Outputs
    /\ DOMAIN file = 7 .. 13
    /\ LoadedAlarm(file) \in Alarms /\ {file[12], file[13]} \subseteq 0 .. 1

\* A restart loses neither the alarm nor what is on: everything that switches the
\* effect or the sound on saves it where setup() reads it.  (What the alarm's Off
\* minute switched off comes back on: only the control page saves that.)
RestartKeeps ==
    /\ LoadedAlarm(file) = Alarm
    /\ running \subseteq LoadedState(file)

\* TimeRun_Events: the outputs that an event is named for.
Meant(event) == {x \in Outputs : event = 3 \/ event = IF x = "sound" THEN 1 ELSE 2}

\* The alarm's event is named for this output, and On and Off are not one minute.
Covers(x) == Alarm.On # Alarm.Off /\ x \in Meant(Alarm.Event)
===============================================================================
