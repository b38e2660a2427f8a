------------------------------- MODULE WifiLink --------------------------------
(* The device on the wifi: its access point, its station, the timers that close *)
(* the one and connect the other, and the credentials in RAM and in /wifi.txt,  *)
(* as main.c handles them in setup, in loop, on POST {"api_type":"wifi"} and on *)
(* the front panel's wipe.  The SDK decides how a connection attempt ends.      *)
EXTENDS Naturals

CONSTANTS Credentials,  \* what a request can set
          None,         \* an empty SSID
          CloseDelay    \* time until timer_close_AP fires (60 s), in loop polls

ASSUME WifiAssumption == /\ None \notin Credentials
                         /\ CloseDelay \in Nat \ {0}

VARIABLES
    mode,         \* wifi_set_opmode
    station_conf, \* the credentials in RAM
    file,         \* /wifi.txt
    using,        \* the configuration the station was given last
    status,       \* wifi_station_get_connect_status
    wifi_status,  \* what loop() made of it
    closing,      \* timer_close_AP: polls left, or Idle
    connecting,   \* timer_connect_AP is armed
    linked,       \* history: a poll has seen an address in this boot
    wiped         \* history: a wipe, and no poll has seen an address since

conf == <<station_conf, file>>
link == <<using, status>>
vars == <<mode, conf, link, wifi_status, closing, connecting, linked, wiped>>

Idle == CloseDelay + 1    \* the timer is not armed

\* WRONG_PASSWORD, NO_AP_FOUND and CONNECT_FAIL are one to loop().
Failed == "FAILED"
Statuses == {"IDLE", "CONNECTING", "GOT_IP", Failed}

-------------------------------------------------------------------------------
\* setup(): the access point is on, and the station connects if there is an SSID.
Boot(saved) ==
    /\ mode' = "STATIONAP"
    /\ station_conf' = saved
    /\ using' = saved
    /\ status' = IF saved # None THEN "CONNECTING" ELSE "IDLE"
    /\ wifi_status' = FALSE
    /\ closing' = Idle
    /\ connecting' = FALSE
    /\ linked' = FALSE
    /\ wiped' = FALSE

Init ==
    /\ file \in Credentials \union {None}
    /\ mode = "STATIONAP"
    /\ station_conf = file
    /\ using = file
    /\ status = IF file # None THEN "CONNECTING" ELSE "IDLE"
    /\ wifi_status = FALSE
    /\ closing = Idle
    /\ connecting = FALSE
    /\ linked = FALSE
    /\ wiped = FALSE

\* A power cycle, or a restart after an update.
Reboot == UNCHANGED file /\ Boot(file)

\* The station gets an address, fails, loses its link or tries again.
StationChanges ==
    /\ status # "IDLE"
    /\ using # None
    /\ status' \in Statuses \ {"IDLE", status}
    /\ UNCHANGED <<mode, conf, using, wifi_status, closing, connecting, linked, wiped>>

\* An attempt with an empty SSID finds nothing.
NothingToFind ==
    /\ status = "CONNECTING"
    /\ using = None
    /\ status' = Failed
    /\ UNCHANGED <<mode, conf, using, wifi_status, closing, connecting, linked, wiped>>

\* Fault: the poll takes an attempt for an address.
HasAttempt == status = "CONNECTING"

HasAddress == status = "GOT_IP"

Minute == CloseDelay

\* loop(), every five seconds; the first poll that sees an address arms the timer
\* that closes the access point.
Poll ==
    /\ IF HasAddress
       THEN /\ closing' = IF wifi_status THEN closing ELSE Minute
            /\ wifi_status' = TRUE
       ELSE /\ wifi_status' = (wifi_status /\ status = "CONNECTING")
            /\ UNCHANGED closing
    /\ linked' = (linked \/ status = "GOT_IP")
    /\ wiped' = (wiped /\ status # "GOT_IP")
    /\ UNCHANGED <<mode, conf, link, connecting>>

\* timer_close_AP counts down, and fires.
ClosingTime ==
    /\ closing \in 1 .. CloseDelay
    /\ closing' = closing - 1
    /\ UNCHANGED <<mode, conf, link, wifi_status, connecting, linked, wiped>>

CloseAP ==
    /\ closing = 0
    /\ closing' = Idle
    /\ mode' = "STATION"
    /\ UNCHANGED <<conf, link, wifi_status, connecting, linked, wiped>>

\* Fault: the credentials are not written.
NotWritten == file

Written == station_conf'

\* POST {"api_type":"wifi"}: the page sends both the SSID and the password.
PostWifi ==
    /\ \E c \in Credentials : station_conf' = c
    /\ file' = Written
    /\ connecting' = TRUE
    /\ UNCHANGED <<mode, link, wifi_status, closing, linked, wiped>>

\* timer_connect_AP_callback.
Connect ==
    /\ connecting
    /\ connecting' = FALSE
    /\ using' = station_conf
    /\ status' = "CONNECTING"
    /\ UNCHANGED <<mode, conf, wifi_status, closing, linked, wiped>>

\* firework_clear_param_cb, second stage.
Wipe ==
    /\ station_conf' = None
    /\ file' = None
    /\ status' = "IDLE"
    /\ mode' = "STATIONAP"
    /\ wiped' = TRUE
    /\ UNCHANGED <<using, wifi_status, closing, connecting, linked>>

Next == StationChanges \/ NothingToFind \/ Poll \/ ClosingTime \/ CloseAP
          \/ PostWifi \/ Connect \/ Wipe \/ Reboot

Spec == Init /\ [][Next]_vars
-------------------------------------------------------------------------------
(* Properties.                                                                 *)

TypeOK ==
    /\ mode \in {"STATIONAP", "STATION"}
    /\ {station_conf, file, using} \subseteq Credentials \union {None}
    /\ status \in Statuses
    /\ wifi_status \in BOOLEAN
    /\ closing \in 0 .. Idle
    /\ connecting \in BOOLEAN
    /\ linked \in BOOLEAN
    /\ wiped \in BOOLEAN

\* A device that has not been on the network in this boot can be reached through
\* its access point: only a link closes it.
ApUntilLinked == ~linked => mode = "STATIONAP" /\ closing = Idle

\* What the station tries or has is what the next boot will try, unless newer
\* credentials are about to be used.
LinkIsSaved == status # "IDLE" /\ ~connecting => using = file

\* A link that lasts closes the access point.  (A wipe is left out: when another
\* link is up before the next poll, wifi_status never fell and no timer is armed.)
LinkClosesAp ==
    [](~wiped) /\ <>[](status = "GOT_IP") => <>[](mode = "STATION")

\* "Clear the wifi in use and bring the access point back" (source/main.c:970).
ApBackOn == wiped => mode = "STATIONAP"
===============================================================================
