------------------------------ MODULE MCStatusLed ------------------------------
(* StatusLed with short times: a long and a short blink, lit, dark. *)
EXTENDS StatusLed

Timed(on, off) == [Brightness |-> DutyMax, On |-> on, Off |-> off, Repeat |-> -1]
MCConfigs == {Timed(2, 3), Timed(3, 0), Timed(1, 0), Timed(0, 1), Timed(0, 3)}
===============================================================================
