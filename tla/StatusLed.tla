------------------------------- MODULE StatusLed -------------------------------
(* One status LED of ezform.c: Application_Led_Handler, called by the hardware   *)
(* timer's interrupt every millisecond, between the stores of                    *)
(* Application_Led_Config.  The members are not volatile, so the compiler may    *)
(* put the four stores in any order; the interrupt can come between any two.     *)
(* The LEDs share two variables that the handler sets before it reads them.      *)
(* Left out: a LED without an output driver (all three have one).                *)
EXTENDS Integers

CONSTANTS
    Configs,   \* the configurations that the forms ask for
    DutyMax,   \* LED_DUTY_MAX
    Wrap       \* the millisecond counter wraps here (2^32)

Members == {"Brightness", "On", "Off", "Repeat"}

\* Every call of main.c asks for full brightness and for blinking without end.
ASSUME LedAssumption ==
    /\ DutyMax \in Nat \ {0} /\ Wrap \in Nat \ {0}
    /\ Configs \subseteq [Brightness : {DutyMax}, On : Nat, Off : Nat, Repeat : {-1}]
    /\ \A c, d \in Configs : c.On + d.Off < Wrap

VARIABLES
    tick,      \* __tick_ms_counter
    set,       \* Brightness, Time.On, Time.Off and Repeat of the LED
    interval,  \* Interval.On and Interval.Off: when the two phases began
    duty,      \* DutyCounter
    out,       \* the pin
    want,      \* the configuration being stored, or stored last ...
    todo,      \* ... and the members still to store
    fresh,     \* history: the interrupt has come since a member changed
    whole,     \* history: a round has begun since a member changed
    age        \* history: ticks since the pin changed or a round began

main == <<want, todo>>
history == <<fresh, whole, age>>
vars == <<tick, set, interval, duty, out, main, history>>

\* The LED before its first configuration: a global variable.
Zero == [Brightness |-> 0, On |-> 0, Off |-> 0, Repeat |-> 0]

\* Differences and sums of 32-bit times.
Since(now, then) == IF now >= then THEN now - then ELSE now + Wrap - then
After(now, t) == IF now + t < Wrap THEN now + t ELSE now + t - Wrap
Now == After(tick, 1)

-------------------------------------------------------------------------------
(* The interrupt.                                                              *)

\* Fault: the on phase is counted from where the off phase begins.
InOnFromOff == Since(Now, interval.Off) < set.On

InOn == Since(Now, interval.On) < set.On
InOff == ~InOn /\ Since(Now, interval.Off) < set.Off

Drive(lit) ==
    /\ tick' = Now
    /\ out' = (duty < set.Brightness /\ lit)
    /\ duty' = IF duty + 1 >= DutyMax THEN 0 ELSE duty + 1
    /\ fresh' = TRUE
    /\ UNCHANGED main

\* A LED with Repeat 0 is left as it is.
InterruptIdle ==
    /\ set.Repeat = 0
    /\ tick' = Now
    /\ UNCHANGED <<set, interval, duty, out, main, history>>

InterruptInPhase ==
    /\ set.Repeat # 0 /\ (InOn \/ InOff)
    /\ Drive(InOn)
    /\ age' = IF out' = out THEN age + 1 ELSE 1
    /\ UNCHANGED <<set, interval, whole>>

\* Fault: a round begins lit though the on time is 0.
NewRoundLit ==
    /\ set.Repeat # 0 /\ ~InOn /\ ~InOff
    /\ Drive(TRUE)
    /\ interval' = [On |-> Now, Off |-> After(Now, set.On)]
    /\ whole' = TRUE /\ age' = 1
    /\ UNCHANGED set

\* Fault: the off phase is counted from the beginning of the round.
NewRoundOffNow ==
    /\ set.Repeat # 0 /\ ~InOn /\ ~InOff
    /\ Drive(set.On > 0)
    /\ interval' = [On |-> Now, Off |-> Now]
    /\ whole' = TRUE /\ age' = 1
    /\ UNCHANGED set

\* Both phases are over, or a new configuration has left neither.
InterruptNewRound ==
    /\ set.Repeat # 0 /\ ~InOn /\ ~InOff
    /\ Drive(set.On > 0)
    /\ interval' = [On |-> Now, Off |-> After(Now, set.On)]
    /\ set' = IF set.Repeat > 0 THEN [set EXCEPT !.Repeat = @ - 1] ELSE set
    /\ whole' = TRUE /\ age' = 1

Interrupt == InterruptIdle \/ InterruptInPhase \/ InterruptNewRound

-------------------------------------------------------------------------------
(* loop(): a form configures the LED.                                          *)

Configure ==
    /\ todo = {}
    /\ \E c \in Configs : want' = c
    /\ todo' = Members
    /\ UNCHANGED <<tick, set, interval, duty, out, history>>

Store(m) ==
    /\ m \in todo
    /\ todo' = todo \ {m}
    /\ set' = [set EXCEPT ![m] = want[m]]
    /\ fresh' = (fresh /\ set' = set)
    /\ whole' = (whole /\ set' = set)
    /\ UNCHANGED <<tick, interval, duty, out, want, age>>

-------------------------------------------------------------------------------
Init ==
    /\ tick = 0 /\ duty = 0 /\ out = FALSE
    /\ set = Zero
    /\ interval = [On |-> 0, Off |-> 0]
    /\ want = Zero /\ todo = {}
    /\ fresh = FALSE /\ whole = FALSE /\ age = 0

Next == Interrupt \/ Configure \/ \E m \in Members : Store(m)

Spec == Init /\ [][Next]_vars

\* The timer is armed once and for all.
LiveSpec == Spec /\ WF_vars(Interrupt)

-------------------------------------------------------------------------------
(* Properties.                                                                 *)

TypeOK ==
    /\ tick \in 0 .. Wrap - 1
    /\ set \in [Brightness : {0, DutyMax}, On : Nat, Off : Nat, Repeat : {-1, 0}]
    /\ interval \in [On : 0 .. Wrap - 1, Off : 0 .. Wrap - 1]
    /\ duty \in 0 .. DutyMax - 1
    /\ out \in BOOLEAN /\ fresh \in BOOLEAN /\ whole \in BOOLEAN
    /\ want \in Configs \union {Zero} /\ todo \subseteq Members
    /\ age \in Nat

\* What the members say, whole or half stored, the pin shows from the next tick
\* on, whatever the phase that the LED was in before: a LED with no off time is
\* lit, a LED with no on time is dark.  So a half-stored configuration never
\* makes a LED flash that is to stay lit, or dark, before and after.
Shown ==
    fresh => /\ set.On > 0 /\ set.Off = 0 /\ set.Brightness = DutyMax => out
             /\ set.On = 0 => ~out

\* Through the wrap of the counter, and after any other configuration, each phase
\* of a blink takes its time to the tick, from the first round on.
ExactBlink ==
    [][out' # out /\ whole /\ whole' => age = IF out THEN set.On ELSE set.Off]_vars

\* A LED that is set to blink blinks.
BlinkGoesOn ==
    \A c \in Configs : c.On > 0 /\ c.Off > 0 =>
        (<>[](set = c) => []<>out /\ []<>~out)
===============================================================================
