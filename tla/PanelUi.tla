-------------------------------- MODULE PanelUi --------------------------------
(* The front panel: Application_Run of ezform.c (software timers, debounced    *)
(* keys, forms) with the callbacks main.c gives it: three keys, the timer they *)
(* share (stimer1), the timer that clears the wifi settings, and six forms, of *)
(* which five change a parameter.  A pass of Application_Run is six steps, one *)
(* for each timer, each key and the form; the pins may change between any two. *)
(* Web requests are served between two passes, and no pass runs while a        *)
(* firmware upload is in progress.  What a form shows on the LEDs is left out. *)
EXTENDS Naturals

CONSTANTS LedTypes,      \* the LED types in play, "LED_6803" and "LED_1903" included
          Hi,            \* the largest value of each numeric parameter; the least is 1
          Debounce,      \* key_*.Debounce.TimeMs    (20 ms)
          RepeatValue,   \* value repetition         (100 ms)
          HoldValue,     \* hold before it repeats   (1500 ms)
          Confirm,       \* second stage of a wipe   (2000 ms)
          HoldMode,      \* hold before setup        (3000 ms)
          HoldClear      \* first stage of a wipe    (5000 ms)

Fields == {"SizeCot", "SizeTia", "SpeedCot", "SpeedTia"}

ASSUME PanelAssumption ==
    /\ {"LED_6803", "LED_1903"} \subseteq LedTypes
    /\ Hi \in [Fields -> Nat \ {0}]
    /\ {Debounce, RepeatValue, HoldValue, Confirm, HoldMode} \subseteq 1 .. HoldClear
    /\ HoldClear \in Nat

VARIABLES
    at,            \* where the pass of Application_Run is
    form, next,    \* app_firework.Form.Running and .Next
    key,           \* key_set, key_up, key_down
    stimer1,       \* the timer the keys share
    stimer_clear,  \* stimer_clear_param
    state_clear,   \* the static of firework_clear_param_cb
    ram,           \* DataSaveRam
    saved,         \* /param.txt
    wifi,          \* are there wifi credentials (in RAM and in /wifi.txt alike)
    uploading,     \* upload_state.state # FW_UPDATE_START
    setHeld,       \* history: time since SET was pressed in form_run, up to HoldMode,
                   \* or NoHold when it is not held since
    downHeld,      \* history: time since DOWN was pressed in form_run, or NoHold
                   \* when no press is left that has not led to a wipe
    unsaved        \* history: parameters set by a request, or left by a wipe
                   \* out of setup, and not saved since

timers == <<stimer1, stimer_clear, state_clear>>
params == <<ram, saved, unsaved>>
hist   == <<setHeld, downHeld>>
vars   == <<at, form, next, key, timers, params, wifi, uploading, hist>>

-------------------------------------------------------------------------------
(* Data.                                                                       *)

Keys == {"set", "up", "down"}

\* The steps of a pass, in the order the controls were added in setup().
After == [stimer1 |-> "clear", clear |-> "set", set |-> "up", up |-> "down",
          down |-> "form", form |-> "stimer1"]

\* Fault: setup ends before the form that saves.
FollowingShort == [set_type_led |-> "set_cot", set_cot |-> "set_tia",
                   set_tia |-> "set_td_cot", set_td_cot |-> "run",
                   set_td_tia |-> "run"]

\* The form that follows each form when SET is pressed.
Following == [set_type_led |-> "set_cot", set_cot |-> "set_tia",
              set_tia |-> "set_td_cot", set_td_cot |-> "set_td_tia",
              set_td_tia |-> "run"]
Forms == DOMAIN Following \union {"run"}

\* The parameter a form changes.
FieldOf == [set_cot |-> "SizeCot", set_tia |-> "SizeTia",
            set_td_cot |-> "SpeedCot", set_td_tia |-> "SpeedTia"]

\* Time since an instant is counted up to the longest time anything waits for.
Ages == 0 .. HoldClear
Older(age) == IF age < HoldClear THEN age + 1 ELSE age
NoHold == HoldClear + 1

\* STimer_Stop, and what a one-shot timer becomes; nothing reads the rest of a
\* timer that is not enabled.
Stopped == [cb |-> "none", repeat |-> FALSE, compare |-> 0, age |-> 0]

\* STimer_Start.
Started(compare, cb, repeat) ==
    [cb |-> cb, repeat |-> repeat, compare |-> compare, age |-> 0]

\* Fault: a timer expires one unit early.
ExpiresEarly(timer) == timer.cb # "none" /\ timer.age + 1 >= timer.compare

Expires(timer) == timer.cb # "none" /\ timer.age >= timer.compare

\* Fault: a timer that does not repeat is left enabled.
RearmedAnyway(timer) == [timer EXCEPT !.age = 0]

\* What Application_Run makes of a timer after its callback.
Rearmed(timer) == IF timer.repeat THEN [timer EXCEPT !.age = 0] ELSE Stopped

\* firework_config_up_value and firework_config_down_value.
Toggled(type) == IF type = "LED_6803" THEN "LED_1903" ELSE "LED_6803"

\* Fault: the upper limit is off by one.
RaisableTop(v, f) == v <= Hi[f]

Raisable(v, f) == v < Hi[f]

Raised(r) ==
    IF form = "set_type_led" THEN [r EXCEPT !.LedType = Toggled(@)]
    ELSE IF form \in DOMAIN FieldOf /\ Raisable(r[FieldOf[form]], FieldOf[form])
         THEN [r EXCEPT ![FieldOf[form]] = @ + 1]
         ELSE r

Lowered(r) ==
    IF form = "set_type_led" THEN [r EXCEPT !.LedType = Toggled(@)]
    ELSE IF form \in DOMAIN FieldOf /\ r[FieldOf[form]] > 1
         THEN [r EXCEPT ![FieldOf[form]] = @ - 1]
         ELSE r

\* The setters setup() and the web use clamp what they are given.
Clamped(v, f) == IF v < 1 THEN 1 ELSE IF v > Hi[f] THEN Hi[f] ELSE v
Loaded(file) == [x \in DOMAIN file |->
                    IF x \in Fields THEN Clamped(file[x], x) ELSE file[x]]

-------------------------------------------------------------------------------
(* The timers.                                                                 *)

Step(where) == at = where /\ at' = After[where]

Stimer1Waits ==
    /\ Step("stimer1") /\ ~uploading
    /\ ~Expires(stimer1)
    /\ UNCHANGED <<form, next, key, timers, params, wifi, uploading, hist>>

\* Fault: the callback does not look at the form it leaves.
StillRunning == form # "run"

InRunMode == form = "run"

\* firework_change_mode_cb.
ChangeMode ==
    /\ Step("stimer1") /\ ~uploading
    /\ Expires(stimer1) /\ stimer1.cb = "change_mode"
    /\ next' = IF InRunMode THEN "set_type_led" ELSE next
    /\ stimer1' = Rearmed(stimer1)
    /\ UNCHANGED <<form, key, stimer_clear, state_clear, params, wifi, uploading, hist>>

\* firework_up_value_cb and firework_down_value_cb.
RepeatKey ==
    /\ Step("stimer1") /\ ~uploading
    /\ Expires(stimer1) /\ stimer1.cb \in {"up_value", "down_value"}
    /\ ram' = IF stimer1.cb = "up_value" THEN Raised(ram) ELSE Lowered(ram)
    /\ stimer1' = Rearmed([stimer1 EXCEPT !.compare = RepeatValue])
    /\ UNCHANGED <<form, next, key, stimer_clear, state_clear, saved, unsaved,
                   wifi, uploading, hist>>

ClearWaits ==
    /\ Step("clear")
    /\ ~Expires(stimer_clear)
    /\ UNCHANGED <<form, next, key, timers, params, wifi, uploading, hist>>

\* firework_clear_param_cb, first stage: the LEDs light up.
WarnClear ==
    /\ Step("clear")
    /\ Expires(stimer_clear) /\ state_clear = 0
    /\ state_clear' = 1
    /\ stimer_clear' = Rearmed([stimer_clear EXCEPT !.compare = Confirm])
    /\ UNCHANGED <<form, next, key, stimer1, params, wifi, uploading, hist>>

\* ... second stage: the wifi settings are wiped and the access point is back.
WipeWifi ==
    /\ Step("clear")
    /\ Expires(stimer_clear) /\ state_clear = 1
    /\ state_clear' = 0
    /\ wifi' = FALSE
    /\ stimer_clear' = Rearmed([stimer_clear EXCEPT !.compare = 0, !.repeat = FALSE])
    /\ next' = "run"
    /\ unsaved' = (unsaved \/ form # "run")
    /\ downHeld' = NoHold
    /\ UNCHANGED <<form, key, stimer1, ram, saved, uploading, setHeld>>

-------------------------------------------------------------------------------
(* The keys.  Debounce: a change of the pin restarts the count (the pin is     *)
(* read twice, so the second reading may undo the change); a press counts once *)
(* the pin has been stable, a release counts at once.  The count is read only  *)
(* between a change to high and the press, so it stands still elsewhere.       *)

Readings(k) == {key[k]} \union
               {[key[k] EXCEPT !.signal = b, !.age = 0] : b \in BOOLEAN}

Pending(r) == r.signal /\ ~r.pressed

IsPress(r)   == Pending(r) /\ r.age >= Debounce
IsRelease(r) == ~r.signal /\ r.pressed

KeyQuiet(k) ==
    /\ Step(k)
    /\ \E r \in Readings(k) : /\ ~IsPress(r) /\ ~IsRelease(r)
                              /\ key' = [key EXCEPT ![k] = r]
    /\ UNCHANGED <<form, next, timers, params, wifi, uploading, hist>>

Press(k) ==
    /\ Step(k)
    /\ \E r \in Readings(k) : /\ IsPress(r)
                              /\ key' = [key EXCEPT ![k] = [r EXCEPT !.pressed = TRUE, !.age = 0]]

Release(k) ==
    /\ Step(k)
    /\ \E r \in Readings(k) : /\ IsRelease(r)
                              /\ key' = [key EXCEPT ![k] = [r EXCEPT !.pressed = FALSE]]

\* firework_key_set_press, in form_run.
HoldSet ==
    /\ form = "run" /\ Press("set")
    /\ stimer1' = Started(HoldMode, "change_mode", FALSE)
    /\ setHeld' = 0
    /\ UNCHANGED <<form, next, stimer_clear, state_clear, params, wifi, uploading,
                   downHeld>>

\* ... in a setup form: on to the next one.
NextForm ==
    /\ form \notin {"run", "set_td_tia"} /\ Press("set")
    /\ next' = Following[form]
    /\ UNCHANGED <<form, timers, params, wifi, uploading, hist>>

\* ... in the last one: the parameters are saved.
SaveAndRun ==
    /\ form = "set_td_tia" /\ Press("set")
    /\ saved' = ram
    /\ unsaved' = FALSE
    /\ next' = Following[form]
    /\ UNCHANGED <<form, timers, ram, wifi, uploading, hist>>

SetRelease ==
    /\ Release("set")
    /\ stimer1' = Stopped
    /\ setHeld' = NoHold
    /\ UNCHANGED <<form, next, stimer_clear, state_clear, params, wifi, uploading,
                   downHeld>>

UpPress ==
    /\ Press("up")
    /\ stimer1' = Started(HoldValue, "up_value", TRUE)
    /\ UNCHANGED <<form, next, stimer_clear, state_clear, params, wifi, uploading, hist>>

UpRelease ==
    /\ Release("up")
    /\ stimer1' = Stopped
    /\ ram' = Raised(ram)
    /\ UNCHANGED <<form, next, stimer_clear, state_clear, saved, unsaved, wifi,
                   uploading, hist>>

DownPress ==
    /\ Press("down")
    /\ stimer1' = Started(HoldValue, "down_value", TRUE)
    /\ IF form = "run"
       THEN /\ stimer_clear' = Started(HoldClear, "clear_param", TRUE)
            /\ downHeld' = 0
       ELSE UNCHANGED <<stimer_clear, downHeld>>
    /\ UNCHANGED <<form, next, state_clear, params, wifi, uploading, setHeld>>

DownRelease ==
    /\ Release("down")
    /\ stimer1' = Stopped
    /\ stimer_clear' = IF form = "run" THEN Stopped ELSE stimer_clear
    /\ ram' = Lowered(ram)
    /\ UNCHANGED <<form, next, state_clear, saved, unsaved, wifi, uploading, hist>>

-------------------------------------------------------------------------------
(* The form, and the time a pass takes.                                        *)

Elapse ==
    /\ stimer1' = [stimer1 EXCEPT !.age = Older(@)]
    /\ stimer_clear' = [stimer_clear EXCEPT !.age = Older(@)]
    /\ key' = [k \in Keys |->
                IF Pending(key[k]) /\ key[k].age < Debounce
                THEN [key[k] EXCEPT !.age = @ + 1] ELSE key[k]]
    /\ setHeld' = IF setHeld < HoldMode THEN setHeld + 1 ELSE setHeld
    /\ downHeld' = Older(downHeld)

NoTime == UNCHANGED <<stimer1, stimer_clear, key, hist>>

SwitchForm ==
    /\ Step("form")
    /\ next # "none"
    /\ form' = next
    /\ next' = "none"
    /\ Elapse \/ NoTime
    /\ UNCHANGED <<state_clear, params, wifi, uploading>>

RunForm ==
    /\ Step("form")
    /\ next = "none"
    /\ Elapse \/ NoTime
    /\ UNCHANGED <<form, next, state_clear, params, wifi, uploading>>

-------------------------------------------------------------------------------
(* Between two passes.                                                         *)

\* POST {"api_type":"param", ...} changes a parameter and saves nothing.
WebParam ==
    /\ at = "stimer1"
    /\ \/ \E f \in Fields : \E v \in 0 .. Hi[f] + 1 :
            ram' = [ram EXCEPT ![f] = Clamped(v, f)]
       \/ \E type \in LedTypes : ram' = [ram EXCEPT !.LedType = type]
    /\ unsaved' = TRUE
    /\ UNCHANGED <<at, form, next, key, timers, saved, wifi, uploading, hist>>

\* POST save_param.
WebSave ==
    /\ at = "stimer1"
    /\ saved' = ram
    /\ unsaved' = FALSE
    /\ UNCHANGED <<at, form, next, key, timers, ram, wifi, uploading, hist>>

\* POST {"api_type":"wifi", ...}.
WebWifi ==
    /\ at = "stimer1"
    /\ ~wifi
    /\ wifi' = TRUE
    /\ UNCHANGED <<at, form, next, key, timers, params, uploading, hist>>

\* An upload begins, and ends or is abandoned for another one.
UploadToggles ==
    /\ at = "stimer1"
    /\ uploading' = ~uploading
    /\ UNCHANGED <<at, form, next, key, timers, params, wifi, hist>>

\* loop() does not run the application during an upload; time goes on.
UploadWaits ==
    /\ at = "stimer1" /\ uploading
    /\ Elapse
    /\ UNCHANGED <<at, form, next, state_clear, params, wifi, uploading>>

-------------------------------------------------------------------------------
Released == [k \in Keys |-> [signal |-> FALSE, pressed |-> FALSE, age |-> 0]]

\* Factory file: every numeric parameter is 0.  The first pass only switches to
\* form_run.
Init ==
    /\ at = "stimer1"
    /\ form = "run" /\ next = "none"
    /\ key = Released
    /\ stimer1 = Stopped /\ stimer_clear = Stopped /\ state_clear = 0
    /\ saved = [x \in Fields \union {"LedType"} |->
                    IF x \in Fields THEN 0 ELSE "LED_6803"]
    /\ ram = Loaded(saved)
    /\ wifi \in BOOLEAN
    /\ uploading = FALSE
    /\ setHeld = NoHold /\ downHeld = NoHold
    /\ unsaved = FALSE

\* A power cycle, or the restart after an update.
Reboot ==
    /\ at' = "stimer1"
    /\ form' = "run" /\ next' = "none"
    /\ key' = Released
    /\ stimer1' = Stopped /\ stimer_clear' = Stopped /\ state_clear' = 0
    /\ ram' = Loaded(saved)
    /\ uploading' = FALSE
    /\ setHeld' = NoHold /\ downHeld' = NoHold
    /\ unsaved' = FALSE
    /\ UNCHANGED <<saved, wifi>>

TimerStep == Stimer1Waits \/ ChangeMode \/ RepeatKey \/ ClearWaits \/ WarnClear \/ WipeWifi
KeyStep == \/ \E k \in Keys : KeyQuiet(k)
           \/ HoldSet \/ NextForm \/ SaveAndRun \/ SetRelease
           \/ UpPress \/ UpRelease \/ DownPress \/ DownRelease
FormStep == SwitchForm \/ RunForm
Web == WebParam \/ WebSave \/ WebWifi \/ UploadToggles \/ UploadWaits

Next == TimerStep \/ KeyStep \/ FormStep \/ Web \/ Reboot

Spec == Init /\ [][Next]_vars

\* loop() posts itself again, so passes go on; time goes on; a pass begins now
\* and then if there is no upload now and then.
Fairness == /\ WF_vars(TimerStep)
            /\ WF_vars(KeyStep)
            /\ WF_vars(FormStep)
            /\ SF_vars(FormStep /\ Elapse)

LiveSpec == Spec /\ Fairness
-------------------------------------------------------------------------------
(* Properties.                                                                 *)

Timers == [cb : {"none", "change_mode", "up_value", "down_value", "clear_param"},
           repeat : BOOLEAN, compare : Ages, age : Ages]

\* The type invariant: every parameter stays within its limits.
TypeOK ==
    /\ at \in DOMAIN After
    /\ form \in Forms
    /\ next \in Forms \union {"none"}
    /\ key \in [Keys -> [signal : BOOLEAN, pressed : BOOLEAN, age : 0 .. Debounce]]
    /\ stimer1 \in Timers
    /\ stimer_clear \in Timers
    /\ state_clear \in {0, 1}
    /\ \A f \in Fields : ram[f] \in 1 .. Hi[f] /\ saved[f] \in 0 .. Hi[f]
    /\ ram.LedType \in LedTypes /\ saved.LedType \in LedTypes
    /\ DOMAIN ram = Fields \union {"LedType"} /\ DOMAIN saved = DOMAIN ram
    /\ wifi \in BOOLEAN
    /\ uploading \in BOOLEAN
    /\ setHeld \in 0 .. NoHold
    /\ downHeld \in 0 .. NoHold
    /\ unsaved \in BOOLEAN

\* Back in form_run, the parameters in use are those the next boot will load,
\* unless a request or a wipe left them unsaved: setup saves what it set.  One
\* exception is real: UP or DOWN released in the very pass that saved still
\* changes the parameter of the last form.
SetupIsSaved ==
    form = "run" /\ ~unsaved =>
        /\ \A x \in DOMAIN ram \ {"SpeedTia"} : ram[x] = Loaded(saved)[x]
        /\ ram.SpeedTia <= Loaded(saved).SpeedTia + 1
        /\ Loaded(saved).SpeedTia <= ram.SpeedTia + 1

\* Setup is entered only from form_run and only while SET is held, HoldMode after
\* it was pressed, whatever the other keys did to the timer they share.
ModeNeedsHold ==
    [][next' = "set_type_led" /\ next # "set_type_led" =>
        form = "run" /\ key["set"].pressed /\ setHeld = HoldMode]_vars

\* The wifi settings are wiped only HoldClear or more after DOWN was pressed in
\* form_run, and only once for a press, through uploads, changes of form and a
\* first stage that an earlier press left behind.
WipeNotEarly == [][wifi /\ ~wifi' => downHeld = HoldClear]_vars

\* The callback of the hold is armed only while SET is pressed, and the timer has
\* counted as long as the hold has lasted, whoever else has used the timer before.
HoldCounted ==
    stimer1.cb = "change_mode" =>
        /\ key["set"].pressed /\ ~stimer1.repeat /\ stimer1.compare = HoldMode
        /\ setHeld = IF stimer1.age < HoldMode THEN stimer1.age ELSE HoldMode

\* The timer of the wipe counts from DOWN's press in form_run to the first stage, or
\* from there to the second one.
ClearCounted ==
    stimer_clear.cb # "none" =>
        /\ stimer_clear.cb = "clear_param" /\ stimer_clear.repeat
        /\ \/ stimer_clear.compare = HoldClear /\ downHeld = stimer_clear.age
           \/ stimer_clear.compare = Confirm /\ state_clear = 1 /\ downHeld = HoldClear

\* Between the save and form_run there is the rest of one pass: time for UP and
\* DOWN to change the last form's parameter once each.
SavePending ==
    form # "run" /\ next = "run" /\ ~unsaved =>
        /\ form = "set_td_tia" /\ at \in {"up", "down", "form"}
        /\ \A x \in DOMAIN ram \ {"SpeedTia"} : ram[x] = Loaded(saved)[x]
        /\ at = "up" => ram.SpeedTia = Loaded(saved).SpeedTia
        /\ at # "form" => Loaded(saved).SpeedTia <= ram.SpeedTia
        /\ ram.SpeedTia <= Loaded(saved).SpeedTia + 1
        /\ Loaded(saved).SpeedTia <= ram.SpeedTia + 1

\* A pass begins with the form that the one before has switched to.
NextTaken == at = "stimer1" => next = "none"

\* The inductive invariant of the panel.
IInv == TypeOK /\ HoldCounted /\ ClearCounted /\ NextTaken /\ SavePending /\ SetupIsSaved

\* SET is held in form_run, and no wipe is under way.
HoldOnly ==
    /\ form = "run" /\ key["set"].pressed
    /\ stimer1.cb = "change_mode" /\ stimer_clear.cb = "none"

\* SET held on its own in form_run leads to setup, if uploads come to an end.  (The
\* timer of a wipe that DOWN has left running may take the form back.)
SetHeldEntersSetup ==
    <>[]~uploading =>
        (HoldOnly ~> \/ form = "set_type_led"
                     \/ ~key["set"].pressed
                     \/ key["up"].pressed
                     \/ key["down"].pressed)

\* "Press and hold the key for 5 s to clear the wifi in use" (source/main.c:970).
WipeNeedsDown == [][wifi /\ ~wifi' => key["down"].pressed]_vars
===============================================================================
