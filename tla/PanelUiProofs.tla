----------------------------- MODULE PanelUiProofs ------------------------------
(* Proofs about PanelUi, for every set of LED types, limits of the parameters and *)
(* times in their order.                                                          *)
EXTENDS PanelUi, TLAPS

-------------------------------------------------------------------------------
(* The data.                                                                   *)

KeyStates == [Keys -> [signal : BOOLEAN, pressed : BOOLEAN, age : 0 .. Debounce]]

\* Parameters within their limits.
Limited(r) ==
    /\ \A f \in Fields : r[f] \in 1 .. Hi[f]
    /\ r.LedType \in LedTypes
    /\ DOMAIN r = Fields \union {"LedType"}

\* The times are times.
LEMMA Times ==
    /\ Debounce \in Nat \ {0} /\ HoldClear \in Nat /\ NoHold \in Nat
    /\ {RepeatValue, HoldValue, Confirm, HoldMode, HoldClear, 0} \subseteq Ages
    /\ HoldMode \in Nat \ {0}
BY PanelAssumption DEF PanelAssumption, Ages, NoHold

LEMMA OlderType ==
    /\ \A a \in Ages : Older(a) \in Ages
    /\ \A a \in 0 .. NoHold : Older(a) \in 0 .. NoHold
BY Times DEF Older, Ages, NoHold

LEMMA StoppedType == Stopped \in Timers
BY Times DEF Stopped, Timers

LEMMA StartedType ==
    ASSUME NEW c \in Ages, NEW cb \in {"change_mode", "up_value", "down_value", "clear_param"},
           NEW r \in BOOLEAN
    PROVE  Started(c, cb, r) \in Timers
BY Times DEF Started, Timers

LEMMA RearmedType ==
    ASSUME NEW t \in Timers, NEW c \in Ages, NEW r \in BOOLEAN
    PROVE  /\ Rearmed(t) \in Timers
           /\ Rearmed([t EXCEPT !.compare = c]) \in Timers
           /\ Rearmed([t EXCEPT !.compare = c, !.repeat = r]) \in Timers
BY Times, StoppedType DEF Rearmed, Timers

\* Time changes the age of a timer only.
LEMMA AgedType ==
    ASSUME NEW t \in Timers
    PROVE  [t EXCEPT !.age = Older(@)] \in Timers
<1>1. Older(t.age) \in Ages
  BY OlderType DEF Timers
<1> QED BY <1>1 DEF Timers

\* TypeOK, with types of their own for the keys and the parameters.
Typing ==
    /\ at \in DOMAIN After /\ form \in Forms /\ next \in Forms \union {"none"}
    /\ key \in KeyStates /\ stimer1 \in Timers /\ stimer_clear \in Timers
    /\ state_clear \in {0, 1}
    /\ Limited(ram)
    /\ \A f \in Fields : saved[f] \in 0 .. Hi[f]
    /\ saved.LedType \in LedTypes /\ DOMAIN saved = Fields \union {"LedType"}
    /\ wifi \in BOOLEAN /\ uploading \in BOOLEAN
    /\ setHeld \in 0 .. NoHold /\ downHeld \in 0 .. NoHold /\ unsaved \in BOOLEAN

LEMMA Typed == Typing <=> TypeOK
BY Zenon DEF TypeOK, Typing, Limited, KeyStates

\* UP and DOWN, the loading at boot and the requests keep the limits.
LEMMA ChangedLimits ==
    ASSUME NEW r, Limited(r)
    PROVE  Limited(Raised(r)) /\ Limited(Lowered(r))
<1> USE PanelAssumption DEF PanelAssumption, Limited
<1>1. CASE form = "set_type_led"
  BY <1>1 DEF Raised, Lowered, Toggled, Fields
<1>2. CASE form # "set_type_led" /\ form \in DOMAIN FieldOf
  <2>1. FieldOf[form] \in Fields
    BY <1>2 DEF FieldOf, Fields
  <2>2. r[FieldOf[form]] \in 1 .. Hi[FieldOf[form]] /\ Hi[FieldOf[form]] \in Nat \ {0}
    BY <2>1
  <2>3. "LedType" \notin Fields
    BY DEF Fields
  <2> HIDE DEF Fields
  <2>4. Limited(Raised(r))
    BY <1>2, <2>1, <2>2, <2>3 DEF Raised, Raisable
  <2>5. Limited(Lowered(r))
    BY <1>2, <2>1, <2>2, <2>3 DEF Lowered
  <2> QED BY <2>4, <2>5
<1>3. CASE form # "set_type_led" /\ form \notin DOMAIN FieldOf
  BY <1>3 DEF Raised, Lowered
<1> QED BY <1>1, <1>2, <1>3

LEMMA ClampedType == \A f \in Fields, v \in Nat : Clamped(v, f) \in 1 .. Hi[f]
BY PanelAssumption DEF PanelAssumption, Clamped

LEMMA LoadedLimits ==
    ASSUME Typing
    PROVE  Limited(Loaded(saved))
<1>1. \A f \in Fields : saved[f] \in Nat
  BY PanelAssumption DEF PanelAssumption, Typing
<1>2. "LedType" \notin Fields
  BY DEF Fields
<1> QED BY <1>1, <1>2, ClampedType DEF Typing, Limited, Loaded

\* Loading what is within the limits changes nothing.
LEMMA LoadedSame ==
    ASSUME NEW r, Limited(r)
    PROVE  \A x \in DOMAIN r : Loaded(r)[x] = r[x]
BY PanelAssumption DEF PanelAssumption, Limited, Loaded, Clamped

\* What a pin reads like.
LEMMA ReadingsType ==
    ASSUME key \in KeyStates, NEW k \in Keys, NEW r \in Readings(k)
    PROVE  r \in [signal : BOOLEAN, pressed : BOOLEAN, age : 0 .. Debounce]
<1>1. key[k] \in [signal : BOOLEAN, pressed : BOOLEAN, age : 0 .. Debounce]
  BY DEF KeyStates
<1>2. CASE r = key[k]
  BY <1>1, <1>2
<1>3. ASSUME NEW b \in BOOLEAN, r = [key[k] EXCEPT !.signal = b, !.age = 0]
      PROVE  r \in [signal : BOOLEAN, pressed : BOOLEAN, age : 0 .. Debounce]
  <2>1. r = [signal |-> b, pressed |-> key[k].pressed, age |-> 0]
    BY <1>1, <1>3
  <2>2. 0 \in 0 .. Debounce /\ key[k].pressed \in BOOLEAN
    BY <1>1, Times
  <2> QED BY <2>1, <2>2
<1> QED BY <1>2, <1>3 DEF Readings

LEMMA KeyType ==
    ASSUME key \in KeyStates, NEW k \in Keys, Press(k) \/ Release(k) \/ KeyQuiet(k)
    PROVE  key' \in KeyStates
<1>1. \A r \in Readings(k) : r \in [signal : BOOLEAN, pressed : BOOLEAN, age : 0 .. Debounce]
  BY ReadingsType
<1>2. 0 \in 0 .. Debounce
  BY Times
<1>3. CASE Press(k)
  BY <1>1, <1>2, <1>3 DEF Press, KeyStates
<1>4. CASE Release(k)
  BY <1>1, <1>2, <1>4 DEF Release, KeyStates
<1>5. CASE KeyQuiet(k)
  BY <1>1, <1>2, <1>5 DEF KeyQuiet, KeyStates
<1> QED BY <1>3, <1>4, <1>5

-------------------------------------------------------------------------------
(* Type correctness: every parameter stays within its limits.                  *)

LEMMA InitTyped == Init => Typing
<1> SUFFICES ASSUME Init PROVE Typing
  OBVIOUS
<1>1. /\ \A f \in Fields : saved[f] = 0
      /\ saved.LedType = "LED_6803" /\ DOMAIN saved = Fields \union {"LedType"}
  BY DEF Init, Fields
<1>2. Limited(ram)
  <2>1. "LedType" \notin Fields
    BY DEF Fields
  <2>2. \A f \in Fields : ram[f] = Clamped(0, f)
    BY <1>1 DEF Init, Loaded
  <2>3. ram.LedType = "LED_6803" /\ DOMAIN ram = Fields \union {"LedType"}
    BY <1>1, <2>1 DEF Init, Loaded
  <2> QED BY <2>2, <2>3, ClampedType, PanelAssumption DEF PanelAssumption, Limited
<1>3. key \in KeyStates
  BY Times DEF Init, Released, KeyStates
<1>4. \A f \in Fields : saved[f] \in 0 .. Hi[f]
  BY <1>1, PanelAssumption DEF PanelAssumption
<1>5. at \in DOMAIN After /\ form \in Forms
  BY DEF Init, After, Forms
<1>6. setHeld \in 0 .. NoHold /\ downHeld \in 0 .. NoHold
  BY Times DEF Init
<1>7. stimer1 \in Timers /\ stimer_clear \in Timers
  BY StoppedType DEF Init
<1>8. saved.LedType \in LedTypes
  BY <1>1, PanelAssumption DEF PanelAssumption
<1> QED BY <1>1, <1>2, <1>3, <1>4, <1>5, <1>6, <1>7, <1>8 DEF Typing, Init

LEMMA StepType == \A where \in DOMAIN After : Step(where) => at' \in DOMAIN After
BY DEF Step, After

\* The two software timers.
LEMMA TimerTyped == Typing /\ TimerStep => Typing'
<1> SUFFICES ASSUME Typing, TimerStep PROVE Typing'
  OBVIOUS
<1> USE DEF Typing, timers, params, hist
<1>1. at' \in DOMAIN After
  BY StepType DEF TimerStep, Stimer1Waits, ChangeMode, RepeatKey, ClearWaits, WarnClear,
                  WipeWifi, After
<1>2. CASE Stimer1Waits \/ ClearWaits
  BY <1>1, <1>2 DEF Stimer1Waits, ClearWaits
<1>3. CASE ChangeMode
  <2>1. stimer1' \in Timers /\ next' \in Forms \union {"none"}
    BY <1>3, RearmedType, Times DEF ChangeMode, Forms, Following
  <2> QED BY <1>1, <1>3, <2>1 DEF ChangeMode
<1>4. CASE RepeatKey
  <2>1. stimer1' \in Timers
    BY <1>4, RearmedType, Times DEF RepeatKey
  <2>2. Limited(ram')
    BY <1>4, ChangedLimits, Zenon DEF RepeatKey
  <2> QED BY <1>1, <1>4, <2>1, <2>2 DEF RepeatKey
<1>5. CASE WarnClear
  <2>1. stimer_clear' \in Timers
    BY <1>5, RearmedType, Times DEF WarnClear
  <2> QED BY <1>1, <1>5, <2>1 DEF WarnClear
<1>6. CASE WipeWifi
  <2>1. stimer_clear' \in Timers
    BY <1>6, RearmedType, Times DEF WipeWifi
  <2>2. next' \in Forms /\ downHeld' \in 0 .. NoHold /\ unsaved' \in BOOLEAN
    BY <1>6, Times DEF WipeWifi, Forms
  <2> QED BY <1>1, <1>6, <2>1, <2>2 DEF WipeWifi
<1> QED BY <1>2, <1>3, <1>4, <1>5, <1>6 DEF TimerStep

\* The keys.
LEMMA KeyTyped == Typing /\ KeyStep => Typing'
<1> SUFFICES ASSUME Typing, KeyStep PROVE Typing'
  OBVIOUS
<1> USE DEF Typing, timers, params, hist
<1>1. at' \in DOMAIN After
  BY StepType DEF KeyStep, KeyQuiet, HoldSet, NextForm, SaveAndRun, SetRelease, UpPress,
                  UpRelease, DownPress, DownRelease, Press, Release, After, Keys
<1>2. key' \in KeyStates
  BY KeyType DEF KeyStep, HoldSet, NextForm, SaveAndRun, SetRelease, UpPress,
                 UpRelease, DownPress, DownRelease, Keys
<1>3. CASE \E k \in Keys : KeyQuiet(k)
  BY <1>1, <1>2, <1>3 DEF KeyQuiet
<1>4. CASE HoldSet
  <2>1. Started(HoldMode, "change_mode", FALSE) \in Timers /\ 0 \in 0 .. NoHold
    BY Times DEF Started, Timers
  <2> QED BY <1>1, <1>2, <1>4, <2>1 DEF HoldSet
<1>5. CASE NextForm \/ SaveAndRun
  <2>1. next' \in Forms
    BY <1>5 DEF NextForm, SaveAndRun, Following, Forms
  <2>2. saved' = saved \/ saved' = ram
    BY <1>5 DEF NextForm, SaveAndRun
  <2>3. /\ \A f \in Fields : saved'[f] \in 0 .. Hi[f]
        /\ saved'.LedType \in LedTypes /\ DOMAIN saved' = Fields \union {"LedType"}
    BY <2>2, PanelAssumption DEF PanelAssumption, Limited
  <2> QED BY <1>1, <1>2, <1>5, <2>1, <2>3 DEF NextForm, SaveAndRun
<1>6. CASE SetRelease \/ UpPress \/ DownPress
  <2>1. /\ Started(HoldValue, "up_value", TRUE) \in Timers
        /\ Started(HoldValue, "down_value", TRUE) \in Timers
        /\ Started(HoldClear, "clear_param", TRUE) \in Timers
    BY StartedType, Times
  <2>2. 0 \in 0 .. NoHold /\ NoHold \in 0 .. NoHold
    BY Times
  <2>3. stimer1' \in Timers /\ stimer_clear' \in Timers
    BY <1>6, <2>1, StoppedType DEF SetRelease, UpPress, DownPress
  <2>4. setHeld' \in 0 .. NoHold /\ downHeld' \in 0 .. NoHold
    BY <1>6, <2>2 DEF SetRelease, UpPress, DownPress
  <2> QED BY <1>1, <1>2, <1>6, <2>3, <2>4 DEF SetRelease, UpPress, DownPress
<1>7. CASE UpRelease \/ DownRelease
  <2>1. stimer1' \in Timers /\ stimer_clear' \in Timers
    BY <1>7, StoppedType DEF UpRelease, DownRelease
  <2>2. Limited(ram')
    BY <1>7, ChangedLimits, Zenon DEF UpRelease, DownRelease
  <2> QED BY <1>1, <1>2, <1>7, <2>1, <2>2 DEF UpRelease, DownRelease
<1> QED BY <1>3, <1>4, <1>5, <1>6, <1>7 DEF KeyStep

\* The passing of time.
LEMMA ElapseTyped ==
    ASSUME Typing, Elapse \/ NoTime
    PROVE  /\ key' \in KeyStates /\ stimer1' \in Timers /\ stimer_clear' \in Timers
           /\ setHeld' \in 0 .. NoHold /\ downHeld' \in 0 .. NoHold
<1> USE DEF Typing
<1>1. CASE NoTime
  BY <1>1 DEF NoTime, hist
<1>2. CASE Elapse
  <2>1. key' \in KeyStates
    BY <1>2, Times DEF Elapse, KeyStates
  <2>2. stimer1' \in Timers /\ stimer_clear' \in Timers
    BY <1>2, AgedType DEF Elapse
  <2>3. setHeld' \in 0 .. NoHold /\ downHeld' \in 0 .. NoHold
    BY <1>2, OlderType, Times, PanelAssumption DEF PanelAssumption, Elapse, NoHold
  <2> QED BY <2>1, <2>2, <2>3
<1> QED BY <1>1, <1>2

LEMMA FormTyped == Typing /\ FormStep => Typing'
<1> SUFFICES ASSUME Typing, FormStep PROVE Typing'
  OBVIOUS
<1> USE DEF Typing, timers, params
<1>1. at' \in DOMAIN After
  BY DEF FormStep, SwitchForm, RunForm, Step, After
<1>2. form' \in Forms /\ next' \in Forms \union {"none"}
  BY DEF FormStep, SwitchForm, RunForm
<1>3. /\ key' \in KeyStates /\ stimer1' \in Timers /\ stimer_clear' \in Timers
      /\ setHeld' \in 0 .. NoHold /\ downHeld' \in 0 .. NoHold
  BY ElapseTyped DEF FormStep, SwitchForm, RunForm
<1> QED BY <1>1, <1>2, <1>3 DEF FormStep, SwitchForm, RunForm

\* Requests, uploads and a restart.
LEMMA WebTyped == Typing /\ (Web \/ Reboot) => Typing'
<1> SUFFICES ASSUME Typing, Web \/ Reboot PROVE Typing'
  OBVIOUS
<1> USE DEF Typing, timers, params, hist
<1>1. CASE WebParam
  <2>1. "LedType" \notin Fields
    BY DEF Fields
  <2>2. ASSUME NEW f \in Fields, NEW v \in 0 .. Hi[f] + 1,
               ram' = [ram EXCEPT ![f] = Clamped(v, f)]
        PROVE  Limited(ram')
    <3>1. Clamped(v, f) \in 1 .. Hi[f]
      BY <2>2, ClampedType, PanelAssumption DEF PanelAssumption
    <3> QED BY <2>1, <2>2, <3>1 DEF Limited
  <2>3. ASSUME NEW type \in LedTypes, ram' = [ram EXCEPT !.LedType = type]
        PROVE  Limited(ram')
    BY <2>1, <2>3 DEF Limited
  <2>4. Limited(ram')
    BY <1>1, <2>2, <2>3 DEF WebParam
  <2> QED BY <1>1, <2>4 DEF WebParam
<1>2. CASE WebSave
  <2>1. /\ \A f \in Fields : saved'[f] \in 0 .. Hi[f]
        /\ saved'.LedType \in LedTypes /\ DOMAIN saved' = Fields \union {"LedType"}
    BY <1>2, PanelAssumption DEF PanelAssumption, Limited, WebSave
  <2> QED BY <1>2, <2>1 DEF WebSave
<1>3. CASE WebWifi
  BY <1>3 DEF WebWifi
<1>4. CASE UploadToggles
  BY <1>4 DEF UploadToggles
<1>5. CASE UploadWaits
  BY <1>5, ElapseTyped DEF UploadWaits
<1>6. CASE Reboot
  <2>1. Limited(ram')
    BY <1>6, LoadedLimits, Zenon DEF Reboot
  <2>2. key' \in KeyStates
    BY <1>6, Times DEF Reboot, Released, KeyStates
  <2>3. stimer1' \in Timers /\ stimer_clear' \in Timers
    BY <1>6, StoppedType DEF Reboot
  <2>4. at' \in DOMAIN After /\ form' \in Forms /\ next' \in Forms \union {"none"}
    BY <1>6 DEF Reboot, After, Forms
  <2>5. setHeld' \in 0 .. NoHold /\ downHeld' \in 0 .. NoHold
    BY <1>6, Times DEF Reboot
  <2> QED BY <1>6, <2>1, <2>2, <2>3, <2>4, <2>5 DEF Reboot
<1> QED BY <1>1, <1>2, <1>3, <1>4, <1>5, <1>6 DEF Web

LEMMA NextTyped == Typing /\ [Next]_vars => Typing'
<1>1. Typing /\ UNCHANGED vars => Typing'
  BY DEF vars, timers, params, hist, Typing
<1> QED BY <1>1, TimerTyped, KeyTyped, FormTyped, WebTyped DEF Next

\* Every variable keeps its type, and every parameter its limits.
THEOREM PanelTypeCorrect == Spec => []TypeOK
BY InitTyped, NextTyped, Typed, PTL DEF Spec

-------------------------------------------------------------------------------
(* The holds: what the timers count is the time since the press.               *)

\* A reading changes the pin, not whether the key counts as pressed.
LEMMA ReadingsPressed ==
    ASSUME key \in KeyStates, NEW k \in Keys, NEW r \in Readings(k)
    PROVE  r.pressed = key[k].pressed
<1>1. key[k] \in [signal : BOOLEAN, pressed : BOOLEAN, age : 0 .. Debounce]
  BY DEF KeyStates
<1>2. ASSUME NEW b \in BOOLEAN, r = [key[k] EXCEPT !.signal = b, !.age = 0]
      PROVE  r.pressed = key[k].pressed
  BY <1>1, <1>2
<1> QED BY <1>2 DEF Readings

LEMMA PressPressed ==
    ASSUME key \in KeyStates, NEW k \in Keys, Press(k)
    PROVE  key'[k].pressed
<1>1. PICK r \in Readings(k) : key' = [key EXCEPT ![k] = [r EXCEPT !.pressed = TRUE, !.age = 0]]
  BY DEF Press
<1>2. r \in [signal : BOOLEAN, pressed : BOOLEAN, age : 0 .. Debounce]
  BY ReadingsType
<1> QED BY <1>1, <1>2 DEF KeyStates

\* Time leaves the callbacks and what is pressed alone.
LEMMA ElapseAges ==
    ASSUME Typing, Elapse
    PROVE  /\ stimer1'.cb = stimer1.cb /\ stimer1'.repeat = stimer1.repeat
           /\ stimer1'.compare = stimer1.compare /\ stimer1'.age = Older(stimer1.age)
           /\ stimer_clear'.cb = stimer_clear.cb /\ stimer_clear'.repeat = stimer_clear.repeat
           /\ stimer_clear'.compare = stimer_clear.compare
           /\ stimer_clear'.age = Older(stimer_clear.age)
           /\ \A k \in Keys : key'[k].pressed = key[k].pressed
<1>1. stimer1 \in Timers /\ stimer_clear \in Timers /\ key \in KeyStates
  BY DEF Typing
<1>2. \A k \in Keys : key'[k].pressed = key[k].pressed
  BY <1>1 DEF Elapse, KeyStates
<1> QED BY <1>1, <1>2 DEF Elapse, Timers

LEMMA InitHolds == Init => HoldCounted /\ ClearCounted
BY DEF Init, Stopped, HoldCounted, ClearCounted

LEMMA ElapseHolds ==
    ASSUME Typing, HoldCounted, ClearCounted, Elapse \/ NoTime, state_clear' = state_clear
    PROVE  HoldCounted' /\ ClearCounted'
<1>1. CASE NoTime
  BY <1>1 DEF NoTime, hist, HoldCounted, ClearCounted
<1>2. CASE Elapse
  <2>1. /\ stimer1.age \in Ages /\ stimer_clear.age \in Ages
        /\ setHeld \in 0 .. NoHold /\ downHeld \in 0 .. NoHold
    BY DEF Typing, Timers
  <2>2. HoldCounted'
    <3> SUFFICES ASSUME stimer1'.cb = "change_mode"
                 PROVE  /\ key'["set"].pressed /\ ~stimer1'.repeat /\ stimer1'.compare = HoldMode
                        /\ setHeld' = IF stimer1'.age < HoldMode THEN stimer1'.age ELSE HoldMode
      BY DEF HoldCounted
    <3>1. stimer1.cb = "change_mode" /\ stimer1'.age = Older(stimer1.age)
      BY <1>2, ElapseAges
    <3>2. key'["set"].pressed /\ ~stimer1'.repeat /\ stimer1'.compare = HoldMode
      BY <1>2, <3>1, ElapseAges DEF HoldCounted, Keys
    <3>3. setHeld = IF stimer1.age < HoldMode THEN stimer1.age ELSE HoldMode
      BY <3>1 DEF HoldCounted
    <3>4. setHeld' = IF setHeld < HoldMode THEN setHeld + 1 ELSE setHeld
      BY <1>2 DEF Elapse
    <3>5. HoldMode \in 1 .. HoldClear
      BY PanelAssumption DEF PanelAssumption
    <3> QED BY <2>1, <3>1, <3>2, <3>3, <3>4, <3>5, Times DEF Older, Ages
  <2>3. ClearCounted'
    <3>1. downHeld' = Older(downHeld) /\ stimer_clear'.age = Older(stimer_clear.age)
      BY <1>2, ElapseAges DEF Elapse
    <3>2. Older(HoldClear) = HoldClear
      BY Times DEF Older
    <3> QED BY <1>2, <3>1, <3>2, ElapseAges DEF ClearCounted
  <2> QED BY <2>2, <2>3
<1> QED BY <1>1, <1>2

LEMMA TimerHolds ==
    ASSUME Typing, HoldCounted, ClearCounted, TimerStep
    PROVE  HoldCounted' /\ ClearCounted'
<1> USE DEF timers, hist
<1>1. CASE Stimer1Waits \/ ClearWaits
  BY <1>1 DEF Stimer1Waits, ClearWaits, HoldCounted, ClearCounted
<1>2. CASE ChangeMode \/ RepeatKey
  <2>1. stimer1'.cb # "change_mode"
    <3>1. CASE ChangeMode
      BY <3>1 DEF ChangeMode, HoldCounted, Rearmed, Stopped
    <3>2. CASE RepeatKey
      BY <3>2 DEF RepeatKey, Rearmed, Stopped, Typing, Timers
    <3> QED BY <1>2, <3>1, <3>2
  <2>2. UNCHANGED <<stimer_clear, state_clear, downHeld>>
    BY <1>2 DEF ChangeMode, RepeatKey
  <2> QED BY <2>1, <2>2 DEF HoldCounted, ClearCounted
\* The first stage has lasted HoldClear.
<1>3. CASE WarnClear
  <2>1. HoldCounted'
    BY <1>3 DEF WarnClear, HoldCounted
  <2>2. /\ stimer_clear.repeat /\ stimer_clear.cb = "clear_param"
        /\ stimer_clear.compare = HoldClear /\ downHeld = stimer_clear.age
        /\ stimer_clear.age >= HoldClear
    BY <1>3 DEF WarnClear, ClearCounted, Expires
  <2>3. downHeld = HoldClear
    BY <2>2, Times DEF Typing, Timers, Ages
  <2>4. stimer_clear' = [stimer_clear EXCEPT !.compare = Confirm, !.age = 0]
    BY <1>3, <2>2 DEF WarnClear, Rearmed, Typing, Timers
  <2> QED BY <1>3, <2>1, <2>2, <2>3, <2>4 DEF WarnClear, ClearCounted, Typing, Timers
<1>4. CASE WipeWifi
  <2>1. stimer_clear' = Stopped
    BY <1>4 DEF WipeWifi, Rearmed, Typing, Timers
  <2> QED BY <1>4, <2>1 DEF WipeWifi, HoldCounted, ClearCounted, Stopped
<1> QED BY <1>1, <1>2, <1>3, <1>4 DEF TimerStep

LEMMA KeyHolds ==
    ASSUME Typing, HoldCounted, ClearCounted, KeyStep
    PROVE  HoldCounted' /\ ClearCounted'
<1> USE DEF timers, hist
<1>0. key \in KeyStates
  BY DEF Typing
<1>1. ASSUME NEW k \in Keys, KeyQuiet(k)
      PROVE  HoldCounted' /\ ClearCounted'
  <2>1. key'["set"].pressed = key["set"].pressed
    BY <1>0, <1>1, ReadingsPressed DEF KeyQuiet, Keys, KeyStates
  <2> QED BY <1>1, <2>1 DEF KeyQuiet, HoldCounted, ClearCounted
<1>2. CASE HoldSet
  <2>1. key'["set"].pressed
    BY <1>0, <1>2, PressPressed DEF HoldSet, Keys
  <2> QED BY <1>2, <2>1, Times DEF HoldSet, Started, HoldCounted, ClearCounted
<1>3. CASE NextForm \/ SaveAndRun
  <2>1. key'["set"].pressed
    BY <1>0, <1>3, PressPressed DEF NextForm, SaveAndRun, Keys
  <2>2. UNCHANGED <<stimer1, stimer_clear, state_clear, setHeld, downHeld>>
    BY <1>3 DEF NextForm, SaveAndRun
  <2> QED BY <2>1, <2>2 DEF HoldCounted, ClearCounted
<1>4. CASE SetRelease \/ UpPress \/ UpRelease
  BY <1>4 DEF SetRelease, UpPress, UpRelease, Stopped, Started, HoldCounted, ClearCounted
<1>5. CASE DownPress
  <2>1. HoldCounted'
    BY <1>5 DEF DownPress, Started, HoldCounted
  <2> QED BY <1>5, <2>1 DEF DownPress, Started, ClearCounted
<1>6. CASE DownRelease
  BY <1>6 DEF DownRelease, Stopped, HoldCounted, ClearCounted
<1> QED BY <1>1, <1>2, <1>3, <1>4, <1>5, <1>6 DEF KeyStep

LEMMA NextHolds ==
    ASSUME Typing, HoldCounted, ClearCounted, [Next]_vars
    PROVE  HoldCounted' /\ ClearCounted'
<1>1. CASE FormStep
  <2>1. (Elapse \/ NoTime) /\ state_clear' = state_clear
    BY <1>1 DEF FormStep, SwitchForm, RunForm
  <2> QED BY <2>1, ElapseHolds
<1>2. CASE UploadWaits
  BY <1>2, ElapseHolds DEF UploadWaits
<1>3. CASE WebParam \/ WebSave \/ WebWifi \/ UploadToggles
  BY <1>3 DEF WebParam, WebSave, WebWifi, UploadToggles, timers, hist, HoldCounted, ClearCounted
<1>4. CASE Reboot
  BY <1>4 DEF Reboot, Stopped, HoldCounted, ClearCounted
<1>5. CASE UNCHANGED vars
  BY <1>5 DEF vars, timers, hist, HoldCounted, ClearCounted
<1> QED BY <1>1, <1>2, <1>3, <1>4, <1>5, TimerHolds, KeyHolds DEF Next, Web

-------------------------------------------------------------------------------
(* Setup saves what it set.                                                    *)

\* The parameters are what the next boot loads, but for the last form's.
Same(r, s) == /\ DOMAIN r = DOMAIN s
              /\ \A x \in DOMAIN r \ {"SpeedTia"} : r[x] = s[x]

LEMMA InitSaved == Init => NextTaken /\ SavePending /\ SetupIsSaved
<1> SUFFICES ASSUME Init PROVE NextTaken /\ SavePending /\ SetupIsSaved
  OBVIOUS
<1>1. Limited(ram) /\ ram = Loaded(saved)
  BY InitTyped DEF Typing, Init
<1>2. ram.SpeedTia \in Nat
  BY <1>1, PanelAssumption DEF PanelAssumption, Limited, Fields
<1> QED BY <1>1, <1>2 DEF Init, NextTaken, SavePending, SetupIsSaved

\* A step of the timers saves nothing; in form_run it changes no parameter.
LEMMA TimerSaved ==
    ASSUME Typing, SavePending, SetupIsSaved, TimerStep
    PROVE  SavePending' /\ SetupIsSaved'
<1> USE DEF timers, params
<1>1. at \in {"stimer1", "clear"}
  BY DEF TimerStep, Stimer1Waits, ChangeMode, RepeatKey, ClearWaits, WarnClear, WipeWifi, Step
<1>2. unsaved \/ form = "run" \/ next # "run"
  BY <1>1 DEF SavePending
<1>3. CASE Stimer1Waits \/ ClearWaits \/ WarnClear
  BY <1>2, <1>3 DEF Stimer1Waits, ClearWaits, WarnClear, SavePending, SetupIsSaved
<1>4. CASE ChangeMode
  BY <1>2, <1>4 DEF ChangeMode, SavePending, SetupIsSaved
<1>5. CASE RepeatKey
  <2>1. form = "run" => ram' = ram
    BY <1>5 DEF RepeatKey, Raised, Lowered, FieldOf
  <2> QED BY <1>2, <1>5, <2>1 DEF RepeatKey, SavePending, SetupIsSaved
<1>6. CASE WipeWifi
  BY <1>6 DEF WipeWifi, SavePending, SetupIsSaved
<1> QED BY <1>3, <1>4, <1>5, <1>6 DEF TimerStep

\* UP and DOWN in the pass that has saved.
LEMMA UpSaved ==
    ASSUME Typing, SavePending, SetupIsSaved, UpRelease \/ DownRelease
    PROVE  SavePending' /\ SetupIsSaved'
<1> USE DEF timers, params
<1>1. UNCHANGED <<form, next, saved, unsaved>>
  BY DEF UpRelease, DownRelease
<1>2. ram' = Raised(ram) \/ ram' = Lowered(ram)
  BY DEF UpRelease, DownRelease
<1>3. CASE form = "run"
  BY <1>1, <1>2, <1>3 DEF Raised, Lowered, FieldOf, SavePending, SetupIsSaved
<1>4. CASE form # "run"
  <2>1. SetupIsSaved'
    BY <1>1, <1>4 DEF SetupIsSaved
  <2> SUFFICES ASSUME next = "run", ~unsaved PROVE SavePending'
    BY <1>1, <2>1 DEF SavePending
  <2>2. /\ form = "set_td_tia" /\ at \in {"up", "down", "form"}
        /\ \A x \in DOMAIN ram \ {"SpeedTia"} : ram[x] = Loaded(saved)[x]
        /\ at = "up" => ram.SpeedTia = Loaded(saved).SpeedTia
        /\ at # "form" => Loaded(saved).SpeedTia <= ram.SpeedTia
        /\ ram.SpeedTia <= Loaded(saved).SpeedTia + 1
        /\ Loaded(saved).SpeedTia <= ram.SpeedTia + 1
    BY <1>4 DEF SavePending
  <2>3. ram.SpeedTia \in Nat /\ Loaded(saved).SpeedTia \in Nat /\ "SpeedTia" \in DOMAIN ram
    BY LoadedLimits, PanelAssumption DEF PanelAssumption, Typing, Limited, Fields
  <2>4. /\ DOMAIN ram' = DOMAIN ram
        /\ \A x \in DOMAIN ram \ {"SpeedTia"} : ram'[x] = ram[x]
    BY <1>2, <2>2 DEF Raised, Lowered, FieldOf
  <2>5. Loaded(saved)' = Loaded(saved)
    BY <1>1 DEF Loaded, Clamped
  <2>6. CASE UpRelease
    <3>1. at = "up" /\ at' = "down"
      BY <2>6 DEF UpRelease, Release, Step, After
    <3>2. ram'.SpeedTia \in {ram.SpeedTia, ram.SpeedTia + 1}
      BY <2>2, <2>3, <2>6 DEF UpRelease, Raised, FieldOf
    <3> QED BY <1>1, <2>2, <2>3, <2>4, <2>5, <3>1, <3>2 DEF SavePending
  <2>7. CASE DownRelease
    <3>1. at = "down" /\ at' = "form"
      BY <2>7 DEF DownRelease, Release, Step, After
    <3>2. ram'.SpeedTia \in {ram.SpeedTia, ram.SpeedTia - 1}
      BY <2>2, <2>3, <2>7 DEF DownRelease, Lowered, FieldOf
    <3> QED BY <1>1, <2>2, <2>3, <2>4, <2>5, <3>1, <3>2 DEF SavePending
  <2> QED BY <2>6, <2>7
<1> QED BY <1>3, <1>4

LEMMA KeySaved ==
    ASSUME Typing, SavePending, SetupIsSaved, KeyStep
    PROVE  SavePending' /\ SetupIsSaved'
<1> USE DEF timers, params
<1>1. CASE SaveAndRun
  <2>1. /\ saved' = ram /\ ram' = ram /\ form' = "set_td_tia" /\ at' = "up"
    BY <1>1 DEF SaveAndRun, Press, Step, After
  <2>2. Loaded(saved)' = Loaded(ram)
    BY <2>1 DEF Loaded, Clamped
  <2>3. \A x \in DOMAIN ram : Loaded(ram)[x] = ram[x]
    BY LoadedSame DEF Typing
  <2>4. ram.SpeedTia \in Nat /\ "SpeedTia" \in DOMAIN ram
    BY PanelAssumption DEF PanelAssumption, Typing, Limited, Fields
  <2> QED BY <2>1, <2>2, <2>3, <2>4 DEF SavePending, SetupIsSaved
<1>2. CASE UpRelease \/ DownRelease
  BY <1>2, UpSaved
<1>3. CASE (\E k \in Keys : KeyQuiet(k)) \/ HoldSet \/ SetRelease \/ UpPress \/ DownPress
  <2>1. UNCHANGED <<form, next, ram, saved, unsaved>>
    BY <1>3 DEF KeyQuiet, HoldSet, SetRelease, UpPress, DownPress
  <2>2. Loaded(saved)' = Loaded(saved)
    BY <2>1 DEF Loaded, Clamped
  <2>3. \E k \in Keys : Step(k)
    BY <1>3 DEF KeyQuiet, HoldSet, SetRelease, UpPress, DownPress, Press, Release, Keys
  <2>4. <<at, at'>> \in {<<"set", "up">>, <<"up", "down">>, <<"down", "form">>}
    BY <2>3 DEF Step, After, Keys
  <2> QED BY <2>1, <2>2, <2>4 DEF SavePending, SetupIsSaved
<1>4. CASE NextForm
  <2>1. next' \in {"set_cot", "set_tia", "set_td_cot", "set_td_tia"}
    BY <1>4 DEF NextForm, Following, Typing, Forms
  <2>2. form' # "run"
    BY <1>4 DEF NextForm
  <2> QED BY <2>1, <2>2 DEF SavePending, SetupIsSaved
<1> QED BY <1>1, <1>2, <1>3, <1>4 DEF KeyStep

LEMMA FormSaved ==
    ASSUME Typing, SavePending, SetupIsSaved, FormStep
    PROVE  SavePending' /\ SetupIsSaved'
<1> USE DEF params
<1>1. UNCHANGED <<ram, saved, unsaved>>
  BY DEF FormStep, SwitchForm, RunForm
<1>2. Loaded(saved)' = Loaded(saved)
  BY <1>1 DEF Loaded, Clamped
<1>3. CASE SwitchForm
  BY <1>1, <1>2, <1>3 DEF SwitchForm, SavePending, SetupIsSaved
<1>4. CASE RunForm
  BY <1>1, <1>2, <1>4 DEF RunForm, SavePending, SetupIsSaved
<1> QED BY <1>3, <1>4 DEF FormStep

LEMMA WebSaved ==
    ASSUME Typing, NextTaken, SavePending, SetupIsSaved, Web \/ Reboot
    PROVE  SavePending' /\ SetupIsSaved'
<1> USE DEF timers, params
<1>1. CASE WebParam
  BY <1>1 DEF WebParam, SavePending, SetupIsSaved
<1>2. CASE WebSave
  <2>1. saved' = ram /\ ram' = ram /\ form' = form /\ next' = next /\ at = "stimer1" /\ at' = at
    BY <1>2 DEF WebSave
  <2>2. Loaded(saved)' = Loaded(ram)
    BY <2>1 DEF Loaded, Clamped
  <2>3. \A x \in DOMAIN ram : Loaded(ram)[x] = ram[x]
    BY LoadedSame DEF Typing
  <2>4. ram.SpeedTia \in Nat /\ "SpeedTia" \in DOMAIN ram
    BY PanelAssumption DEF PanelAssumption, Typing, Limited, Fields
  <2>5. SetupIsSaved'
    BY <2>1, <2>2, <2>3, <2>4 DEF SetupIsSaved
  <2> QED BY <2>1, <2>5 DEF NextTaken, SavePending
<1>3. CASE WebWifi \/ UploadToggles \/ UploadWaits
  <2>1. UNCHANGED <<at, form, next, ram, saved, unsaved>>
    BY <1>3 DEF WebWifi, UploadToggles, UploadWaits
  <2>2. Loaded(saved)' = Loaded(saved)
    BY <2>1 DEF Loaded, Clamped
  <2> QED BY <2>1, <2>2 DEF SavePending, SetupIsSaved
<1>4. CASE Reboot
  <2>1. saved' = saved /\ ram' = Loaded(saved) /\ form' = "run"
    BY <1>4 DEF Reboot
  <2>2. Loaded(saved)' = Loaded(saved)
    BY <2>1 DEF Loaded, Clamped
  <2>3. Loaded(saved).SpeedTia \in Nat
    BY LoadedLimits, PanelAssumption DEF PanelAssumption, Limited, Fields
  <2> QED BY <2>1, <2>2, <2>3 DEF SavePending, SetupIsSaved
<1> QED BY <1>1, <1>2, <1>3, <1>4 DEF Web

LEMMA NextSaved ==
    ASSUME Typing, NextTaken, SavePending, SetupIsSaved, [Next]_vars
    PROVE  SavePending' /\ SetupIsSaved'
<1>1. CASE UNCHANGED vars
  <2>1. Loaded(saved)' = Loaded(saved)
    BY <1>1 DEF vars, params, Loaded, Clamped
  <2> QED BY <1>1, <2>1 DEF vars, params, SavePending, SetupIsSaved
<1> QED BY <1>1, TimerSaved, KeySaved, FormSaved, WebSaved DEF Next

\* A form that is due is switched to at the end of the pass.
LEMMA NextTakes ==
    ASSUME NextTaken, [Next]_vars
    PROVE  NextTaken'
<1> USE DEF NextTaken
<1>1. CASE TimerStep
  BY <1>1 DEF TimerStep, Stimer1Waits, ChangeMode, RepeatKey, ClearWaits, WarnClear,
              WipeWifi, Step, After
<1>2. CASE KeyStep
  BY <1>2 DEF KeyStep, KeyQuiet, HoldSet, NextForm, SaveAndRun, SetRelease, UpPress,
              UpRelease, DownPress, DownRelease, Press, Release, Step, After, Keys
<1>3. CASE FormStep
  BY <1>3 DEF FormStep, SwitchForm, RunForm
<1>4. CASE Web
  BY <1>4 DEF Web, WebParam, WebSave, WebWifi, UploadToggles, UploadWaits
<1>5. CASE Reboot \/ UNCHANGED vars
  BY <1>5 DEF Reboot, vars
<1> QED BY <1>1, <1>2, <1>3, <1>4, <1>5 DEF Next

-------------------------------------------------------------------------------
(* The results.                                                                *)

\* The inductive invariant holds, with whatever times, limits and LED types.
THEOREM PanelInvariance == Spec => []IInv
<1>1. Init => IInv
  BY InitTyped, InitHolds, InitSaved, Typed DEF IInv
<1>2. IInv /\ [Next]_vars => IInv'
  <2>1. Typing' <=> TypeOK'
    BY Typed, PTL
  <2> QED BY <2>1, Typed, NextTyped, NextHolds, NextTakes, NextSaved DEF IInv
<1> QED BY <1>1, <1>2, PTL DEF Spec

\* Leaving setup has saved what it set, but for one release in the same pass.
THEOREM SetupSaved == Spec => []SetupIsSaved
BY PanelInvariance, PTL DEF IInv

\* Setup is entered only when SET has been held from form_run for HoldMode.
THEOREM HoldForMode == Spec => ModeNeedsHold
<1>1. IInv /\ [Next]_vars =>
        (next' = "set_type_led" /\ next # "set_type_led" =>
            form = "run" /\ key["set"].pressed /\ setHeld = HoldMode)
  <2> SUFFICES ASSUME IInv, [Next]_vars, next' = "set_type_led", next # "set_type_led"
               PROVE  form = "run" /\ key["set"].pressed /\ setHeld = HoldMode
    OBVIOUS
  <2>1. ChangeMode
    <3>1. CASE TimerStep
      BY <3>1 DEF TimerStep, Stimer1Waits, RepeatKey, ClearWaits, WarnClear, WipeWifi
    <3>2. CASE KeyStep
      <4>1. \A f \in DOMAIN Following : Following[f] # "set_type_led"
        BY DEF Following
      <4>2. form \in Forms
        BY DEF IInv, TypeOK
      <4> QED
        BY <3>2, <4>1, <4>2
        DEF KeyStep, KeyQuiet, HoldSet, NextForm, SaveAndRun, SetRelease, UpPress,
            UpRelease, DownPress, DownRelease, Following, Forms
    <3>3. CASE FormStep
      BY <3>3 DEF FormStep, SwitchForm, RunForm
    <3>4. CASE Web \/ Reboot \/ UNCHANGED vars
      BY <3>4 DEF Web, WebParam, WebSave, WebWifi, UploadToggles, UploadWaits, Reboot, vars
    <3> QED BY <3>1, <3>2, <3>3, <3>4 DEF Next
  <2>2. stimer1.cb = "change_mode" /\ form = "run" /\ stimer1.age >= stimer1.compare
    BY <2>1 DEF ChangeMode, InRunMode, Expires
  <2>3. stimer1.age \in Nat
    BY Times DEF IInv, TypeOK, Timers, Ages
  <2> QED BY <2>2, <2>3, Times DEF IInv, HoldCounted
<1> QED BY <1>1, PanelInvariance, PTL DEF Spec, ModeNeedsHold

\* The wifi settings are wiped only HoldClear or more after a press of DOWN.
THEOREM HoldForWipe == Spec => WipeNotEarly
<1>1. IInv /\ [Next]_vars => (wifi /\ ~wifi' => downHeld = HoldClear)
  <2> SUFFICES ASSUME IInv, [Next]_vars, wifi, ~wifi' PROVE downHeld = HoldClear
    OBVIOUS
  <2>1. WipeWifi
    <3>1. CASE TimerStep
      BY <3>1 DEF TimerStep, Stimer1Waits, ChangeMode, RepeatKey, ClearWaits, WarnClear
    <3>2. CASE KeyStep
      BY <3>2 DEF KeyStep, KeyQuiet, HoldSet, NextForm, SaveAndRun, SetRelease, UpPress,
                  UpRelease, DownPress, DownRelease
    <3>3. CASE FormStep
      BY <3>3 DEF FormStep, SwitchForm, RunForm
    <3>4. CASE Web \/ Reboot \/ UNCHANGED vars
      BY <3>4 DEF Web, WebParam, WebSave, WebWifi, UploadToggles, UploadWaits, Reboot, vars
    <3> QED BY <3>1, <3>2, <3>3, <3>4 DEF Next
  <2>2. stimer_clear.cb # "none" /\ stimer_clear.age >= stimer_clear.compare
    BY <2>1 DEF WipeWifi, Expires
  <2>3. stimer_clear.age \in 0 .. HoldClear
    BY DEF IInv, TypeOK, Timers, Ages
  <2> QED BY <2>2, <2>3, Times DEF IInv, ClearCounted
<1> QED BY <1>1, PanelInvariance, PTL DEF Spec, WipeNotEarly
===============================================================================
