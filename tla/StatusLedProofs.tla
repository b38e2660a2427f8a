---------------------------- MODULE StatusLedProofs ----------------------------
(* Theorems about StatusLed, for every set of configurations, duty cycle and     *)
(* width of the counter.                                                         *)
EXTENDS StatusLed, TLAPS

\* The times are those of two configurations at most, so a round is shorter than
\* the counter.
Mixed ==
    \E c, d \in Configs \union {Zero} : set.On = c.On /\ set.Off = d.Off

\* The types, with what the pin shows: a LED of brightness 0 is dark too.
LedInv ==
    /\ TypeOK
    /\ Mixed
    /\ fresh => /\ set.Repeat # 0
                /\ set.On > 0 /\ set.Off = 0 /\ set.Brightness = DutyMax => out
                /\ set.On = 0 \/ set.Brightness = 0 => ~out

\* How far into its round the LED is.
Elapsed == Since(tick, interval.On)

\* In a round begun since the last store, the off phase follows the on phase, and
\* pin and age say where in it the LED is.
Round ==
    /\ fresh
    /\ interval.Off = After(interval.On, set.On)
    /\ Elapsed < set.On + set.Off \/ Elapsed = 0
    /\ set.On > 0 /\ set.Off > 0 /\ set.Brightness = DutyMax =>
          /\ out <=> Elapsed < set.On
          /\ age = IF Elapsed < set.On THEN Elapsed + 1 ELSE Elapsed - set.On + 1

RoundInv == whole => Round

-------------------------------------------------------------------------------
\* Sums of times stay in the counter's range.
LEMMA Counter ==
    ASSUME NEW t \in 0 .. Wrap - 1, NEW n \in 0 .. Wrap - 1
    PROVE  After(t, n) \in 0 .. Wrap - 1
  BY LedAssumption DEF LedAssumption, After

\* A round is shorter than the counter.
LEMMA ShortRound ==
    ASSUME TypeOK, Mixed
    PROVE  set.On \in Nat /\ set.Off \in Nat /\ set.On + set.Off < Wrap
  <1>1. PICK c \in Configs \union {Zero}, d \in Configs \union {Zero} :
            set.On = c.On /\ set.Off = d.Off
    BY DEF Mixed
  <1>2. /\ c.On \in Nat /\ c.Off \in Nat /\ d.On \in Nat /\ d.Off \in Nat
    BY LedAssumption DEF LedAssumption, Zero
  <1>3. c.On + d.Off < Wrap
    BY <1>2, LedAssumption DEF LedAssumption, Zero
  <1> QED
    BY <1>1, <1>2, <1>3

\* The next tick is a time of the counter.
LEMMA NowTyped ==
    ASSUME TypeOK
    PROVE  Now \in 0 .. Wrap - 1
  BY LedAssumption DEF LedAssumption, TypeOK, Now, After

-------------------------------------------------------------------------------
LEMMA LedInvInit == Init => LedInv
  <1> SUFFICES ASSUME Init PROVE LedInv
    OBVIOUS
  <1>1. TypeOK
    <2>1. DutyMax \in Nat \ {0} /\ Wrap \in Nat \ {0}
      BY LedAssumption DEF LedAssumption
    <2>2. set \in [Brightness : {0, DutyMax}, On : Nat, Off : Nat, Repeat : {-1, 0}]
      BY <2>1 DEF Init, Zero
    <2>3. want \in Configs \union {Zero}
      BY DEF Init
    <2>4. /\ tick \in 0 .. Wrap - 1 /\ duty \in 0 .. DutyMax - 1 /\ age \in Nat
          /\ interval \in [On : 0 .. Wrap - 1, Off : 0 .. Wrap - 1]
      BY <2>1 DEF Init
    <2>5. /\ out \in BOOLEAN /\ fresh \in BOOLEAN /\ whole \in BOOLEAN
          /\ todo \subseteq Members
      BY DEF Init
    <2> QED
      BY <2>2, <2>3, <2>4, <2>5 DEF TypeOK
  <1>2. Mixed
    BY DEF Init, Mixed
  <1> QED
    BY <1>1, <1>2 DEF Init, LedInv

LEMMA LedInvStep == LedInv /\ [Next]_vars => LedInv'
  <1> SUFFICES ASSUME LedInv, [Next]_vars PROVE LedInv'
    OBVIOUS
  <1>0. TypeOK /\ Mixed /\ set.On \in Nat /\ set.Off \in Nat
    BY ShortRound DEF LedInv
  <1>1. CASE InterruptIdle
    BY <1>0, <1>1, NowTyped DEF LedInv, TypeOK, InterruptIdle, Mixed, main, history
  <1>2. CASE InterruptInPhase
    <2>1. out' = (duty < set.Brightness /\ InOn) /\ set' = set /\ fresh'
      BY <1>2 DEF InterruptInPhase, Drive
    <2>2. TypeOK'
      <3>1. age' \in Nat
        BY <1>0, <1>2 DEF InterruptInPhase, TypeOK
      <3>2. out' \in BOOLEAN /\ fresh' \in BOOLEAN /\ whole' \in BOOLEAN
        BY <1>0, <1>2, Zenon DEF InterruptInPhase, Drive, TypeOK
      <3>3. tick' \in 0 .. Wrap - 1 /\ duty' \in 0 .. DutyMax - 1
        BY <1>0, <1>2, NowTyped, LedAssumption
        DEF InterruptInPhase, Drive, TypeOK, LedAssumption
      <3> QED
        BY <1>0, <1>2, <3>1, <3>2, <3>3 DEF InterruptInPhase, Drive, TypeOK, main
    <2>3. Mixed'
      BY <1>0, <2>1 DEF Mixed
    <2>4. set.On > 0 /\ set.Off = 0 => InOn
      <3> SUFFICES ASSUME set.Off = 0, ~InOn PROVE FALSE
        OBVIOUS
      <3>1. Since(Now, interval.Off) < 0
        BY <1>2 DEF InterruptInPhase, InOff
      <3> QED
        BY <1>0, <3>1, NowTyped, LedAssumption DEF TypeOK, Since, LedAssumption
    <2>5. set.On = 0 => ~InOn
      BY <1>0, NowTyped, LedAssumption DEF TypeOK, InOn, Since, LedAssumption
    <2>6. duty < DutyMax /\ ~(duty < 0)
      BY <1>0, LedAssumption DEF TypeOK, LedAssumption
    <2>7. set.Repeat # 0
      BY <1>2 DEF InterruptInPhase
    <2> QED
      BY <2>1, <2>2, <2>3, <2>4, <2>5, <2>6, <2>7 DEF LedInv
  <1>3. CASE InterruptNewRound
    <2>1. /\ out' = (duty < set.Brightness /\ set.On > 0) /\ fresh'
          /\ set.Repeat # 0
      BY <1>3 DEF InterruptNewRound, Drive
    <2>2. set' = set
      BY <1>0, <1>3 DEF InterruptNewRound, TypeOK
    <2>3. set.On \in 0 .. Wrap - 1
      BY <1>0, ShortRound, LedAssumption DEF LedAssumption
    <2>4. TypeOK'
      <3>1. interval' \in [On : 0 .. Wrap - 1, Off : 0 .. Wrap - 1]
        BY <1>0, <1>3, <2>3, NowTyped, Counter DEF InterruptNewRound
      <3>2. out' \in BOOLEAN /\ fresh' \in BOOLEAN /\ whole' \in BOOLEAN /\ age' \in Nat
        BY <1>3, <2>1 DEF InterruptNewRound
      <3>3. tick' \in 0 .. Wrap - 1 /\ duty' \in 0 .. DutyMax - 1
        BY <1>0, <1>3, NowTyped, LedAssumption
        DEF InterruptNewRound, Drive, TypeOK, LedAssumption
      <3> QED
        BY <1>0, <1>3, <2>2, <3>1, <3>2, <3>3 DEF InterruptNewRound, Drive, TypeOK, main
    <2>5. Mixed'
      BY <1>0, <2>2 DEF Mixed
    <2>6. duty < DutyMax /\ ~(duty < 0)
      BY <1>0, LedAssumption DEF TypeOK, LedAssumption
    <2>7. set.On > 0 /\ set.Brightness = DutyMax => out'
      BY <2>1, <2>6
    <2>8. set.On = 0 \/ set.Brightness = 0 => ~out'
      <3>1. set.On = 0 => ~(set.On > 0)
        OBVIOUS
      <3> QED
        BY <2>1, <2>6, <3>1
    <2>9. (set.Off = 0)' <=> set.Off = 0
      BY <2>2
    <2> QED
      BY <2>1, <2>2, <2>4, <2>5, <2>7, <2>8, <2>9, Zenon DEF LedInv
  <1>4. CASE Configure
    BY <1>0, <1>4 DEF LedInv, TypeOK, Mixed, Configure, Members, history
  <1>5. ASSUME NEW m \in Members, Store(m) PROVE LedInv'
    <2>1. want \in Configs \union {Zero}
      BY <1>0 DEF TypeOK
    <2>2. /\ want.On \in Nat /\ want.Off \in Nat
          /\ want.Brightness \in {0, DutyMax} /\ want.Repeat \in {-1, 0}
      BY <2>1, LedAssumption DEF LedAssumption, Zero
    <2>3. /\ set' = [set EXCEPT ![m] = want[m]]
          /\ m \in {"Brightness", "On", "Off", "Repeat"}
      BY <1>5 DEF Store, Members
    <2>4. set' \in [Brightness : {0, DutyMax}, On : Nat, Off : Nat, Repeat : {-1, 0}]
      BY <1>0, <2>2, <2>3 DEF TypeOK
    <2>5. TypeOK'
      <3>1. fresh' \in BOOLEAN /\ whole' \in BOOLEAN
        BY <1>5 DEF Store
      <3> QED
        BY <1>0, <1>5, <2>4, <3>1 DEF TypeOK, Store
    <2>6. Mixed'
      <3>1. PICK c \in Configs \union {Zero}, d \in Configs \union {Zero} :
                set.On = c.On /\ set.Off = d.Off
        BY <1>0 DEF Mixed
      <3>2. set'.On \in {set.On, want.On} /\ set'.Off \in {set.Off, want.Off}
        BY <1>0, <2>3 DEF TypeOK
      <3> QED
        BY <2>1, <3>1, <3>2 DEF Mixed
    <2>7. fresh' => fresh /\ set' = set /\ out' = out
      BY <1>5 DEF Store
    <2> QED
      BY <2>5, <2>6, <2>7 DEF LedInv
  <1>6. CASE UNCHANGED vars
    BY <1>6 DEF LedInv, TypeOK, Mixed, vars, main, history
  <1> QED
    BY <1>1, <1>2, <1>3, <1>4, <1>5, <1>6 DEF Next, Interrupt

\* Type correctness and more: the pin agrees with the members.
LEMMA LedInvariance == Spec => []LedInv
  BY LedInvInit, LedInvStep, PTL DEF Spec

\* Every variable keeps its type, through the wrap of the counter.
THEOREM LedTypeCorrect == Spec => []TypeOK
  <1>1. LedInv => TypeOK
    BY DEF LedInv
  <1> QED
    BY <1>1, LedInvariance, PTL

\* Whatever the members say, whole or half stored, in whatever order, the pin
\* shows it from the next tick on.
THEOREM LedShown == Spec => []Shown
  <1>1. LedInv => Shown
    BY DEF LedInv, Shown
  <1> QED
    BY <1>1, LedInvariance, PTL
-------------------------------------------------------------------------------
LEMMA RoundInvInit == Init => RoundInv
  BY DEF Init, RoundInv

\* A tick in a round, from the facts of a LED that blinks.
LEMMA InRound ==
    ASSUME LedInv, RoundInv, whole
    PROVE  /\ set.On \in Nat /\ set.Off \in Nat /\ set.On + set.Off < Wrap
           /\ Elapsed \in Nat
           /\ Elapsed + 1 < Wrap => Since(Now, interval.On) = Elapsed + 1
           /\ Elapsed + 1 < Wrap /\ set.On <= Elapsed + 1 =>
                 Since(Now, interval.Off) = Elapsed + 1 - set.On
  <1>1. /\ tick \in 0 .. Wrap - 1 /\ interval.On \in 0 .. Wrap - 1
        /\ interval.Off = After(interval.On, set.On)
        /\ Wrap \in Nat \ {0}
    BY LedAssumption DEF LedInv, TypeOK, RoundInv, Round, LedAssumption
  <1>2. set.On \in Nat /\ set.Off \in Nat /\ set.On + set.Off < Wrap
    BY ShortRound DEF LedInv
  <1>3. Elapsed \in 0 .. Wrap - 1
    BY <1>1 DEF Elapsed, Since
  <1>4. Elapsed + 1 < Wrap => Since(Now, interval.On) = Elapsed + 1
    BY <1>1, <1>3 DEF Elapsed, Since, Now, After
  <1>5. Elapsed + 1 < Wrap /\ set.On <= Elapsed + 1 =>
            Since(Now, interval.Off) = Elapsed + 1 - set.On
    BY <1>1, <1>2, <1>3 DEF Elapsed, Since, Now, After
  <1> QED
    BY <1>2, <1>3, <1>4, <1>5

LEMMA RoundInvStep == LedInv /\ LedInv' /\ RoundInv /\ [Next]_vars => RoundInv'
  <1> SUFFICES ASSUME LedInv, LedInv', RoundInv, [Next]_vars, whole' PROVE Round'
    BY DEF RoundInv
  <1>1. CASE InterruptIdle
    <2>1. fresh /\ set.Repeat = 0
      BY <1>1 DEF InterruptIdle, history, RoundInv, Round
    <2> QED
      BY <2>1 DEF LedInv
  <1>2. CASE InterruptInPhase
    <2>1. /\ whole /\ fresh' /\ set' = set /\ interval' = interval
          /\ (InOn \/ InOff) /\ tick' = Now
          /\ age' = (IF out' = out THEN age + 1 ELSE 1)
          /\ out' = (duty < set.Brightness /\ InOn)
      BY <1>2 DEF InterruptInPhase, Drive
    <2>2. /\ set.On \in Nat /\ set.Off \in Nat /\ set.On + set.Off < Wrap
          /\ Elapsed \in Nat
          /\ Elapsed + 1 < Wrap => Since(Now, interval.On) = Elapsed + 1
          /\ Elapsed + 1 < Wrap /\ set.On <= Elapsed + 1 =>
                Since(Now, interval.Off) = Elapsed + 1 - set.On
          /\ Wrap \in Nat
      BY <2>1, InRound, LedAssumption DEF LedAssumption
    <2>3. Elapsed < set.On + set.Off \/ Elapsed = 0
      BY <2>1 DEF RoundInv, Round
    <2>4. Elapsed' = Since(Now, interval.On)
      BY <2>1 DEF Elapsed
    <2>5. Elapsed + 1 < Wrap
      <3>1. CASE Elapsed < set.On + set.Off
        BY <2>2, <3>1
      <3>2. CASE Elapsed = 0 /\ set.On + set.Off > 0
        BY <2>2, <3>2
      <3>3. CASE set.On = 0 /\ set.Off = 0
        <4>1. Since(Now, interval.On) < 0 \/ Since(Now, interval.Off) < 0
          BY <2>1, <3>3 DEF InOn, InOff
        <4> QED
          BY <4>1, NowTyped, LedAssumption DEF LedInv, TypeOK, Since, LedAssumption
      <3> QED
        BY <2>2, <2>3, <3>1, <3>2, <3>3
    <2>6. Elapsed' = Elapsed + 1 /\ Elapsed + 1 < set.On + set.Off
      BY <2>1, <2>2, <2>4, <2>5 DEF InOn, InOff
    <2>7. ASSUME set.On > 0, set.Off > 0, set.Brightness = DutyMax
          PROVE  /\ out' <=> Elapsed' < set.On
                 /\ age' = IF Elapsed' < set.On THEN Elapsed' + 1
                                               ELSE Elapsed' - set.On + 1
      <3>1. duty < DutyMax
        BY LedAssumption DEF LedInv, TypeOK, LedAssumption
      <3>2. /\ out <=> Elapsed < set.On
            /\ age = IF Elapsed < set.On THEN Elapsed + 1 ELSE Elapsed - set.On + 1
        BY <2>1, <2>7 DEF RoundInv, Round
      <3>3. out' <=> Elapsed' < set.On
        BY <2>1, <2>4, <2>7, <3>1 DEF InOn
      <3>4. ASSUME out' = out
            PROVE  age' = IF Elapsed' < set.On THEN Elapsed' + 1
                                          ELSE Elapsed' - set.On + 1
        <4>1. Elapsed < set.On <=> Elapsed + 1 < set.On
          BY <2>6, <3>2, <3>3, <3>4
        <4>2. age' = age + 1
          BY <2>1, <3>4
        <4> QED
          BY <2>2, <2>6, <3>2, <4>1, <4>2
      <3>5. ASSUME out' # out
            PROVE  age' = IF Elapsed' < set.On THEN Elapsed' + 1
                                          ELSE Elapsed' - set.On + 1
        <4>1. out \in BOOLEAN /\ out' \in BOOLEAN
          BY DEF LedInv, TypeOK
        <4>2. Elapsed + 1 = set.On
          <5>1. (Elapsed < set.On) # (Elapsed + 1 < set.On)
            BY <2>6, <3>2, <3>3, <3>5, <4>1, Zenon
          <5> QED
            BY <2>2, <5>1
        <4> QED
          BY <2>1, <2>2, <2>6, <3>5, <4>2
      <3> QED
        BY <3>3, <3>4, <3>5
    <2> QED
      BY <2>1, <2>6, <2>7 DEF RoundInv, Round
  <1>3. CASE InterruptNewRound
    <2>1. /\ fresh' /\ tick' = Now /\ age' = 1
          /\ interval' = [On |-> Now, Off |-> After(Now, set.On)]
          /\ out' = (duty < set.Brightness /\ set.On > 0)
      BY <1>3 DEF InterruptNewRound, Drive
    <2>2. set' = set
      BY <1>3 DEF InterruptNewRound, LedInv, TypeOK
    <2>3. Elapsed' = 0
      BY <2>1, NowTyped, LedAssumption DEF Elapsed, Since, LedInv, LedAssumption
    <2>4. duty < DutyMax
      BY LedAssumption DEF LedInv, TypeOK, LedAssumption
    <2>5. set.On > 0 /\ set.Brightness = DutyMax => out'
      BY <2>1, <2>4
    <2> QED
      BY <2>1, <2>2, <2>3, <2>5 DEF Round
  <1>4. CASE Configure
    BY <1>4 DEF RoundInv, Round, Elapsed, Configure, history
  <1>5. ASSUME NEW m \in Members, Store(m) PROVE Round'
    <2>1. /\ whole /\ set' = set /\ fresh' = (fresh /\ set' = set)
          /\ UNCHANGED <<tick, interval, out, age>>
      BY <1>5 DEF Store
    <2> QED
      BY <2>1 DEF RoundInv, Round, Elapsed
  <1>6. CASE UNCHANGED vars
    BY <1>6 DEF RoundInv, Round, Elapsed, vars, main, history
  <1> QED
    BY <1>1, <1>2, <1>3, <1>4, <1>5, <1>6 DEF Next, Interrupt

LEMMA RoundInvariance == Spec => [](LedInv /\ RoundInv)
  <1>1. Init => LedInv /\ RoundInv
    BY LedInvInit, RoundInvInit
  <1>2. LedInv /\ RoundInv /\ [Next]_vars => (LedInv /\ RoundInv)'
    BY LedInvStep, RoundInvStep
  <1> QED
    BY <1>1, <1>2, PTL DEF Spec

\* Each phase of a blink takes its time to the tick, from the first round on.
THEOREM LedBlinksExactly == Spec => ExactBlink
  <1>1. LedInv /\ LedInv' /\ RoundInv /\ [Next]_vars
            => [out' # out /\ whole /\ whole'
                  => age = IF out THEN set.On ELSE set.Off]_vars
    <2> SUFFICES ASSUME LedInv, LedInv', RoundInv, Next, out' # out, whole
                 PROVE  age = IF out THEN set.On ELSE set.Off
      BY DEF vars
    <2>1. InterruptInPhase \/ InterruptNewRound
      BY DEF Next, Interrupt, InterruptIdle, Configure, Store
    <2>2. /\ Elapsed < set.On + set.Off \/ Elapsed = 0
      BY DEF RoundInv, Round
    <2>3. /\ set.On \in Nat /\ set.Off \in Nat /\ set.On + set.Off < Wrap
          /\ Elapsed \in Nat
          /\ Elapsed + 1 < Wrap => Since(Now, interval.On) = Elapsed + 1
          /\ Elapsed + 1 < Wrap /\ set.On <= Elapsed + 1 =>
                Since(Now, interval.Off) = Elapsed + 1 - set.On
          /\ Wrap \in Nat
      BY InRound, LedAssumption DEF LedAssumption
    <2>4. /\ set.On > 0 /\ set.Off = 0 /\ set.Brightness = DutyMax => out
          /\ set.On = 0 \/ set.Brightness = 0 => ~out
          /\ set.Brightness \in {0, DutyMax}
          /\ out \in BOOLEAN /\ out' \in BOOLEAN
          /\ duty \in Nat /\ duty < DutyMax
      BY LedAssumption DEF LedInv, TypeOK, RoundInv, Round, LedAssumption
    <2>5. set' = set /\ fresh'
      BY <2>1 DEF InterruptInPhase, InterruptNewRound, Drive, LedInv, TypeOK
    <2>6. /\ set.On > 0 /\ set.Off = 0 /\ set.Brightness = DutyMax => out'
          /\ set.On = 0 \/ set.Brightness = 0 => ~out'
      BY <2>5 DEF LedInv
    <2>7. set.On > 0 /\ set.Off > 0 /\ set.Brightness = DutyMax
      <3>1. ~(set.On = 0) /\ ~(set.Brightness = 0)
        BY <2>4, <2>6, Zenon
      <3>2. set.Brightness = DutyMax /\ set.On > 0
        BY <2>3, <2>4, <3>1
      <3>3. ~(set.Off = 0)
        BY <2>4, <2>6, <3>2, Zenon
      <3> QED
        BY <2>3, <3>2, <3>3
    <2>8. /\ out <=> Elapsed < set.On
          /\ age = IF Elapsed < set.On THEN Elapsed + 1 ELSE Elapsed - set.On + 1
          /\ Elapsed < set.On + set.Off \/ Elapsed = 0
      BY <2>7 DEF RoundInv, Round
    <2>9. CASE Elapsed < set.On
      <3>1. out /\ ~out'
        BY <2>4, <2>8, <2>9
      <3>2. ~InOn
        BY <2>1, <2>4, <2>7, <3>1 DEF InterruptInPhase, InterruptNewRound, Drive
      <3>3. Elapsed + 1 = set.On
        BY <2>3, <2>9, <3>2 DEF InOn
      <3> QED
        BY <2>8, <2>9, <3>1, <3>3
    <2>10. CASE ~(Elapsed < set.On)
      <3>1. ~out /\ out'
        BY <2>4, <2>8, <2>10
      <3>2. Elapsed + 1 < Wrap /\ set.On <= Elapsed + 1
        BY <2>2, <2>3, <2>7, <2>10
      <3>3. ~InOn
        BY <2>3, <2>10, <3>2 DEF InOn
      <3>4. ~InOff
        BY <2>1, <3>1, <3>3 DEF InterruptInPhase, InterruptNewRound, Drive
      <3>5. Elapsed + 1 - set.On = set.Off
        BY <2>2, <2>3, <2>7, <2>10, <3>2, <3>3, <3>4 DEF InOff
      <3> QED
        BY <2>3, <2>8, <2>10, <3>1, <3>5
    <2> QED
      BY <2>9, <2>10
  <1> QED
    BY <1>1, RoundInvariance, PTL DEF Spec, ExactBlink
===============================================================================
