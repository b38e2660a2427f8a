------------------------------- MODULE Firework --------------------------------
(* The effect of FIREWORK_Loop: volleys of rockets that climb the column (cot)   *)
(* and burst in the rays (tia) at its top.  The column and the rays each step    *)
(* when their own period is over; the panel and the web page change the number   *)
(* of LEDs of either between two passes.  What the LEDs show is left out.        *)
EXTENDS Integers

CONSTANTS CotSizes,   \* DataSaveRam.SizeCot
          TiaSizes,   \* DataSaveRam.SizeTia
          CotPuts,    \* LEDs of a rocket: 6 .. 9
          Volleys,    \* rockets of a volley, STATE_COT_BAN1 ..: 1 .. 5
          Shots,      \* SolanNoTabe: 1 .. 4
          Giats,      \* flashes after a burst: 24 .. 47
          Types,      \* TypeTiaTable
          Beyond      \* above everything an index is compared with

\* With fewer than two LEDs a column never bursts; with fewer than four, or more
\* than DataPut has room for, the rays' buffers overrun.
ASSUME FireworkAssumption ==
    /\ CotSizes \subseteq 2 .. 256 /\ TiaSizes \subseteq 4 .. 50
    /\ CotPuts \subseteq Nat \ {0} /\ Volleys \subseteq Nat \ {0}
    /\ Beyond \in Nat
    /\ \A put \in CotPuts : /\ \A c \in CotSizes : Beyond > c + put
                           /\ \A t \in TiaSizes : Beyond > put + 2 * t
    /\ Shots \subseteq 1 .. 4 /\ Giats \subseteq Nat \ {0}

VARIABLES
    SizeCot, SizeTia,
    CotState,      \* rockets still to leave in this volley, with the last one; 0: off
    SizePut,       \* ColorCot.SizePut0
    IndexLedCot,   \* the tail of the last rocket
    IndexNo,       \* bursts when it comes to the top
    TiaState,      \* "OFF", "NO" (a burst), "GIAT" (flashing)
    TypeTiaEffect, SoLanNo,
    IndexLedTia,   \* counted during a burst
    IndexRepeat,
    SizePut1,      \* ColorTia.SizePut1 of No1DiemDienDay
    SoLanGiat, IndexGiat,
    due,           \* a burst has reset TimeTia: the rays step in the same pass
    flight,        \* history: the steps of each rocket on its way
    changed        \* history: a size changed during this volley

size == <<SizeCot, SizeTia>>
cot == <<CotState, SizePut, IndexLedCot, IndexNo>>
tia == <<TiaState, TypeTiaEffect, SoLanNo, IndexLedTia, IndexRepeat, SizePut1,
         SoLanGiat, IndexGiat>>
vars == <<size, cot, tia, due, flight, changed>>

\* An index that has missed the value it is compared with counts on; beyond every
\* such value it makes no difference how far.
Plus1(index) == IF index < Beyond THEN index + 1 ELSE index

-------------------------------------------------------------------------------
(* The rays.                                                                   *)

\* The bursts that count down SoLanNo after, and before, they compare it.
After == {"NoTo", "NoTo1DiemDau", "No3PhanVung1Diem", "No1Diem", "No4Diem"}
Before == {"NoToCoTam", "No1DiemCoTam", "No4DiemCoTam", "NoToCoTam2", "No1DiemCoTam2",
           "No4DiemCoTam2", "No2PhanVung", "No3PhanVung"}

ASSUME TypesAssumption == Types \subseteq After \union Before \union {"No1DiemDienDay"}

\* Fault: a burst begins where it should end.
FromEnd(type, n) == SizeTia

\* FIREWROK_NewTia: where IndexLedTia begins, with a center of n LEDs ...
From(type, n) ==
    CASE type \in {"NoTo", "NoTo1DiemDau", "No3PhanVung1Diem", "NoToCoTam"} -> -SizeTia
      [] type = "No1Diem" -> -1
      [] type = "No4Diem" -> -4
      [] type \in {"NoToCoTam2", "No1DiemCoTam", "No1DiemCoTam2", "No4DiemCoTam2"} -> -n
      [] type = "No4DiemCoTam" -> -n - 2
      [] type = "No2PhanVung" -> -(SizeTia \div 2)
      [] type = "No3PhanVung" -> -(SizeTia \div 3)
      [] type = "No1DiemDienDay" -> SizeTia

\* ... where the burst has spread (a byte) ...
Until(type, n) ==
    (CASE type \in {"NoTo", "NoTo1DiemDau", "No4Diem", "No4DiemCoTam", "No4DiemCoTam2"}
             -> SizeTia - 2
       [] type = "No3PhanVung1Diem" -> 1
       [] type = "NoToCoTam" -> SizeTia - n
       [] type = "NoToCoTam2" -> SizeTia + n
       [] type \in {"No1Diem", "No1DiemCoTam", "No1DiemCoTam2"} -> SizeTia - 1
       [] type = "No2PhanVung" -> SizeTia \div 2 - 1
       [] type = "No3PhanVung" -> SizeTia \div 3 - 1
       [] type = "No1DiemDienDay" -> IndexRepeat) % 256

\* Fault: they are not counted anew.
NotCounted(type) == {0}

\* ... and how many bursts the last rocket has.
Bursts(type) ==
    CASE type \in {"No1Diem", "No1DiemCoTam", "No1DiemCoTam2"} -> {6 - n : n \in Shots}
      [] type \in {"No4Diem", "No4DiemCoTam", "No4DiemCoTam2"} -> Shots \intersect 1 .. 3
      [] type \in {"No3PhanVung1Diem", "No2PhanVung", "No3PhanVung"} -> Shots \intersect 1 .. 2
      [] type = "No1DiemDienDay" -> {0}
      [] OTHER -> Shots

\* "step" is 1 when IndexLedTia is counted in the same step.
NewTia(type, step) ==
    /\ \E n \in 1 .. 3 : /\ IndexLedTia' = From(type, n) + step
                         /\ IndexRepeat' = Until(type, n)
    /\ SizePut1' = IF type = "No1DiemDienDay" THEN SizeTia ELSE 0

TatTia ==
    /\ TiaState' = "OFF"
    /\ IndexLedTia' = 0
    /\ UNCHANGED <<IndexRepeat, SizePut1, SoLanGiat, IndexGiat>>

GiatTia ==
    /\ TiaState' = "GIAT"
    /\ SoLanGiat' \in Giats /\ IndexGiat' = 0
    /\ IndexLedTia' = 0
    /\ UNCHANGED <<IndexRepeat, SizePut1>>

\* A burst of these types has spread at once, half or a quarter as fast.
Spread(type) ==
    CASE type = "No2PhanVung" -> 2 * IndexRepeat
      [] type = "No3PhanVung" -> 4 * IndexRepeat
      [] OTHER -> IndexRepeat

Spreading ==
    /\ IndexLedTia' = Plus1(IndexLedTia)
    /\ UNCHANGED <<TiaState, SoLanNo, IndexRepeat, SizePut1, SoLanGiat, IndexGiat>>

\* One burst more, or no more.
Again(more) ==
    /\ SoLanNo' = (SoLanNo + 255) % 256
    /\ IF more
       THEN NewTia(TypeTiaEffect, 1) /\ UNCHANGED <<TiaState, SoLanGiat, IndexGiat>>
       ELSE TatTia \/ GiatTia

\* No1DiemDienDay fills the rays from the end, one LED at a time.
Filling ==
    LET rest == (SizePut1 + 255) % 256 IN
    IF IndexLedTia + 1 < SizePut1 THEN Spreading
    ELSE /\ UNCHANGED SoLanNo
         /\ \/ /\ rest >= SizeTia \div 2
               /\ SizePut1' = rest /\ IndexLedTia' = 1
               /\ UNCHANGED <<TiaState, IndexRepeat, SoLanGiat, IndexGiat>>
            \/ rest < SizeTia \div 2 /\ TatTia

Burst ==
    /\ TiaState = "NO"
    /\ CASE TypeTiaEffect = "No1DiemDienDay" -> Filling
         [] IndexLedTia # Spread(TypeTiaEffect) -> Spreading
         [] TypeTiaEffect \in After -> Again(SoLanNo # 0)
         [] OTHER -> Again(SoLanNo # 1)

Giat ==
    /\ TiaState = "GIAT"
    /\ IF IndexGiat + 1 >= SoLanGiat
       THEN TiaState' = "OFF" /\ UNCHANGED IndexGiat
       ELSE IndexGiat' = IndexGiat + 1 /\ UNCHANGED TiaState
    /\ UNCHANGED <<SoLanNo, IndexLedTia, IndexRepeat, SizePut1, SoLanGiat>>

\* The rays' part of a pass, when their period is over.
StepTia ==
    /\ Burst \/ Giat
    /\ due' = FALSE
    /\ UNCHANGED <<size, cot, TypeTiaEffect, flight, changed>>

-------------------------------------------------------------------------------
(* The column.                                                                 *)

\* Fault: a rocket is taken to be one step longer.
LongPeriod == 2 * SizePut + 2 * SizeTia

\* From one rocket of a volley to the next.
Period == 2 * SizePut + 2 * SizeTia - 1

\* Fault: a volley goes on where the one before stopped.
NoStart == IndexNo

StartNo == 0

\* A new volley, when the rays are off.
Launch ==
    /\ CotState = 0 /\ TiaState = "OFF"
    /\ CotState' \in Volleys
    /\ SizePut' \in CotPuts
    /\ IndexLedCot' = 1 - SizePut' /\ IndexNo' = StartNo
    /\ flight' = {0} /\ changed' = FALSE
    /\ UNCHANGED <<size, tia, due>>

\* The rocket at the top bursts; it is the last of its volley or not.
Explode(rockets) ==
    /\ TypeTiaEffect' \in Types
    /\ SoLanNo' \in IF rockets = 1 THEN Bursts(TypeTiaEffect') ELSE {1}
    /\ NewTia(TypeTiaEffect', 0)
    /\ TiaState' = "NO"
    /\ due' = TRUE
    /\ UNCHANGED <<SoLanGiat, IndexGiat>>

NextLeaves == CotState > 1 /\ Plus1(IndexLedCot) = SizePut + 2 * SizeTia
LastHasGone == CotState = 1 /\ Plus1(IndexLedCot) >= SizeCot + SizePut
AtTop == Plus1(IndexNo) = SizeCot - 1

\* The rockets climb.
Shift ==
    LET rockets == IF NextLeaves \/ LastHasGone THEN CotState - 1 ELSE CotState IN
    /\ CotState # 0
    /\ CotState' = rockets
    /\ IndexLedCot' = IF NextLeaves THEN 1 - SizePut ELSE Plus1(IndexLedCot)
    /\ \/ /\ AtTop
          /\ IndexNo' = Plus1(IndexNo) - Period
          /\ Explode(rockets)
       \/ /\ ~AtTop
          /\ IndexNo' = Plus1(IndexNo)
          /\ UNCHANGED <<tia, due>>
    /\ flight' = IF changed THEN {}
                 ELSE ({steps + 1 : steps \in flight} \ (IF AtTop THEN {SizeCot - 1} ELSE {}))
                          \union (IF NextLeaves THEN {0} ELSE {})
    /\ UNCHANGED <<size, SizePut, changed>>

\* The column's part of a pass.
StepCot == ~due /\ (Launch \/ Shift)

\* The panel's setup or POST {"api_type":"param"}.
SetSize ==
    /\ ~due
    /\ SizeCot' \in CotSizes /\ SizeTia' \in TiaSizes
    /\ size' # size
    /\ changed' = (changed \/ CotState # 0)
    /\ flight' = IF CotState # 0 THEN {} ELSE flight
    /\ UNCHANGED <<cot, tia, due>>

Init ==
    /\ SizeCot \in CotSizes /\ SizeTia \in TiaSizes
    /\ CotState = 0 /\ SizePut = 0 /\ IndexLedCot = 0 /\ IndexNo = 0
    /\ TiaState = "OFF" /\ TypeTiaEffect = "NoTo" /\ SoLanNo = 0
    /\ IndexLedTia = 0 /\ IndexRepeat = 0 /\ SizePut1 = 0
    /\ SoLanGiat = 0 /\ IndexGiat = 0
    /\ due = FALSE
    /\ flight = {} /\ changed = FALSE

Next == StepCot \/ StepTia \/ SetSize

Spec == Init /\ [][Next]_vars

\* Passes go on, and the periods end.
LiveSpec == Spec /\ WF_vars(StepCot) /\ WF_vars(StepTia)
-------------------------------------------------------------------------------
(* Properties.                                                                 *)

\* The type invariant; the bursts left are never counted below zero.
TypeOK ==
    /\ SizeCot \in CotSizes /\ SizeTia \in TiaSizes
    /\ CotState \in Nat /\ SizePut \in CotPuts \union {0}
    /\ IndexLedCot \in Int /\ IndexNo \in Int
    /\ TiaState \in {"OFF", "NO", "GIAT"}
    /\ TypeTiaEffect \in Types \union {"NoTo"}
    /\ SoLanNo \in 0 .. 255
    /\ TiaState = "NO" => SoLanNo \in 0 .. 5
    /\ IndexLedTia \in Int /\ IndexRepeat \in 0 .. 255 /\ SizePut1 \in 0 .. 255
    /\ SoLanGiat \in Giats \union {0} /\ IndexGiat \in 0 .. SoLanGiat
    /\ due \in BOOLEAN /\ changed \in BOOLEAN
    /\ flight \subseteq Nat

\* A burst that counts down first has one left to count.
BurstsLeft == TiaState = "NO" /\ TypeTiaEffect \in Before => SoLanNo # 0

\* The steps of the rocket that has left last.
Youngest == IndexLedCot + SizePut - 1

\* With the sizes left alone, the rockets on their way are a period apart, from the
\* youngest one to the one that bursts next, whose steps IndexNo counts; when all
\* have burst, it counts for the one that has not left yet.
Spaced ==
    /\ IndexNo < SizeCot - 1 /\ Youngest >= 0
    /\ IndexLedCot < IF CotState = 1 THEN SizeCot + SizePut ELSE SizePut + 2 * SizeTia
    /\ IF flight = {} THEN IndexNo = Youngest - Period
       ELSE Youngest \in flight /\ IndexNo \in flight
    /\ \A steps \in flight : /\ Youngest <= steps /\ steps <= IndexNo
                             /\ steps = IndexNo \/ steps + Period \in flight
                             /\ steps = Youngest \/ steps - Period \in flight

\* The inductive invariant of the effect.
IInv ==
    /\ TypeOK /\ BurstsLeft
    /\ CotState # 0 => SizePut # 0
    /\ CotState # 0 /\ ~changed => Spaced
    /\ CotState = 0 \/ changed => flight = {}

\* With the sizes left alone during a volley, each of its rockets bursts when it
\* comes to the top: none goes past it, and none is left when the column is off.
EachBursts ==
    /\ \A steps \in flight : steps < SizeCot - 1
    /\ CotState = 0 => flight = {}

\* Nothing bursts but a rocket at the top.
BurstsAtTop == [][~due /\ due' /\ ~changed => SizeCot - 2 \in flight]_vars

\* The show goes on, volley after volley, unless a size has changed during one.
ShowGoesOn == <>[]~changed => /\ []<>(CotState # 0)
                              /\ []<>(CotState = 0 /\ TiaState = "OFF")
===============================================================================
