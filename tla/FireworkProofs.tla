----------------------------- MODULE FireworkProofs -----------------------------
(* Proofs about Firework, for every length of the column, the rays and the        *)
(* rockets, every volley and every type of burst.                                 *)
EXTENDS Firework, TLAPS

-------------------------------------------------------------------------------
(* The data.                                                                   *)

AllTypes == After \union Before \union {"No1DiemDienDay"}

LEMMA SizesType ==
    /\ \A c \in CotSizes : c \in Nat /\ c >= 2 /\ c <= 256
    /\ \A t \in TiaSizes : t \in Nat /\ t >= 4 /\ t <= 50
    /\ \A n \in CotPuts : n \in Nat /\ n > 0
    /\ Beyond \in Nat
    /\ \A n \in CotPuts, c \in CotSizes, t \in TiaSizes : Beyond > c + n /\ Beyond > n + 2 * t
    /\ Types \subseteq AllTypes
BY FireworkAssumption, TypesAssumption DEF FireworkAssumption, TypesAssumption, AllTypes

LEMMA Plus1Type == \A i \in Int : Plus1(i) \in Int /\ (i < Beyond => Plus1(i) = i + 1)
BY SizesType DEF Plus1

\* Where a burst begins is a number, where it ends a byte.
LEMMA FromType ==
    ASSUME NEW type \in AllTypes, NEW n \in 1 .. 3, SizeTia \in TiaSizes
    PROVE  From(type, n) \in Int
<1>1. SizeTia \in Nat
  BY SizesType
<1>2. -(SizeTia \div 2) \in Int /\ -(SizeTia \div 3) \in Int
  BY <1>1
<1> QED BY <1>1, <1>2 DEF From, AllTypes, After, Before

LEMMA UntilType ==
    ASSUME NEW type \in AllTypes, NEW n \in 1 .. 3, SizeTia \in TiaSizes, IndexRepeat \in 0 .. 255
    PROVE  Until(type, n) \in 0 .. 255
<1>1. SizeTia \in Nat
  BY SizesType
<1>2. (SizeTia \div 2) - 1 \in Int /\ (SizeTia \div 3) - 1 \in Int
  BY <1>1
<1>3. \A i \in Int : i % 256 \in 0 .. 255
  OBVIOUS
<1> QED BY <1>1, <1>2, <1>3 DEF Until, AllTypes, After, Before

\* How many bursts a rocket may have: never none, where that is counted first.
LEMMA BurstsType ==
    ASSUME NEW type \in AllTypes, NEW n \in Bursts(type)
    PROVE  n \in 0 .. 5 /\ (type \in Before => n # 0)
<1>1. Shots \subseteq 1 .. 4
  BY FireworkAssumption DEF FireworkAssumption
<1>2. CASE type \in {"No1Diem", "No1DiemCoTam", "No1DiemCoTam2"}
  <2>1. PICK m \in Shots : n = 6 - m
    BY <1>2 DEF Bursts
  <2> QED BY <1>1, <2>1
<1>3. CASE type = "No1DiemDienDay"
  BY <1>3 DEF Bursts, Before
<1>4. CASE type \notin {"No1Diem", "No1DiemCoTam", "No1DiemCoTam2", "No1DiemDienDay"}
  <2>1. n \in Shots
    BY <1>4 DEF Bursts
  <2> QED BY <1>1, <2>1
<1> QED BY <1>2, <1>3, <1>4

-------------------------------------------------------------------------------
(* The rays.                                                                   *)

\* What is said of the rays.
TiaTyped ==
    /\ TiaState \in {"OFF", "NO", "GIAT"}
    /\ TypeTiaEffect \in Types \union {"NoTo"}
    /\ SoLanNo \in 0 .. 255
    /\ TiaState = "NO" => SoLanNo \in 0 .. 5
    /\ IndexLedTia \in Int /\ IndexRepeat \in 0 .. 255 /\ SizePut1 \in 0 .. 255
    /\ SoLanGiat \in Giats \union {0} /\ IndexGiat \in 0 .. SoLanGiat
    /\ BurstsLeft

LEMMA NewTiaType ==
    ASSUME NEW type \in AllTypes, NEW step \in 0 .. 1, SizeTia \in TiaSizes,
           IndexRepeat \in 0 .. 255, NewTia(type, step)
    PROVE  IndexLedTia' \in Int /\ IndexRepeat' \in 0 .. 255 /\ SizePut1' \in 0 .. 255
<1>1. SizeTia \in 0 .. 255
  BY SizesType
<1>2. PICK n \in 1 .. 3 : IndexLedTia' = From(type, n) + step /\ IndexRepeat' = Until(type, n)
  BY DEF NewTia
<1>3. From(type, n) \in Int /\ Until(type, n) \in 0 .. 255
  BY FromType, UntilType
<1> QED BY <1>1, <1>2, <1>3 DEF NewTia

LEMMA RaysEnd ==
    ASSUME TiaTyped, TatTia \/ GiatTia, TypeTiaEffect' = TypeTiaEffect, SoLanNo' \in 0 .. 255
    PROVE  TiaTyped'
<1>1. Giats \subseteq Nat
  BY FireworkAssumption DEF FireworkAssumption
<1>2. CASE TatTia
  BY <1>2 DEF TatTia, TiaTyped, BurstsLeft
<1>3. CASE GiatTia
  BY <1>1, <1>3 DEF GiatTia, TiaTyped, BurstsLeft
<1> QED BY <1>2, <1>3

LEMMA BurstTyped ==
    ASSUME TiaTyped, SizeTia \in TiaSizes, Burst, TypeTiaEffect' = TypeTiaEffect
    PROVE  TiaTyped'
<1>1. TiaState = "NO" /\ SoLanNo \in 0 .. 5
  BY DEF Burst, TiaTyped
<1>2. TypeTiaEffect \in AllTypes
  BY SizesType DEF TiaTyped, AllTypes, After
<1>3. CASE Spreading
  BY <1>3, Plus1Type DEF Spreading, TiaTyped, BurstsLeft
\* Again is not reached with none left to count: a byte would go round.
<1>4. ASSUME NEW more \in BOOLEAN, Again(more), more => SoLanNo # 0,
             more /\ TypeTiaEffect \in Before => SoLanNo # 1
      PROVE  TiaTyped'
  <2>1. SoLanNo' \in 0 .. 255 /\ (SoLanNo # 0 => SoLanNo' = SoLanNo - 1)
    BY <1>1, <1>4 DEF Again
  <2>2. CASE ~more
    BY <1>4, <2>1, <2>2, RaysEnd DEF Again
  <2>3. CASE more
    <3>1. NewTia(TypeTiaEffect, 1) /\ UNCHANGED <<TiaState, SoLanGiat, IndexGiat>>
      BY <1>4, <2>3 DEF Again
    <3>2. IndexLedTia' \in Int /\ IndexRepeat' \in 0 .. 255 /\ SizePut1' \in 0 .. 255
      BY <1>2, <3>1, NewTiaType DEF TiaTyped
    <3>3. SoLanNo' \in 0 .. 5 /\ (TypeTiaEffect \in Before => SoLanNo' # 0)
      BY <1>1, <1>4, <2>1, <2>3
    <3> QED BY <1>1, <3>1, <3>2, <3>3 DEF TiaTyped, BurstsLeft
  <2> QED BY <2>2, <2>3
<1>5. CASE Filling
  <2>1. CASE Spreading
    BY <1>3, <2>1
  <2>2. CASE TatTia /\ UNCHANGED SoLanNo
    BY <2>2, RaysEnd DEF TiaTyped
  <2>3. CASE ~Spreading /\ ~(TatTia /\ UNCHANGED SoLanNo)
    <3>1. /\ SizePut1' = (SizePut1 + 255) % 256 /\ IndexLedTia' = 1
          /\ UNCHANGED <<TiaState, IndexRepeat, SoLanGiat, IndexGiat, SoLanNo>>
      BY <1>5, <2>3 DEF Filling
    <3>2. SizePut1' \in 0 .. 255
      BY <3>1 DEF TiaTyped
    <3> QED BY <3>1, <3>2 DEF TiaTyped, BurstsLeft
  <2> QED BY <2>1, <2>2, <2>3
<1>6. CASE Again(SoLanNo # 0) /\ TypeTiaEffect \in After
  <2>1. TypeTiaEffect \notin Before
    BY <1>6 DEF After, Before
  <2> QED BY <1>4, <1>6, <2>1
<1>7. CASE Again(SoLanNo # 1) /\ TypeTiaEffect \in Before
  BY <1>1, <1>4, <1>7 DEF TiaTyped, BurstsLeft
<1> QED BY <1>2, <1>3, <1>5, <1>6, <1>7 DEF Burst, AllTypes

LEMMA GiatTyped ==
    ASSUME TiaTyped, Giat, TypeTiaEffect' = TypeTiaEffect
    PROVE  TiaTyped'
<1>1. SoLanGiat \in Nat /\ IndexGiat \in 0 .. SoLanGiat
  BY FireworkAssumption DEF FireworkAssumption, TiaTyped
<1> QED BY <1>1 DEF Giat, TiaTyped, BurstsLeft

\* A rocket at the top begins with as many bursts as its type may have.
LEMMA ExplodeTyped ==
    ASSUME TiaTyped, SizeTia \in TiaSizes, NEW rockets, Explode(rockets)
    PROVE  TiaTyped'
<1>1. TypeTiaEffect' \in Types /\ TypeTiaEffect' \in AllTypes
  BY SizesType DEF Explode
<1>2. IndexLedTia' \in Int /\ IndexRepeat' \in 0 .. 255 /\ SizePut1' \in 0 .. 255
  BY <1>1, NewTiaType DEF Explode, TiaTyped
<1>3. SoLanNo' \in 0 .. 5 /\ (TypeTiaEffect' \in Before => SoLanNo' # 0)
  BY <1>1, BurstsType DEF Explode
<1> QED BY <1>1, <1>2, <1>3 DEF Explode, TiaTyped, BurstsLeft

-------------------------------------------------------------------------------
(* The column: what a step does to rockets that are a period apart.            *)

\* What is said of the column; the rest of TypeOK is TiaTyped.
CotTyped ==
    /\ SizeCot \in CotSizes /\ SizeTia \in TiaSizes
    /\ CotState \in Nat /\ SizePut \in CotPuts \union {0}
    /\ IndexLedCot \in Int /\ IndexNo \in Int
    /\ due \in BOOLEAN /\ changed \in BOOLEAN
    /\ flight \subseteq Nat

Volley ==
    /\ CotState # 0 => SizePut # 0
    /\ CotState # 0 /\ ~changed => Spaced
    /\ CotState = 0 \/ changed => flight = {}

LEMMA IInvParts == IInv <=> CotTyped /\ TiaTyped /\ Volley
BY Zenon DEF IInv, TypeOK, CotTyped, TiaTyped, Volley

LEMMA PeriodType ==
    ASSUME CotTyped, SizePut # 0
    PROVE  /\ Period \in Nat /\ Period = 2 * SizePut + 2 * SizeTia - 1
           /\ SizePut \in Nat /\ SizePut > 0 /\ SizeTia \in Nat /\ SizeTia >= 4
           /\ SizeCot \in Nat /\ SizeCot >= 2
           /\ Beyond > SizeCot + SizePut /\ Beyond > SizePut + 2 * SizeTia
BY SizesType DEF CotTyped, Period

\* The indices have missed nothing.
LEMMA Counting ==
    ASSUME CotTyped, SizePut # 0, Spaced
    PROVE  /\ Plus1(IndexLedCot) = IndexLedCot + 1 /\ Plus1(IndexNo) = IndexNo + 1
           /\ Youngest = IndexLedCot + SizePut - 1
<1> USE DEF CotTyped
<1>1. /\ SizePut \in Nat /\ SizeTia \in Nat /\ SizeCot \in Nat /\ Beyond \in Nat
      /\ Beyond > SizeCot + SizePut /\ Beyond > SizePut + 2 * SizeTia
  BY PeriodType, SizesType
<1>2. IndexNo < SizeCot - 1
  BY DEF Spaced
<1>3. IndexLedCot < SizeCot + SizePut \/ IndexLedCot < SizePut + 2 * SizeTia
  BY DEF Spaced
<1>4. IndexLedCot < Beyond /\ IndexNo < Beyond
  BY <1>1, <1>2, <1>3
<1> QED BY <1>4, Plus1Type DEF CotTyped, Youngest

\* Before the last rocket of a volley has left, and until it has gone beyond the
\* column, what has no rocket in flight cannot be at the top.
LEMMA TopInFlight ==
    ASSUME CotTyped, SizePut # 0, Spaced, AtTop
    PROVE  IndexNo \in flight /\ IndexNo = SizeCot - 2
<1>1. IndexNo = SizeCot - 2
  BY Counting, PeriodType DEF AtTop, CotTyped
<1>2. ASSUME flight = {} PROVE FALSE
  <2>1. IndexNo = Youngest - Period
    BY <1>2 DEF Spaced
  <2>2. IndexLedCot < SizeCot + SizePut \/ IndexLedCot < SizePut + 2 * SizeTia
    BY DEF Spaced
  <2> QED BY <1>1, <2>1, <2>2, PeriodType, Counting DEF CotTyped
<1> QED BY <1>1, <1>2 DEF Spaced

\* The rocket at the top leaves the flight, the next one of the volley joins it.
Climbed == {steps + 1 : steps \in flight}
Left == Climbed \ (IF AtTop THEN {SizeCot - 1} ELSE {})

\* They are a period apart, from the youngest one to the one that has made no steps.
APeriodApart(no) ==
    /\ no \in Int /\ no < SizeCot - 1
    /\ IF Left = {} THEN no = (Youngest + 1) - Period
       ELSE Youngest + 1 \in Left /\ no \in Left
    /\ \A n \in Left : /\ n \in Nat /\ Youngest + 1 <= n /\ n <= no
                       /\ n = no \/ n + Period \in Left
                       /\ n = Youngest + 1 \/ n - Period \in Left

\* After a step the rockets left are those between the youngest and the one that
\* bursts next, a period apart again.
LEMMA LeftSpaced ==
    ASSUME CotTyped, SizePut # 0, Spaced,
           NEW no, AtTop => no = (IndexNo + 1) - Period, ~AtTop => no = IndexNo + 1
    PROVE  APeriodApart(no)
<1> USE DEF APeriodApart
<1> DEFINE y == Youngest
<1>1. /\ y \in Nat /\ IndexNo \in Int /\ Period \in Nat /\ Period > 0 /\ SizeCot \in Nat
      /\ flight \subseteq Nat
  BY PeriodType, Counting DEF Spaced, CotTyped
<1>2. \A n : n \in Climbed <=> n - 1 \in flight /\ n \in Int
  BY <1>1 DEF Climbed
<1>3. /\ IndexNo < SizeCot - 1
      /\ IF flight = {} THEN IndexNo = y - Period ELSE y \in flight /\ IndexNo \in flight
      /\ \A steps \in flight : /\ y <= steps /\ steps <= IndexNo
                               /\ steps = IndexNo \/ steps + Period \in flight
                               /\ steps = y \/ steps - Period \in flight
  BY DEF Spaced
<1> HIDE DEF y
<1>4. CASE ~AtTop
  <2>1. Left = Climbed /\ no = IndexNo + 1
    BY <1>4 DEF Left
  <2>2. IndexNo + 1 # SizeCot - 1
    BY <1>4, Counting DEF AtTop
  <2>3. no \in Int /\ no < SizeCot - 1
    BY <1>1, <1>3, <2>1, <2>2
  <2>4. CASE flight = {}
    <3>1. Left = {}
      BY <1>2, <2>1, <2>4
    <3>2. no = (y + 1) - Period
      BY <1>1, <1>3, <2>1, <2>4
    <3> QED BY <2>3, <3>1, <3>2 DEF y
  <2>5. CASE flight # {}
    <3>1. y + 1 \in Left /\ no \in Left
      <4>1. y \in flight /\ IndexNo \in flight
        BY <1>3, <2>5
      <4>2. (y + 1) - 1 = y /\ (IndexNo + 1) - 1 = IndexNo
        BY <1>1
      <4> QED BY <1>1, <1>2, <2>1, <4>1, <4>2
    <3>2. ASSUME NEW n \in Left
          PROVE  /\ n \in Nat /\ y + 1 <= n /\ n <= no
                 /\ n = no \/ n + Period \in Left
                 /\ n = y + 1 \/ n - Period \in Left
      <4>1. n - 1 \in flight /\ n \in Int
        BY <1>2, <2>1
      <4>2. /\ y <= n - 1 /\ n - 1 <= IndexNo
            /\ n - 1 = IndexNo \/ (n - 1) + Period \in flight
            /\ n - 1 = y \/ (n - 1) - Period \in flight
        BY <1>3, <4>1
      <4>3. (n - 1) + Period = (n + Period) - 1 /\ (n - 1) - Period = (n - Period) - 1
        BY <1>1, <4>1
      <4>4. n = no \/ n + Period \in Left
        BY <1>1, <1>2, <2>1, <4>1, <4>2, <4>3
      <4>5. n = y + 1 \/ n - Period \in Left
        BY <1>1, <1>2, <2>1, <4>1, <4>2, <4>3
      <4> QED BY <1>1, <2>1, <4>1, <4>2, <4>4, <4>5
    <3> QED BY <2>3, <3>1, <3>2 DEF y
  <2> QED BY <2>4, <2>5
<1>5. CASE AtTop
  <2>1. IndexNo \in flight /\ IndexNo = SizeCot - 2
    BY <1>5, TopInFlight
  <2>2. no = (IndexNo + 1) - Period /\ no \in Int /\ no < SizeCot - 1
    BY <1>1, <1>5, <2>1
  <2>3. \A n : n \in Left <=> n - 1 \in flight /\ n \in Int /\ n - 1 # IndexNo
    BY <1>1, <1>2, <1>5, <2>1 DEF Left
  <2>4. ASSUME NEW n \in Left
        PROVE  /\ n \in Nat /\ y + 1 <= n /\ n <= no
               /\ n = no \/ n + Period \in Left
               /\ n = y + 1 \/ n - Period \in Left
    <3>1. n - 1 \in flight /\ n \in Int /\ n - 1 # IndexNo
      BY <2>3
    <3>2. /\ y <= n - 1 /\ n - 1 <= IndexNo
          /\ (n - 1) + Period \in flight
          /\ n - 1 = y \/ (n - 1) - Period \in flight
      BY <1>3, <3>1
    <3>3. (n - 1) + Period = (n + Period) - 1 /\ (n - 1) - Period = (n - Period) - 1
      BY <1>1, <3>1
    <3>4. (n - 1) + Period <= IndexNo
      BY <1>3, <3>2
    <3>5. n <= no
      BY <1>1, <2>2, <3>1, <3>4
    <3>6. n = no \/ n + Period \in Left
      <4>1. CASE (n - 1) + Period = IndexNo
        BY <1>1, <2>2, <3>1, <4>1
      <4>2. CASE (n - 1) + Period # IndexNo
        BY <1>1, <2>3, <3>1, <3>2, <3>3, <4>2
      <4> QED BY <4>1, <4>2
    <3>7. n = y + 1 \/ n - Period \in Left
      <4>1. CASE n - 1 = y
        BY <1>1, <3>1, <4>1
      <4>2. CASE (n - 1) - Period \in flight
        <5>1. (n - 1) - Period # IndexNo
          BY <1>1, <3>1, <3>2
        <5> QED BY <1>1, <2>3, <3>1, <3>3, <4>2, <5>1
      <4> QED BY <3>2, <4>1, <4>2
    <3> QED BY <1>1, <3>1, <3>2, <3>5, <3>6, <3>7
  <2>5. CASE IndexNo = y
    <3>1. Left = {}
      <4> SUFFICES ASSUME NEW n \in Left PROVE FALSE
        OBVIOUS
      <4>1. n - 1 \in flight /\ n \in Int /\ n - 1 # IndexNo
        BY <2>3
      <4> QED BY <1>1, <1>3, <2>5, <4>1
    <3> QED BY <1>1, <2>2, <2>5, <3>1 DEF y
  <2>6. CASE IndexNo # y
    <3>1. IndexNo - Period \in flight
      BY <1>3, <2>1, <2>6
    <3>2. no - 1 = IndexNo - Period
      BY <1>1, <2>2
    <3>3. no \in Left
      BY <1>1, <2>2, <2>3, <3>1, <3>2
    <3>4. y \in flight
      BY <1>3, <2>1
    <3>5. y + 1 \in Left
      BY <1>1, <2>3, <2>6, <3>4
    <3> QED BY <2>2, <2>4, <3>3, <3>5 DEF y
  <2> QED BY <2>5, <2>6
<1> QED BY <1>4, <1>5

\* The rest of a shift, for the sizes left alone.
LEMMA ShiftVolley ==
    ASSUME CotTyped, SizePut # 0, Spaced, flight # {} => ~changed, ~changed, CotState # 0, Shift
    PROVE  Volley'
<1> DEFINE no == IndexNo'
<1>0. PICK y : y = Youngest + 1
  OBVIOUS
<1>1. /\ SizeCot' = SizeCot /\ SizeTia' = SizeTia /\ SizePut' = SizePut /\ changed' = changed
      /\ Period' = Period
  BY DEF Shift, size, Period
<1>2. (AtTop => no = (IndexNo + 1) - Period) /\ (~AtTop => no = IndexNo + 1)
  <2>1. Plus1(IndexNo) = IndexNo + 1
    BY Counting
  <2>2. (AtTop => no = Plus1(IndexNo) - Period) /\ (~AtTop => no = Plus1(IndexNo))
    BY Zenon DEF Shift
  <2>3. IndexNo \in Int /\ Period \in Int
    BY PeriodType DEF CotTyped
  <2>4. CASE AtTop
    BY <2>1, <2>2, <2>3, <2>4
  <2>5. CASE ~AtTop
    BY <2>1, <2>2, <2>3, <2>5
  <2> QED BY <2>4, <2>5
<1>3. flight' = Left \union (IF NextLeaves THEN {0} ELSE {})
  BY DEF Shift, Left, Climbed
<1>4. /\ no \in Int /\ no < SizeCot - 1
      /\ IF Left = {} THEN no = y - Period ELSE y \in Left /\ no \in Left
      /\ \A n \in Left : /\ n \in Nat /\ y <= n /\ n <= no
                         /\ n = no \/ n + Period \in Left
                         /\ n = y \/ n - Period \in Left
  <2> HIDE DEF no
  <2>1. APeriodApart(no)
    BY <1>2, LeftSpaced
  <2> QED BY <1>0, <2>1 DEF APeriodApart
<1>5. /\ SizePut \in Nat /\ SizePut > 0 /\ SizeTia \in Nat /\ SizeTia >= 4
      /\ SizeCot \in Nat /\ SizeCot >= 2
      /\ Period \in Nat /\ Period > 0 /\ Period = 2 * SizePut + 2 * SizeTia - 1
      /\ CotState \in Nat /\ IndexLedCot \in Int
  BY PeriodType DEF CotTyped
<1>6. /\ y = IndexLedCot + SizePut /\ y \in Nat /\ y > 0
      /\ Plus1(IndexLedCot) = IndexLedCot + 1
  BY <1>0, <1>5, Counting DEF Spaced
<1>7. IndexLedCot < IF CotState = 1 THEN SizeCot + SizePut ELSE SizePut + 2 * SizeTia
  BY DEF Spaced
<1>8. CASE NextLeaves
  <2>1. CotState' = CotState - 1 /\ IndexLedCot' = 1 - SizePut /\ CotState > 1
    BY <1>8 DEF Shift, NextLeaves
  <2>2. y = Period
    BY <1>5, <1>6, <1>8 DEF NextLeaves
  <2>3. flight' = Left \union {0} /\ 0 \notin Left
    BY <1>3, <1>4, <1>5, <1>8, <2>2
  <2>4. Youngest' = 0
    BY <1>1, <1>5, <2>1 DEF Youngest
  <2>5. no \in flight' /\ no >= 0
    BY <1>4, <1>5, <2>2, <2>3
  <2>6. ASSUME NEW n \in flight'
        PROVE  /\ 0 <= n /\ n <= no
               /\ n = no \/ n + Period \in flight'
               /\ n = 0 \/ n - Period \in flight'
    <3>1. CASE n = 0
      <4>1. Left = {} => no = 0
        BY <1>4, <1>5, <2>2
      <4>2. Left # {} => 0 + Period \in Left
        BY <1>4, <1>5, <2>2
      <4> QED BY <2>3, <2>5, <3>1, <4>1, <4>2
    <3>2. CASE n \in Left
      <4>1. n \in Nat /\ n <= no
        BY <1>4, <3>2
      <4>2. n = no \/ n + Period \in flight'
        BY <1>4, <2>3, <3>2
      <4>3. n - Period \in flight'
        <5>1. CASE n = y
          BY <1>5, <2>2, <2>3, <5>1
        <5>2. CASE n # y
          BY <1>4, <2>3, <3>2, <5>2
        <5> QED BY <5>1, <5>2
      <4> QED BY <4>1, <4>2, <4>3
    <3> QED BY <2>3, <3>1, <3>2
  <2>7. IndexLedCot' < IF CotState' = 1 THEN SizeCot + SizePut ELSE SizePut + 2 * SizeTia
    BY <1>5, <2>1
  <2>8. Spaced'
    BY <1>1, <1>2, <1>4, <2>3, <2>4, <2>5, <2>6, <2>7 DEF Spaced
  <2>9. CotState' # 0
    BY <1>5, <2>1
  <2> QED BY <1>1, <2>8, <2>9 DEF Volley
<1>9. CASE LastHasGone
  <2>1. CotState' = 0 /\ ~NextLeaves
    BY <1>5, <1>9 DEF Shift, LastHasGone, NextLeaves
  <2>2. y >= SizeCot
    BY <1>5, <1>6, <1>9 DEF LastHasGone
  <2>3. Left = {}
    BY <1>4, <1>5, <1>6, <2>2
  <2> QED BY <1>1, <1>3, <2>1, <2>3 DEF Volley
<1>10. CASE ~NextLeaves /\ ~LastHasGone
  <2>1. CotState' = CotState /\ IndexLedCot' = IndexLedCot + 1 /\ flight' = Left
    BY <1>3, <1>6, <1>10 DEF Shift
  <2>2. Youngest' = y
    BY <1>1, <1>5, <1>6, <2>1 DEF Youngest
  <2>3. IndexLedCot' < IF CotState = 1 THEN SizeCot + SizePut ELSE SizePut + 2 * SizeTia
    BY <1>5, <1>6, <1>7, <1>10, <2>1 DEF NextLeaves, LastHasGone
  <2>4. Spaced'
    BY <1>1, <1>2, <1>4, <1>6, <2>1, <2>2, <2>3 DEF Spaced
  <2> QED BY <1>1, <2>1, <2>4 DEF Volley
<1> QED BY <1>8, <1>9, <1>10

\* A shift's indices are numbers, whether or not a size has changed.
LEMMA ShiftTyped ==
    ASSUME CotTyped, SizePut # 0, Shift
    PROVE  CotTyped'
<1>1. Period \in Int /\ Plus1(IndexNo) \in Int /\ Plus1(IndexLedCot) \in Int
  BY PeriodType, Plus1Type DEF CotTyped
<1>2. IndexNo' \in Int
  BY <1>1 DEF Shift
<1>3. IndexLedCot' \in Int
  <2>1. SizePut \in Nat
    BY PeriodType
  <2> QED BY <1>1, <2>1 DEF Shift
<1>4. due' \in BOOLEAN
  BY DEF Shift, Explode, CotTyped
<1>5. CotState' \in Nat
  <2>1. CotState # 0 /\ CotState \in Nat /\ CotState' \in {CotState, CotState - 1}
    BY DEF Shift, CotTyped
  <2> QED BY <2>1
<1>6. flight' \subseteq Nat
  BY DEF Shift, CotTyped
<1> QED BY <1>2, <1>3, <1>4, <1>5, <1>6 DEF Shift, size, CotTyped

-------------------------------------------------------------------------------
(* The invariant.                                                              *)

LEMMA InitInvariant == Init => IInv
<1> SUFFICES ASSUME Init PROVE IInv
  OBVIOUS
<1>1. CotTyped
  <2>1. 0 \in Nat /\ 0 \in Int
    OBVIOUS
  <2> QED BY <2>1, Zenon DEF Init, CotTyped
<1>2. TiaTyped
  BY DEF Init, TiaTyped, BurstsLeft
<1>3. Volley
  BY DEF Init, Volley
<1> QED BY <1>1, <1>2, <1>3, IInvParts

LEMMA ShiftInvariant ==
    ASSUME CotTyped, TiaTyped, Volley, Shift
    PROVE  CotTyped' /\ TiaTyped' /\ Volley'
<1>1. CotState # 0 /\ SizePut # 0
  BY DEF Shift, Volley
<1>2. CotTyped'
  BY <1>1, ShiftTyped
<1>3. TiaTyped'
  <2>1. PICK rockets : Explode(rockets) \/ UNCHANGED tia
    BY DEF Shift
  <2>2. CASE Explode(rockets)
    BY <2>2, ExplodeTyped DEF CotTyped
  <2>3. CASE UNCHANGED tia
    BY <2>3 DEF tia, TiaTyped, BurstsLeft
  <2> QED BY <2>1, <2>2, <2>3
<1>4. Volley'
  <2>1. CASE changed
    BY <1>1, <2>1 DEF Shift, Volley
  <2>2. CASE ~changed
    BY <1>1, <2>2, ShiftVolley DEF Volley
  <2> QED BY <2>1, <2>2
<1> QED BY <1>2, <1>3, <1>4

\* The first rocket of a volley is the youngest and the next to burst.
LEMMA LaunchInvariant ==
    ASSUME CotTyped, TiaTyped, Volley, Launch
    PROVE  CotTyped' /\ TiaTyped' /\ Volley'
<1>0. /\ CotState' \in Volleys /\ SizePut' \in CotPuts
      /\ IndexLedCot' = 1 - SizePut' /\ IndexNo' = 0
      /\ flight' = {0} /\ changed' = FALSE
      /\ UNCHANGED <<size, tia, due>>
  BY DEF Launch, StartNo
<1>1. SizePut' \in CotPuts /\ SizePut' \in Nat /\ SizePut' > 0
  BY <1>0, SizesType
<1>2. CotState' \in Nat /\ CotState' # 0
  BY <1>0, FireworkAssumption DEF FireworkAssumption
<1>3. CotTyped'
  <2>1. IndexLedCot' \in Int /\ IndexNo' \in Int
    BY <1>0, <1>1
  <2>2. due' \in BOOLEAN /\ changed' \in BOOLEAN
    BY <1>0, Zenon DEF CotTyped
  <2>3. SizeCot' \in CotSizes /\ SizeTia' \in TiaSizes
    BY <1>0 DEF CotTyped, size
  <2>4. flight' \subseteq Nat
    BY <1>0
  <2> QED BY <1>1, <1>2, <2>1, <2>2, <2>3, <2>4 DEF CotTyped
<1>4. TiaTyped'
  BY <1>0 DEF tia, TiaTyped, BurstsLeft
<1>5. Volley'
  <2>1. /\ SizeCot' \in Nat /\ SizeCot' >= 2 /\ SizeTia' \in Nat /\ SizeTia' >= 4
    BY <1>3, SizesType DEF CotTyped
  <2>2. Youngest' = 0 /\ IndexLedCot' = 1 - SizePut' /\ IndexNo' = 0
    <3>1. IndexLedCot' = 1 - SizePut' /\ IndexNo' = 0
      BY <1>0, Zenon
    <3>2. \A n \in Nat : (1 - n) + n - 1 = 0
      OBVIOUS
    <3> QED BY <1>1, <3>1, <3>2, Zenon DEF Youngest
  <2>3. \A c, n, t \in Nat : n > 0 /\ c >= 2 => 1 - n < c + n /\ 1 - n < n + 2 * t
    OBVIOUS
  <2>4. IndexLedCot' < IF CotState' = 1 THEN SizeCot' + SizePut' ELSE SizePut' + 2 * SizeTia'
    BY <1>1, <2>1, <2>2, <2>3
  <2>5. Spaced'
    <3>1. flight' = {0}
      BY <1>0, Zenon
    <3>2. IndexNo' < SizeCot' - 1
      <4>1. \A c \in Nat : c >= 2 => 0 < c - 1
        OBVIOUS
      <4> QED BY <2>1, <2>2, <4>1, Zenon
    <3> QED BY <2>2, <2>4, <3>1, <3>2 DEF Spaced
  <2> QED BY <1>0, <1>1, <1>2, <2>5 DEF Volley
<1> QED BY <1>3, <1>4, <1>5

LEMMA RaysInvariant ==
    ASSUME CotTyped, TiaTyped, Volley, StepTia
    PROVE  CotTyped' /\ TiaTyped' /\ Volley'
<1>1. CotTyped' /\ Volley'
  BY DEF StepTia, size, cot, CotTyped, Volley, Spaced, Youngest, Period
<1>2. TiaTyped'
  BY BurstTyped, GiatTyped DEF StepTia, CotTyped
<1> QED BY <1>1, <1>2

\* A size that changes in a volley leaves nothing to say of it.
LEMMA SetSizeInvariant ==
    ASSUME CotTyped, TiaTyped, Volley, SetSize
    PROVE  CotTyped' /\ TiaTyped' /\ Volley'
<1>1. CotTyped'
  BY DEF SetSize, cot, CotTyped
<1>2. TiaTyped'
  BY DEF SetSize, tia, TiaTyped, BurstsLeft
<1>3. Volley'
  BY DEF SetSize, cot, Volley
<1> QED BY <1>1, <1>2, <1>3

LEMMA NextInvariant == IInv /\ [Next]_vars => IInv'
<1> SUFFICES ASSUME IInv, [Next]_vars PROVE IInv'
  OBVIOUS
<1>1. CotTyped /\ TiaTyped /\ Volley
  BY IInvParts
<1>2. CotTyped' /\ TiaTyped' /\ Volley'
  <2>1. CASE UNCHANGED vars
    BY <1>1, <2>1 DEF vars, size, cot, tia, CotTyped, TiaTyped, Volley, BurstsLeft, Spaced,
                      Youngest, Period
  <2>2. CASE Next
    BY <1>1, <2>2, ShiftInvariant, LaunchInvariant, RaysInvariant, SetSizeInvariant
    DEF Next, StepCot
  <2> QED BY <2>1, <2>2
<1>3. (CotTyped /\ TiaTyped /\ Volley)' => IInv'
  BY IInvParts, PTL
<1> QED BY <1>2, <1>3

\* Whatever the sizes, the volleys and the types of burst are, and whenever a size
\* changes: the indices of the column and of the rays are what firework.c takes
\* them to be, no burst is counted below none left, and with the sizes left alone
\* the rockets are a period apart between the two that the column counts.
THEOREM FireworkInvariance == Spec => []IInv
<1> QED BY InitInvariant, NextInvariant, PTL DEF Spec

\* Each rocket of a volley bursts when it comes to the top: none is past the top,
\* and none is left when FIREWORK_EffectCot has ended the volley.
THEOREM RocketsBurst == Spec => []EachBursts
<1>1. IInv => EachBursts
  <2> SUFFICES ASSUME IInv PROVE EachBursts
    OBVIOUS
  <2>1. CotTyped /\ Volley
    BY IInvParts
  <2>2. CASE flight = {}
    BY <2>2 DEF EachBursts
  <2>3. CASE flight # {}
    <3>1. Spaced /\ CotState # 0
      BY <2>1, <2>3 DEF Volley
    <3>2. IndexNo \in Int /\ SizeCot \in Nat /\ flight \subseteq Nat
      BY <2>1, SizesType DEF CotTyped
    <3>3. \A steps \in flight : steps <= IndexNo /\ IndexNo < SizeCot - 1
      BY <3>1 DEF Spaced
    <3> QED BY <3>1, <3>2, <3>3 DEF EachBursts
  <2> QED BY <2>2, <2>3
<1> QED BY <1>1, FireworkInvariance, PTL

\* With the sizes left alone, FIREWROK_NewTia is called for a rocket at the top
\* and for nothing else.
THEOREM NothingElseBursts == Spec => BurstsAtTop
<1>1. IInv /\ [Next]_vars => [~due /\ due' /\ ~changed => SizeCot - 2 \in flight]_vars
  <2> SUFFICES ASSUME IInv, Next, ~due, due', ~changed PROVE SizeCot - 2 \in flight
    OBVIOUS
  <2>1. CotTyped /\ Volley
    BY IInvParts
  <2>2. Shift /\ AtTop
    BY DEF Next, StepCot, StepTia, SetSize, Launch, Shift
  <2>3. SizePut # 0 /\ Spaced
    BY <2>1, <2>2 DEF Volley, Shift
  <2> QED BY <2>1, <2>2, <2>3, TopInFlight
<1> QED BY <1>1, FireworkInvariance, PTL DEF Spec, BurstsAtTop
===============================================================================
