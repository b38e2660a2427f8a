---------------------------- MODULE FlashToolProofs ----------------------------
(* Proofs about FlashTool, for every set of files, every division of the flash   *)
(* into sectors and blocks, every number of attempts and of faults.              *)
EXTENDS FlashTool, FiniteSetTheorems, SequenceTheorems, WellFoundedInduction, TLAPS

-------------------------------------------------------------------------------
(* Induction over the natural numbers, for sets: the library's theorem takes an  *)
(* operator as its parameter.                                                    *)
LEMMA NatSetInduction ==
    ASSUME NEW S, 0 \in S, \A n \in Nat : n \in S => n + 1 \in S
    PROVE  Nat \subseteq S
<1> SUFFICES ASSUME Nat \ S # {} PROVE FALSE
  OBVIOUS
<1> DEFINE T == Nat \ S
           R == OpToRel(<, Nat)
<1>1. IsWellFoundedOn(R, Nat)
  BY NatLessThanWellFounded
<1>2. T \subseteq Nat /\ T # {}
  OBVIOUS
<1>3. \E x \in T : \A y \in T : ~ (<<y, x>> \in R)
  <2> HIDE DEF T, R
  <2> QED BY <1>1, <1>2, WFMin
<1>4. PICK x \in T : \A y \in T : ~ (<<y, x>> \in R)
  BY <1>3
<1>5. x # 0
  BY <1>4
<1>6. x - 1 \in T
  <2> HIDE DEF R
  <2> QED BY <1>5
<1>7. <<x - 1, x>> \in R
  BY <1>6 DEF OpToRel
<1> QED BY <1>4, <1>6, <1>7

\* A function on 0 .. n that is its argument in Halt and elsewhere its own value at
\* a smaller argument: it exists, and is nowhere above its argument.
Descends(f, n, Halt, next) ==
    f = [r \in 0 .. n |-> IF r \in Halt THEN r ELSE f[next[r]]]

LEMMA DescentExists ==
    ASSUME NEW n \in Nat, NEW Halt, NEW next,
           \A r \in 0 .. n : r \notin Halt => next[r] \in Nat /\ next[r] < r
    PROVE  \E f : Descends(f, n, Halt, next)
<1> DEFINE S == {m \in Nat : m <= n => \E f : Descends(f, m, Halt, next)}
<1>1. 0 \in S
  <2> DEFINE f == [r \in 0 .. 0 |-> 0]
  <2>1. 0 \in Halt
    BY 0 \in 0 .. n
  <2>2. Descends(f, 0, Halt, next)
    BY <2>1 DEF Descends
  <2> HIDE DEF f
  <2> QED BY <2>2
<1>2. ASSUME NEW m \in Nat, m \in S PROVE m + 1 \in S
  <2> SUFFICES ASSUME m + 1 <= n PROVE \E g : Descends(g, m + 1, Halt, next)
    OBVIOUS
  <2>1. PICK f : Descends(f, m, Halt, next)
    BY <1>2
  <2> DEFINE h == [r \in 0 .. m + 1 |->
                     IF r <= m THEN f[r] ELSE IF r \in Halt THEN r ELSE f[next[r]]]
  <2>2. ASSUME NEW r \in 0 .. m + 1
        PROVE  h[r] = IF r \in Halt THEN r ELSE h[next[r]]
    <3>1. r \notin Halt => next[r] \in 0 .. m /\ h[next[r]] = f[next[r]]
      OBVIOUS
    <3>2. CASE r <= m
      <4>1. f[r] = IF r \in Halt THEN r ELSE f[next[r]]
        BY <2>1, <3>2 DEF Descends
      <4> QED BY <3>1, <3>2, <4>1
    <3>3. CASE ~(r <= m)
      BY <3>1, <3>3
    <3> QED BY <3>2, <3>3
  <2>3. h = [r \in 0 .. m + 1 |-> h[r]]
    OBVIOUS
  <2> HIDE DEF h
  <2>4. Descends(h, m + 1, Halt, next)
    BY <2>2, <2>3 DEF Descends
  <2> QED BY <2>4
<1>3. Nat \subseteq S
  <2> HIDE DEF S
  <2> QED BY <1>1, <1>2, NatSetInduction
<1>4. n \in S
  BY <1>3
<1> QED BY <1>4

LEMMA DescentBound ==
    ASSUME NEW n \in Nat, NEW Halt, NEW next, NEW f, Descends(f, n, Halt, next),
           \A r \in 0 .. n : r \notin Halt => next[r] \in Nat /\ next[r] < r
    PROVE  \A r \in 0 .. n : f[r] \in 0 .. r /\ f[r] \in Halt
<1> DEFINE S == {m \in Nat : \A r \in 0 .. n : r <= m => f[r] \in 0 .. r /\ f[r] \in Halt}
<1>1. \A r \in 0 .. n : f[r] = IF r \in Halt THEN r ELSE f[next[r]]
  BY DEF Descends
<1>2. 0 \in S
  BY <1>1
<1>3. ASSUME NEW m \in Nat, m \in S PROVE m + 1 \in S
  <2> SUFFICES ASSUME NEW r \in 0 .. n, r <= m + 1 PROVE f[r] \in 0 .. r /\ f[r] \in Halt
    OBVIOUS
  <2>1. CASE r \in Halt
    BY <1>1, <2>1
  <2>2. CASE r \notin Halt
    <3>1. next[r] \in 0 .. n /\ next[r] <= m /\ next[r] < r
      BY <2>2
    <3>2. f[next[r]] \in 0 .. next[r] /\ f[next[r]] \in Halt
      BY <1>3, <3>1
    <3> QED BY <1>1, <2>2, <3>1, <3>2
  <2> QED BY <2>1, <2>2
<1>4. Nat \subseteq S
  <2> HIDE DEF S
  <2> QED BY <1>2, <1>3, NatSetInduction
<1> QED BY <1>4

-------------------------------------------------------------------------------
(* The files and the sectors.                                                  *)

LEMMA FilesType ==
    /\ SectorUnits \in Nat /\ SectorUnits > 0
    /\ SectorsPerBlock \in Nat /\ SectorsPerBlock > 0
    /\ OutUnits \in Nat /\ OutUnits > 0
    /\ SyncAnswers \in Nat /\ SyncAnswers > 0
    /\ Len(File) \in Nat /\ DOMAIN File = 1 .. Len(File) /\ 1 \in DOMAIN File
BY FilesAssumption DEF FilesAssumption

LEMMA FileType ==
    ASSUME NEW f \in DOMAIN File
    PROVE  /\ f \in Nat /\ f # 0 /\ f \in 0 .. Len(File)
           /\ File[f].at \in Nat /\ Size(f) \in Nat /\ Size(f) > 0
           /\ 1 \in Blocks(f) /\ Blocks(f) \subseteq Nat /\ 0 \notin Blocks(f)
           /\ \A k \in Blocks(f) : /\ File[f].ends[k] \in Nat /\ File[f].ends[k] <= Size(f)
                                   /\ First(f, k) \in Nat /\ First(f, k) > 0
           /\ Place(f) \subseteq Unit
           /\ \A i \in 1 .. Size(f) : <<f, i>> \in Data
<1>1. File[f] \in [at : Nat, ends : Seq(Nat \ {0})]
  <2> DEFINE R == [at : Nat, ends : Seq(Nat \ {0})]
  <2>1. File \in Seq(R)
    BY FilesAssumption DEF FilesAssumption
  <2> HIDE DEF R
  <2>2. File[f] \in R
    BY <2>1
  <2> QED BY <2>2 DEF R
<1> DEFINE ends == File[f].ends
<1>2. ends \in Seq(Nat \ {0}) /\ File[f].at \in Nat
  BY <1>1
<1>3. Blocks(f) = 1 .. Len(ends) /\ Len(ends) \in Nat /\ \A k \in Blocks(f) : ends[k] \in Nat \ {0}
  BY <1>2 DEF Blocks
<1>4. Len(ends) > 0
  BY <1>3, FilesAssumption DEF FilesAssumption
<1>5. Len(ends) \in Blocks(f) /\ 1 \in Blocks(f)
  BY <1>3, <1>4
<1>6. Size(f) \in Nat /\ Size(f) > 0
  BY <1>3, <1>5 DEF Size
<1>7. ASSUME NEW k \in Blocks(f)
      PROVE  ends[k] \in Nat /\ ends[k] <= Size(f) /\ First(f, k) \in Nat /\ First(f, k) > 0
  <2>1. k = Len(ends) \/ k < Len(ends)
    BY <1>3
  <2>2. ends[k] <= Size(f)
    <3>1. k < Len(ends) => ends[k] < ends[Len(ends)]
      BY <1>5, FilesAssumption DEF FilesAssumption
    <3> QED BY <1>3, <1>5, <2>1, <3>1 DEF Size
  <2>3. k # 1 => k - 1 \in Blocks(f)
    BY <1>3
  <2> QED BY <1>3, <2>2, <2>3 DEF First
<1>8. f \in Nat /\ f # 0 /\ f \in 0 .. Len(File)
  BY FilesType
<1> QED BY <1>2, <1>3, <1>5, <1>6, <1>7, <1>8, FilesAssumption DEF FilesAssumption

LEMMA SectorType == \A u \in Nat : Sector(u) \in Nat
BY FilesType DEF Sector

\* The sectors that handle_flash_begin counts are those of the file.
LEMMA SectorsCounted ==
    ASSUME NEW f \in DOMAIN File,
           NEW e \in Sector(File[f].at) ..
                     Sector(File[f].at) + SectorsToErase(File[f].at, Size(f)) - 1
    PROVE  e \in Sectors(f)
<1> DEFINE b == SectorUnits
           a == File[f].at
           n == Size(f)
           q == a \div b
           r == a % b
           m == ((r + n + b) - 1) \div b
<1>1. b \in Nat /\ b > 0 /\ a \in Nat /\ n \in Nat /\ n > 0
  BY FilesType, FileType
<1>2. SectorsToErase(a, n) = m /\ Sector(a) = q
  <2>1. r \in Nat
    BY <1>1
  <2>2. r + n + b - 1 = (r + n + b) - 1
    BY <1>1, <2>1
  <2> QED BY <2>2 DEF SectorsToErase, Sector
<1>3. q \in Nat /\ r \in Nat /\ r < b /\ a = b * q + r
  <2>1. \A x, y \in Nat :
           y > 0 => /\ x \div y \in Nat /\ x % y \in Nat /\ x % y < y
                    /\ x = y * (x \div y) + (x % y)
    OBVIOUS
  <2> QED BY <1>1, <2>1, Zenon
<1> HIDE DEF a, b, n, q, r
<1>4. m \in Nat /\ b * m <= (r + n + b) - 1
  BY <1>1, <1>3
<1> HIDE DEF m
<1>5. e \in Nat /\ q <= e /\ e <= (q + m) - 1
  BY <1>2, <1>3, <1>4 DEF a, n
<1>6. CASE e = q
  <2>1. a \in Place(f)
    BY <1>1 DEF Place, a, n
  <2> QED BY <1>2, <1>6, <2>1 DEF Sectors
<1>7. CASE e # q
  <2>1. PICK j \in Nat : e = q + j /\ j > 0 /\ j + 1 <= m
    <3>1. e - q \in Nat /\ e = q + (e - q) /\ e - q > 0 /\ (e - q) + 1 <= m
      BY <1>3, <1>4, <1>5, <1>7
    <3> QED BY <3>1
  <2>2. b * e = b * q + b * j
    BY <1>1, <1>3, <2>1
  <2>3. b * j >= b
    <3>1. PICK i \in Nat : j = i + 1
      BY <2>1, j - 1 \in Nat
    <3>2. b * j = b * i + b
      BY <1>1, <3>1
    <3> QED BY <1>1, <3>1, <3>2
  <2>4. b * j + b <= b * m
    <3>1. b * (j + 1) <= b * m
      BY <1>1, <1>4, <2>1
    <3> QED BY <1>1, <3>1
  <2>5. b * e \in Nat /\ b * q \in Nat /\ b * j \in Nat /\ b * m \in Nat
    BY <1>1, <1>3, <1>4, <1>5
  <2>6. a <= b * e /\ b * e <= (a + n) - 1
    BY <1>1, <1>3, <1>4, <2>2, <2>3, <2>4, <2>5
  <2>7. b * e \in Place(f)
    BY <1>1, <2>5, <2>6 DEF Place, a, n
  <2>8. Sector(b * e) = e
    BY <1>1, <1>5 DEF Sector, b
  <2> QED BY <2>7, <2>8 DEF Sectors
<1> QED BY <1>6, <1>7

-------------------------------------------------------------------------------
(* Erasing.                                                                    *)

LEMMA ContentType ==
    /\ Data \subseteq Content /\ Erased \in Content /\ Garbage \in Content
    /\ Unit \subseteq Nat /\ LastUnit \in Nat /\ NUnits = LastUnit + 1
BY FlashAssumption DEF FlashAssumption, Content, Unit, NUnits

\* An operation erases at least a sector, and no more than are left.
LEMMA EraseNextType ==
    ASSUME NEW s \in FlashingState, s.remaining_erase_sector > 0
    PROVE  /\ EraseNext(s) \in FlashingState
           /\ \E n \in 1 .. s.remaining_erase_sector :
                 /\ EraseNext(s).next_erase_sector = s.next_erase_sector + n
                 /\ EraseNext(s).remaining_erase_sector = s.remaining_erase_sector - n
           /\ EraseNext(s).next_write = s.next_write
           /\ EraseNext(s).remaining = s.remaining
           /\ EraseNext(s).inflator = s.inflator
<1> DEFINE n == IF /\ s.remaining_erase_sector >= SectorsPerBlock
                   /\ s.next_erase_sector % SectorsPerBlock = 0
                THEN SectorsPerBlock ELSE 1
<1>1. n \in 1 .. s.remaining_erase_sector
  BY FilesType DEF FlashingState
<1>2. EraseNext(s) = [s EXCEPT !.next_erase_sector = @ + n, !.remaining_erase_sector = @ - n]
  BY DEF EraseNext
<1> HIDE DEF n
<1>3. /\ s.next_erase_sector \in Nat /\ s.remaining_erase_sector \in Nat
      /\ s.next_erase_sector + n \in Nat /\ s.remaining_erase_sector - n \in Nat
  BY <1>1 DEF FlashingState
<1> QED BY <1>1, <1>2, <1>3 DEF FlashingState

LEMMA LeftType ==
    ASSUME NEW s \in FlashingState, NEW r \in 0 .. s.remaining_erase_sector
    PROVE  /\ LeftToErase(s, r) \in FlashingState
           /\ LeftToErase(s, r).remaining_erase_sector = r
           /\ LeftToErase(s, r).next_erase_sector
                = (s.next_erase_sector + s.remaining_erase_sector) - r
           /\ LeftToErase(s, r).next_write = s.next_write
           /\ LeftToErase(s, r).remaining = s.remaining
<1>1. s.next_erase_sector \in Nat /\ s.remaining_erase_sector \in Nat
  BY DEF FlashingState
<1>2. r \in Nat /\ (s.next_erase_sector + s.remaining_erase_sector) - r \in Nat
  BY <1>1
<1> QED BY <1>2 DEF LeftToErase, FlashingState

\* handle_flash_data's loop comes to an end, and then it has erased some of the
\* sectors that were left, from the first one on.
LEMMA EraseUpToStops ==
    ASSUME NEW s \in FlashingState, NEW last \in Nat
    PROVE  \E r \in 0 .. s.remaining_erase_sector :
              /\ EraseUpTo(s, last) = LeftToErase(s, r)
              /\ r = 0 \/ LeftToErase(s, r).next_erase_sector > last
<1> DEFINE n == s.remaining_erase_sector
           Halt == {r \in 0 .. n : r = 0 \/ LeftToErase(s, r).next_erase_sector > last}
           next == [r \in 0 .. n |-> EraseNext(LeftToErase(s, r)).remaining_erase_sector]
           Loop(f) == f = [r \in 0 .. n |->
                             IF r = 0 \/ LeftToErase(s, r).next_erase_sector > last THEN r
                             ELSE f[EraseNext(LeftToErase(s, r)).remaining_erase_sector]]
           stop == StopsAt(s, last)
<1>1. n \in Nat
  BY DEF FlashingState
<1>2. ASSUME NEW r \in 0 .. n, r \notin Halt PROVE next[r] \in Nat /\ next[r] < r
  <2>1. r > 0
    BY <1>1, <1>2
  <2>2. LeftToErase(s, r) \in FlashingState /\ LeftToErase(s, r).remaining_erase_sector = r
    BY LeftType
  <2>3. PICK k \in 1 .. r : EraseNext(LeftToErase(s, r)).remaining_erase_sector = r - k
    BY <2>1, <2>2, EraseNextType
  <2> QED BY <1>1, <2>3
<1>3. \A f : Loop(f) <=> Descends(f, n, Halt, next)
  <2> SUFFICES ASSUME NEW f PROVE Loop(f) <=> Descends(f, n, Halt, next)
    OBVIOUS
  <2> QED BY DEF Descends
<1>4. \E f : Loop(f)
  <2>1. \E f : Descends(f, n, Halt, next)
    <3> HIDE DEF Halt, next, n
    <3> QED BY <1>1, <1>2, DescentExists
  <2> HIDE DEF Loop
  <2> QED BY <1>3, <2>1
<1>5. Loop(stop)
  BY <1>4, Zenon DEF StopsAt
<1>6. stop[n] \in 0 .. n /\ stop[n] \in Halt
  <2>1. Descends(stop, n, Halt, next)
    <3> HIDE DEF Loop, stop
    <3> QED BY <1>3, <1>5
  <2> HIDE DEF Halt, next, n, stop, Loop
  <2>2. n \in 0 .. n
    BY <1>1
  <2> QED BY <1>1, <1>2, <2>1, <2>2, DescentBound
<1> QED BY <1>6 DEF EraseUpTo

\* What holds of a flashing state for some of the sectors, and of the flash from one
\* moment to another.
Good(s, G) == /\ s \in FlashingState
              /\ s.next_write + s.remaining \in 0 .. NUnits
              /\ Within(s, G)

KeepsOthers(before, after, G) == \A u \in Unit : Sector(u) \notin G => after[u] = before[u]

\* In some sector everything is.
LEMMA GoodType ==
    ASSUME NEW s \in FlashingState, s.next_write + s.remaining \in 0 .. NUnits
    PROVE  Good(s, Nat)
<1>1. /\ s.next_write \in Nat /\ s.remaining \in Nat
      /\ s.next_erase_sector \in Nat /\ s.remaining_erase_sector \in Nat
  BY DEF FlashingState
<1>2. \A u \in s.next_write .. s.next_write + s.remaining - 1 : Sector(u) \in Nat
  BY <1>1, SectorType
<1>3. \A e \in s.next_erase_sector .. s.next_erase_sector + s.remaining_erase_sector - 1 : e \in Nat
  BY <1>1
<1> QED BY <1>2, <1>3 DEF Good, Within

\* Nothing but these fields counts.
LEMMA SameGood ==
    ASSUME NEW t, NEW G, Good(t, G), NEW s \in FlashingState,
           s.next_write = t.next_write, s.remaining = t.remaining,
           s.next_erase_sector = t.next_erase_sector,
           s.remaining_erase_sector = t.remaining_erase_sector
    PROVE  Good(s, G)
BY DEF Good, Within

LEMMA ErasureKeeps ==
    ASSUME NEW s, NEW G, Good(s, G), NEW t \in FlashingState, NEW mem \in [Unit -> Content],
           t.next_erase_sector <= s.next_erase_sector + s.remaining_erase_sector
    PROVE  Erasure(mem, s, t) \in [Unit -> Content] /\ KeepsOthers(mem, Erasure(mem, s, t), G)
<1>1. /\ s.next_erase_sector \in Nat /\ s.remaining_erase_sector \in Nat
      /\ t.next_erase_sector \in Nat
  BY DEF Good, FlashingState
<1>2. \A e \in s.next_erase_sector .. t.next_erase_sector - 1 :
          e \in G
  BY <1>1 DEF Good, Within
<1> QED BY <1>2, ContentType DEF Erasure, EraseUnits, KeepsOthers

LEMMA EraseNextGood ==
    ASSUME NEW s, NEW G, Good(s, G), s.remaining_erase_sector > 0
    PROVE  /\ Good(EraseNext(s), G)
           /\ EraseNext(s).next_erase_sector <= s.next_erase_sector + s.remaining_erase_sector
<1> DEFINE t == EraseNext(s)
<1>1. PICK n \in 1 .. s.remaining_erase_sector :
          /\ t.next_erase_sector = s.next_erase_sector + n
          /\ t.remaining_erase_sector = s.remaining_erase_sector - n
  BY EraseNextType DEF Good
<1>2. t \in FlashingState /\ t.next_write = s.next_write /\ t.remaining = s.remaining
  BY EraseNextType DEF Good
<1>3. s.next_erase_sector \in Nat /\ s.remaining_erase_sector \in Nat
  BY DEF Good, FlashingState
<1> HIDE DEF t
<1>4. Within(t, G)
  BY <1>1, <1>2, <1>3 DEF Good, Within
<1>5. Good(t, G) /\ t.next_erase_sector <= s.next_erase_sector + s.remaining_erase_sector
  BY <1>1, <1>2, <1>3, <1>4 DEF Good
<1> QED BY <1>5 DEF t

LEMMA EraseUpToGood ==
    ASSUME NEW s, NEW G, Good(s, G), NEW last \in Nat
    PROVE  /\ Good(EraseUpTo(s, last), G)
           /\ EraseUpTo(s, last).next_erase_sector <= s.next_erase_sector + s.remaining_erase_sector
           /\ EraseUpTo(s, last).next_write = s.next_write
           /\ EraseUpTo(s, last).remaining = s.remaining
<1> DEFINE t == EraseUpTo(s, last)
<1>1. s \in FlashingState
  BY DEF Good
<1>2. PICK r \in 0 .. s.remaining_erase_sector : t = LeftToErase(s, r)
  BY <1>1, EraseUpToStops
<1>3. /\ t \in FlashingState /\ t.next_write = s.next_write /\ t.remaining = s.remaining
      /\ t.remaining_erase_sector = r
      /\ t.next_erase_sector = (s.next_erase_sector + s.remaining_erase_sector) - r
  BY <1>1, <1>2, LeftType
<1>4. s.next_erase_sector \in Nat /\ s.remaining_erase_sector \in Nat
  BY <1>1 DEF FlashingState
<1> HIDE DEF t
<1>5. Within(t, G)
  BY <1>2, <1>3, <1>4 DEF Good, Within
<1>6. Good(t, G) /\ t.next_erase_sector <= s.next_erase_sector + s.remaining_erase_sector
  BY <1>2, <1>3, <1>4, <1>5 DEF Good
<1> QED BY <1>3, <1>6 DEF t

\* handle_flash_data writes what it is told to where the file is, and no further.
LEMMA StoredGood ==
    ASSUME NEW s, NEW G, Good(s, G), NEW mem \in [Unit -> Content], NEW data \in Seq(Content),
           NEW fails \in BOOLEAN
    PROVE  /\ Good(Stored(s, mem, data, fails)[1], G)
           /\ Stored(s, mem, data, fails)[2] \in [Unit -> Content]
           /\ KeepsOthers(mem, Stored(s, mem, data, fails)[2], G)
<1> DEFINE n == IF Len(data) > s.remaining THEN s.remaining ELSE Len(data)
           t == EraseUpTo(s, Sector(s.next_write + n))
           blank == Erasure(mem, s, t)
           range == s.next_write .. s.next_write + n - 1
           src == [u \in range |-> data[u - s.next_write + 1]]
           s2 == [t EXCEPT !.next_write = @ + n, !.remaining = @ - n,
                           !.last_error = @ \/ fails]
<1>1. /\ s.next_write \in Nat /\ s.remaining \in Nat /\ s \in FlashingState
      /\ s.next_erase_sector \in Nat /\ s.remaining_erase_sector \in Nat
      /\ s.next_write + s.remaining <= NUnits
  BY DEF Good, FlashingState
<1>2. n \in Nat /\ n <= s.remaining /\ n <= Len(data) /\ Len(data) \in Nat
  BY <1>1
<1>3. CASE n = 0
  <2>1. Stored(s, mem, data, fails) = <<s, mem>>
    BY <1>3 DEF Stored
  <2> QED BY <2>1 DEF KeepsOthers
<1>4. CASE n # 0
  <2>1. Stored(s, mem, data, fails) = <<s2, IF fails THEN blank ELSE ProgramUnits(blank, range, src)>>
    BY <1>4 DEF Stored
  <2> HIDE DEF n
  <2>2. Sector(s.next_write + n) \in Nat
    <3>1. s.next_write + n \in Nat
      BY <1>1, <1>2
    <3> QED BY <3>1, SectorType
  <2>3. /\ Good(t, G) /\ t.next_write = s.next_write /\ t.remaining = s.remaining
        /\ t.next_erase_sector <= s.next_erase_sector + s.remaining_erase_sector
    BY <2>2, EraseUpToGood
  <2> HIDE DEF t
  <2>4. t \in FlashingState
    BY <2>3 DEF Good
  <2>5. blank \in [Unit -> Content] /\ KeepsOthers(mem, blank, G)
    BY <2>3, <2>4, ErasureKeeps
  <2> HIDE DEF blank
  <2>6. \A u \in range : u \in Nat /\ src[u] \in Content
    <3> SUFFICES ASSUME NEW u \in range PROVE u \in Nat /\ src[u] \in Content
      OBVIOUS
    <3>1. u \in Nat /\ u - s.next_write + 1 \in 1 .. Len(data)
      BY <1>1, <1>2
    <3> QED BY <3>1
  <2>7. \A u \in range : Sector(u) \in G
    BY <1>1, <1>2 DEF Good, Within
  <2>8. ProgramUnits(blank, range, src) \in [Unit -> Content]
    BY <2>5, <2>6, ContentType DEF ProgramUnits, Burn
  <2>9. KeepsOthers(mem, ProgramUnits(blank, range, src), G)
    BY <2>5, <2>7 DEF ProgramUnits, KeepsOthers
  <2>10. Good(s2, G)
    <3>1. t.next_write + n \in Nat /\ t.remaining - n \in Nat
      BY <1>1, <1>2, <2>3
    <3>2. /\ s2 \in FlashingState
          /\ s2.next_write = s.next_write + n /\ s2.remaining = s.remaining - n
          /\ s2.next_erase_sector = t.next_erase_sector
          /\ s2.remaining_erase_sector = t.remaining_erase_sector
      BY <2>3, <2>4, <3>1 DEF FlashingState
    <3> HIDE DEF s2
    <3>3. (s.next_write + n) + (s.remaining - n) = s.next_write + s.remaining
      BY <1>1, <1>2
    <3>4. Within(s2, G)
      <4>1. ASSUME NEW u \in s2.next_write .. s2.next_write + s2.remaining - 1
            PROVE  Sector(u) \in G
        <5>1. u \in s.next_write .. s.next_write + s.remaining - 1
          BY <1>1, <1>2, <3>2
        <5> QED BY <5>1 DEF Good, Within
      <4>2. ASSUME NEW e \in s2.next_erase_sector ..
                                 s2.next_erase_sector + s2.remaining_erase_sector - 1
            PROVE  e \in G
        BY <2>3, <3>2 DEF Good, Within
      <4> QED BY <4>1, <4>2 DEF Within
    <3> QED BY <2>3, <3>2, <3>3, <3>4 DEF Good
  <2> HIDE DEF s2, src, range
  <2> QED BY <2>1, <2>5, <2>8, <2>9, <2>10
<1> QED BY <1>3, <1>4

-------------------------------------------------------------------------------
(* The stub.                                                                   *)

UbType == [slip : {"none", "open", "body"}, reading : 1 .. 2, command : {1, 2, None},
           buf : [1 .. 2 -> Frames]]
JobType == [stage : {"wait", "took", "write"}, buf : 1 .. 2, next : Nat]
InflatorType == [file : Nat, next : Nat]
OutTyped == out \in Seq(Content) /\ Len(out) < OutUnits

\* What is said of the stub.
StubTyped ==
    /\ ub \in UbType /\ job \in JobType
    /\ Good(fs, Nat)
    /\ OutTyped
    /\ flash \in [Unit -> Content]

LEMMA RoundKeeps ==
    ASSUME StubTyped, NEW G, Good(fs, G),
           NEW units \in Seq(Content), Len(out \o units) <= OutUnits, NEW status,
           NEW inflator \in InflatorType, NEW next \in Nat, NEW last \in Nat,
           NEW fails \in BOOLEAN, Round(units, status, inflator, next, last, fails)
    PROVE  /\ job' \in JobType /\ Good(fs', G) /\ OutTyped'
           /\ flash' \in [Unit -> Content] /\ KeepsOthers(flash, flash', G)
<1>1. PICK early \in BOOLEAN :
        LET s == IF early /\ fs.remaining_erase_sector > 0 THEN EraseNext(fs) ELSE fs
            full == status = "done" \/ Len(out \o units) = OutUnits
            st == IF full THEN Stored(s, Erasure(flash, fs, s), out \o units, fails)
                  ELSE <<s, Erasure(flash, fs, s)>>
            left == st[1].remaining
            ends == next > last \/ left = 0 \/ status # "more"
        IN /\ flash' = st[2]
           /\ out' = IF full THEN <<>> ELSE out \o units
           /\ fs' = [st[1] EXCEPT !.inflator = inflator,
                                  !.last_error = @ \/ (ends /\ \/ status = "error"
                                                               \/ (status = "done") # (left = 0))]
           /\ job' = IF ends THEN [job EXCEPT !.stage = "wait"] ELSE [job EXCEPT !.next = next]
  BY Zenon DEF Round
<1> DEFINE s == IF early /\ fs.remaining_erase_sector > 0 THEN EraseNext(fs) ELSE fs
           full == status = "done" \/ Len(out \o units) = OutUnits
           mem == Erasure(flash, fs, s)
           st == IF full THEN Stored(s, mem, out \o units, fails) ELSE <<s, mem>>
           left == st[1].remaining
           ends == next > last \/ left = 0 \/ status # "more"
           error == ends /\ (status = "error" \/ (status = "done") # (left = 0))
<1>2. /\ flash' = st[2]
      /\ out' = IF full THEN <<>> ELSE out \o units
      /\ fs' = [st[1] EXCEPT !.inflator = inflator, !.last_error = @ \/ error]
      /\ job' = IF ends THEN [job EXCEPT !.stage = "wait"] ELSE [job EXCEPT !.next = next]
  BY <1>1
<1>3. /\ Good(s, G) /\ s \in FlashingState
      /\ s.next_erase_sector <= fs.next_erase_sector + fs.remaining_erase_sector
  <2>1. CASE s = fs
    BY <2>1 DEF StubTyped, Good, FlashingState
  <2>2. CASE s # fs
    BY <2>2, EraseNextGood DEF StubTyped, Good
  <2> QED BY <2>1, <2>2
<1> HIDE DEF s
<1>4. mem \in [Unit -> Content] /\ KeepsOthers(flash, mem, G)
  BY <1>3, ErasureKeeps DEF StubTyped
<1> HIDE DEF mem
<1>5. out \o units \in Seq(Content)
  BY DEF StubTyped, OutTyped
<1>6. Good(st[1], G) /\ st[2] \in [Unit -> Content] /\ KeepsOthers(flash, st[2], G)
  <2>1. CASE full
    <3>1. LET stored == Stored(s, mem, out \o units, fails)
          IN Good(stored[1], G) /\ stored[2] \in [Unit -> Content] /\ KeepsOthers(mem, stored[2], G)
      BY <1>3, <1>4, <1>5, StoredGood
    <3> QED BY <1>4, <2>1, <3>1 DEF KeepsOthers
  <2>2. CASE ~full
    BY <1>3, <1>4, <2>2
  <2> QED BY <2>1, <2>2
<1>7. OutTyped'
  <2>1. CASE full
    BY <1>2, <2>1, FilesType DEF OutTyped
  <2>2. CASE ~full
    <3>1. Len(out \o units) \in Nat /\ OutUnits \in Nat
      BY <1>5, FilesType
    <3>2. Len(out \o units) < OutUnits
      BY <2>2, <3>1
    <3>3. out' = out \o units
      BY <1>2, <2>2
    <3> QED BY <1>5, <3>2, <3>3 DEF OutTyped
  <2> QED BY <2>1, <2>2
<1> HIDE DEF st, full
<1>8. job' \in JobType
  BY <1>2 DEF StubTyped, JobType
<1>9. Good(fs', G)
  <2> HIDE DEF error, ends, left
  <2>1. \A bit \in BOOLEAN : (bit \/ error) \in BOOLEAN
    OBVIOUS
  <2>2. /\ fs' \in FlashingState
        /\ fs'.next_write = st[1].next_write /\ fs'.remaining = st[1].remaining
        /\ fs'.next_erase_sector = st[1].next_erase_sector
        /\ fs'.remaining_erase_sector = st[1].remaining_erase_sector
    BY <1>2, <1>6, <2>1 DEF Good, FlashingState, InflatorType
  <2> QED BY <1>6, <2>2 DEF Good, Within
<1> QED BY <1>2, <1>6, <1>7, <1>8, <1>9

LEMMA FrameType ==
    ASSUME NEW frame \in Frames
    PROVE  /\ frame.op \in Ops /\ frame.file \in Nat /\ frame.seq \in Nat
           /\ frame.sound \in {"good", "caught", "missed"}
           /\ frame.op \in {"BEGIN", "DATA", "MD5"} => frame.file \in DOMAIN File
           /\ frame.op = "DATA" => frame.seq \in Blocks(frame.file)
BY FilesType DEF Frames

LEMMA BlockType == StubTyped => Block \in Frames
BY DEF StubTyped, UbType, JobType, Block

\* tinfl_decompress gives no more than out_buf has room for, and nothing beyond the
\* file's end.
LEMMA InflatesKeeps ==
    ASSUME StubTyped, NEW G, Good(fs, G), NEW fails \in BOOLEAN, StubInflates(fails)
    PROVE  StubTyped' /\ Good(fs', G) /\ KeepsOthers(flash, flash', G)
<1> DEFINE f == Block.file
           room == OutUnits - Len(out)
           end == File[f].ends[Block.seq]
           next == IF job.next + room <= end THEN job.next + room ELSE end + 1
           units == [i \in 1 .. next - job.next |-> <<f, job.next + i - 1>>]
           status == IF next > Size(f) THEN "done" ELSE "more"
<1>1. /\ Round(units, status, [file |-> f, next |-> next], next, end, fails)
      /\ Continues /\ UNCHANGED ub
  BY DEF StubInflates
<1>2. f \in DOMAIN File /\ Block.seq \in Blocks(f) /\ f \in Nat
  BY <1>1, BlockType, FrameType DEF Continues
<1>3. end \in Nat /\ end <= Size(f) /\ First(f, Block.seq) \in Nat /\ First(f, Block.seq) > 0
  BY <1>2, FileType
<1>4. job.next \in Nat /\ job.next > 0 /\ job.next <= end
  BY <1>1, <1>3 DEF Continues
<1>5. room \in Nat /\ room > 0 /\ Len(out) \in Nat /\ out \in Seq(Content) /\ OutUnits \in Nat
  BY FilesType DEF StubTyped, OutTyped
<1> HIDE DEF f, end
<1>6. next \in Nat /\ next - job.next \in Nat /\ next - job.next <= room /\ next <= end + 1
  BY <1>3, <1>4, <1>5
<1>7. Len(out) + (next - job.next) <= OutUnits
  BY <1>4, <1>5, <1>6
<1> HIDE DEF room, next
<1>8. \A i \in 1 .. next - job.next : <<f, job.next + i - 1>> \in Content
  <2> SUFFICES ASSUME NEW i \in 1 .. next - job.next PROVE <<f, job.next + i - 1>> \in Content
    OBVIOUS
  <2>1. Size(f) \in Nat
    BY <1>2, FileType
  <2>2. job.next + i - 1 \in 1 .. Size(f)
    BY <1>3, <1>4, <1>6, <2>1
  <2> QED BY <1>2, <2>2, FileType, ContentType
<1>9. units \in Seq(Content) /\ Len(units) = next - job.next
  BY <1>6, <1>8
<1> HIDE DEF units
<1>10. Len(out \o units) <= OutUnits
  BY <1>5, <1>7, <1>9
<1>11. [file |-> f, next |-> next] \in InflatorType
  BY <1>2, <1>6 DEF InflatorType
<1> HIDE DEF status
<1>12. /\ job' \in JobType /\ Good(fs', G) /\ OutTyped'
       /\ flash' \in [Unit -> Content] /\ KeepsOthers(flash, flash', G)
  BY <1>1, <1>3, <1>6, <1>9, <1>10, <1>11, RoundKeeps
<1>13. Good(fs', Nat)
  BY <1>1, <1>3, <1>6, <1>9, <1>10, <1>11, RoundKeeps DEF StubTyped
<1> QED BY <1>1, <1>12, <1>13 DEF StubTyped

LEMMA GarbageKeeps ==
    ASSUME StubTyped, NEW G, Good(fs, G), NEW fails \in BOOLEAN, StubInflatesGarbage(fails)
    PROVE  StubTyped' /\ Good(fs', G) /\ KeepsOthers(flash, flash', G)
<1>1. PICK units \in {<<>>, <<Garbage>>}, status \in {"error", "more"} :
         Round(units, status, Broken, 1, 0, fails) /\ UNCHANGED ub
  BY DEF StubInflatesGarbage
<1>2. units \in Seq(Content) /\ Len(units) <= 1
  <2>1. <<>> \in Seq(Content) /\ Len(<<>>) <= 1
    OBVIOUS
  <2>2. <<Garbage>> \in Seq(Content) /\ Len(<<Garbage>>) <= 1
    BY ContentType
  <2> QED BY <1>1, <2>1, <2>2, Zenon
<1>3. Len(out \o units) <= OutUnits
  <2>1. out \in Seq(Content) /\ Len(out) \in Nat /\ Len(out) < OutUnits /\ OutUnits \in Nat
    BY FilesType DEF StubTyped, OutTyped
  <2>2. Len(out \o units) = Len(out) + Len(units) /\ Len(units) \in Nat
    BY <1>2, <2>1
  <2> QED BY <1>2, <2>1, <2>2
<1>4. Broken \in InflatorType
  BY DEF Broken, InflatorType
<1>5. /\ job' \in JobType /\ Good(fs', G) /\ OutTyped'
      /\ flash' \in [Unit -> Content] /\ KeepsOthers(flash, flash', G)
  BY <1>1, <1>2, <1>3, <1>4, RoundKeeps
<1>6. Good(fs', Nat)
  BY <1>1, <1>2, <1>3, <1>4, RoundKeeps DEF StubTyped
<1> QED BY <1>1, <1>5, <1>6 DEF StubTyped

LEMMA SizeNothing == SectorsToErase(0, 0) = 0
<1>1. \A b \in Nat : b > 0 => (0 % b) + 0 + b - 1 = b - 1 /\ (b - 1) \div b = 0
  OBVIOUS
<1> QED BY <1>1, FilesType DEF SectorsToErase

\* A flashing state begins with everything to write and its sectors to erase.
LEMMA BegunType ==
    ASSUME NEW a \in Nat, NEW n \in Nat, a + n <= NUnits
    PROVE  /\ Begun(a, n) \in FlashingState /\ Good(Begun(a, n), Nat)
           /\ Begun(a, n).next_write = a /\ Begun(a, n).remaining = n
           /\ Begun(a, n).next_erase_sector = Sector(a)
           /\ Begun(a, n).remaining_erase_sector = SectorsToErase(a, n)
<1> DEFINE t == Begun(a, n)
<1>1. Fresh \in [file : Nat, next : Nat] /\ Sector(a) \in Nat
  BY SectorType DEF Fresh
<1>2. SectorsToErase(a, n) \in Nat
  <2>1. \A x, y, z \in Nat : z > 0 => ((x % z) + y + z - 1) \div z \in Nat
    OBVIOUS
  <2> QED BY <2>1, FilesType DEF SectorsToErase
<1>3. /\ t \in FlashingState /\ t.next_write = a /\ t.remaining = n
      /\ t.next_erase_sector = Sector(a) /\ t.remaining_erase_sector = SectorsToErase(a, n)
  BY <1>1, <1>2 DEF Begun, FlashingState
<1> HIDE DEF t
<1>4. a + n \in 0 .. NUnits
  BY ContentType
<1>5. Good(t, Nat)
  BY <1>3, <1>4, GoodType
<1> QED BY <1>3, <1>5 DEF t

LEMMA BegunGood ==
    /\ \A p \in Misplaced : Good(Begun(p.at, p.size), Nat)
    /\ \A f \in DOMAIN File : Good(Begun(File[f].at, Size(f)), Sectors(f))
    /\ \A G : Good(Begun(0, 0), G) /\ Good(Idle, G)
<1>1. ASSUME NEW p \in Misplaced PROVE Good(Begun(p.at, p.size), Nat)
  <2>1. p \in [at : Nat, size : Nat] /\ p.at + p.size <= NUnits
    BY FilesAssumption DEF FilesAssumption
  <2>2. p.at \in Nat /\ p.size \in Nat
    BY <2>1
  <2> QED BY <2>1, <2>2, BegunType
<1>2. ASSUME NEW f \in DOMAIN File PROVE Good(Begun(File[f].at, Size(f)), Sectors(f))
  <2> DEFINE a == File[f].at
             n == Size(f)
             t == Begun(a, n)
  <2>1. a \in Nat /\ n \in Nat /\ n > 0 /\ Sector(a) \in Nat
    BY FileType, SectorType
  <2>2. a + n \in 0 .. NUnits
    <3>1. (a + n) - 1 \in Place(f)
      BY <2>1 DEF Place
    <3>2. (a + n) - 1 \in Unit
      BY <3>1, FileType
    <3> QED BY <2>1, <3>2, ContentType DEF Unit
  <2>3. /\ t \in FlashingState /\ t.next_write = a /\ t.remaining = n
        /\ t.next_erase_sector = Sector(a) /\ t.remaining_erase_sector = SectorsToErase(a, n)
    <3> HIDE DEF a, n
    <3> QED BY <2>1, <2>2, BegunType
  <2>4. Within(t, Sectors(f))
    <3>1. \A u \in a .. a + n - 1 : Sector(u) \in Sectors(f)
      BY DEF Place, Sectors
    <3>2. \A e \in Sector(a) .. Sector(a) + SectorsToErase(a, n) - 1 : e \in Sectors(f)
      BY SectorsCounted
    <3> HIDE DEF a, n, t
    <3> QED BY <2>3, <3>1, <3>2 DEF Within
  <2> HIDE DEF t, a, n
  <2>5. Good(t, Sectors(f))
    BY <2>2, <2>3, <2>4 DEF Good
  <2> QED BY <2>5 DEF t, a, n
<1>3. ASSUME NEW t \in FlashingState, NEW G, t.next_write = 0, t.remaining = 0,
             t.next_erase_sector = 0, t.remaining_erase_sector = 0
      PROVE  Good(t, G)
  <2>1. 0 + 0 - 1 = -1
    OBVIOUS
  <2>2. Within(t, G)
    BY <1>3 DEF Within
  <2> QED BY <1>3, <2>2, ContentType DEF Good
<1>4. \A G : Good(Idle, G)
  <2>1. Idle \in FlashingState
    BY DEF Idle, FlashingState, Fresh
  <2> QED BY <1>3, <2>1 DEF Idle
<1>5. \A G : Good(Begun(0, 0), G)
  <2>1. Sector(0) = 0
    BY FilesType DEF Sector
  <2>2. 0 + 0 <= NUnits
    BY ContentType
  <2>3. /\ Begun(0, 0) \in FlashingState /\ Begun(0, 0).next_write = 0
        /\ Begun(0, 0).remaining = 0 /\ Begun(0, 0).next_erase_sector = 0
        /\ Begun(0, 0).remaining_erase_sector = 0
    BY <2>1, <2>2, BegunType, SizeNothing
  <2> QED BY <1>3, <2>3
<1> QED BY <1>1, <1>2, <1>4, <1>5

\* A BEGIN or LEAVE that is executed: the place is its own, unless it has changed.
LEMMA BeginsWhat ==
    ASSUME StubTyped, StubBegins
    PROVE  \/ Block.sound = "caught" /\ fs' = fs
           \/ Block.sound = "missed" /\ Good(fs', Nat)
           \/ /\ Block.sound = "good" /\ Block.op = "BEGIN" /\ Block.file \in DOMAIN File
              /\ Good(fs', Sectors(Block.file))
           \/ /\ Block.sound = "good" /\ Block.op = "LEAVE" /\ \A G : Good(fs', G)
<1>1. Block \in Frames /\ Block.op \in {"BEGIN", "LEAVE"}
  BY BlockType DEF StubBegins, Handles
<1>2. Block.sound \in {"good", "caught", "missed"} /\ (Block.op = "BEGIN" => Block.file \in DOMAIN File)
  BY <1>1, FrameType
<1>3. PICK p \in Named :
          fs' = IF Block.sound = "caught" THEN fs
                ELSE [Begun(p.at, p.size) EXCEPT
                        !.inflator = IF Block.op = "LEAVE" THEN fs.inflator ELSE Fresh]
  BY DEF StubBegins
<1>4. ASSUME NEW G, Good(Begun(p.at, p.size), G), Block.sound # "caught" PROVE Good(fs', G)
  <2> DEFINE i == IF Block.op = "LEAVE" THEN fs.inflator ELSE Fresh
             t == Begun(p.at, p.size)
  <2>1. i \in [file : Nat, next : Nat]
    BY DEF StubTyped, Good, FlashingState, Fresh
  <2>2. t \in FlashingState
    BY <1>4 DEF Good
  <2>3. fs' = [t EXCEPT !.inflator = i]
    BY <1>3, <1>4
  <2> HIDE DEF i, t
  <2>4. /\ fs' \in FlashingState
        /\ fs'.next_write = t.next_write /\ fs'.remaining = t.remaining
        /\ fs'.next_erase_sector = t.next_erase_sector
        /\ fs'.remaining_erase_sector = t.remaining_erase_sector
    BY <2>1, <2>2, <2>3 DEF FlashingState
  <2>5. Good(t, G)
    BY <1>4 DEF t
  <2> QED BY <2>4, <2>5, SameGood
<1>5. CASE Block.sound = "caught"
  BY <1>3, <1>5
<1>6. CASE Block.sound = "missed"
  <2>1. p \in Misplaced
    BY <1>6 DEF Named
  <2> QED BY <1>4, <1>6, <2>1, BegunGood
<1>7. CASE Block.sound = "good" /\ Block.op = "BEGIN"
  <2>1. p = [at |-> File[Block.file].at, size |-> Size(Block.file)]
    BY <1>7 DEF Named
  <2> QED BY <1>2, <1>4, <1>7, <2>1, BegunGood
<1>8. CASE Block.sound = "good" /\ Block.op = "LEAVE"
  <2>1. p = [at |-> 0, size |-> 0]
    BY <1>8 DEF Named
  <2> QED BY <1>4, <1>8, <2>1, BegunGood
<1> QED BY <1>1, <1>2, <1>5, <1>6, <1>7, <1>8

\* A command leaves the flash as it is.
LEMMA WorksKeeps ==
    ASSUME StubTyped, StubWorks
    PROVE  StubTyped' /\ flash' = flash
<1> USE DEF StubTyped
<1>1. job \in JobType /\ ub \in UbType /\ Block \in Frames
  BY BlockType
<1>2. [job EXCEPT !.stage = "wait"] \in JobType
  BY <1>1 DEF JobType
<1>3. [ub EXCEPT !.command = None] \in UbType
  BY <1>1 DEF UbType
<1>4. \A op : Handles(op) => ub' \in UbType /\ UNCHANGED <<out, flash>>
  BY <1>3 DEF Handles
<1>5. ASSUME ub' \in UbType, job' \in JobType, Good(fs', Nat), UNCHANGED <<out, flash>>
      PROVE  StubTyped' /\ flash' = flash
  BY <1>5 DEF OutTyped
<1>6. CASE StubTakes
  <2>1. ub.command \in {1, 2}
    BY <1>1, <1>6 DEF StubTakes, UbType
  <2>2. job' \in JobType
    <3>1. job' = [job EXCEPT !.stage = "took", !.buf = ub.command] /\ ub.command \in 1 .. 2
      BY <1>6, <2>1 DEF StubTakes
    <3> QED BY <1>1, <3>1 DEF JobType
  <2> QED BY <1>1, <1>5, <1>6, <2>2 DEF StubTakes
<1>7. CASE StubSyncs \/ StubReads \/ StubLoads \/ StubHashes \/ StubRefuses
  <2>1. UNCHANGED fs /\ Finishes /\ ub' \in UbType /\ UNCHANGED <<out, flash>>
    BY <1>4, <1>7 DEF StubSyncs, StubReads, StubLoads, StubHashes, StubRefuses
  <2> QED BY <1>2, <1>5, <2>1 DEF Finishes
<1>8. CASE StubBegins
  <2>1. Finishes /\ ub' \in UbType /\ UNCHANGED <<out, flash>>
    BY <1>4, <1>8 DEF StubBegins
  <2>2. Good(fs', Nat)
    BY <1>8, BeginsWhat, GoodType DEF Good
  <2> QED BY <1>2, <1>5, <2>1, <2>2 DEF Finishes
<1>9. CASE StubAcknowledges
  <2>1. ub' \in UbType /\ UNCHANGED <<out, flash>> /\ UNCHANGED fs
    BY <1>4, <1>9 DEF StubAcknowledges
  <2>2. First(Block.file, Block.seq) \in Nat
    BY <1>1, <1>9, FrameType, FileType DEF StubAcknowledges, Handles
  <2>3. job' \in JobType
    BY <1>1, <1>9, <2>2 DEF StubAcknowledges, JobType
  <2> QED BY <1>5, <2>1, <2>3
<1>10. CASE StubEnds
  <2>1. Finishes /\ ub' \in UbType /\ UNCHANGED <<out, flash>>
    BY <1>4, <1>10 DEF StubEnds
  <2>2. \A s : Good(s, Nat) => Good([s EXCEPT !.in_flash_mode = FALSE], Nat)
    BY DEF Good, FlashingState, Within
  <2>3. Good(fs', Nat)
    BY <1>10, <2>2 DEF StubEnds
  <2> QED BY <1>2, <1>5, <2>1, <2>3 DEF Finishes
<1>11. CASE StubHasTooMuch
  <2>1. \A s : Good(s, Nat) => Good([s EXCEPT !.last_error = TRUE], Nat)
    BY DEF Good, FlashingState, Within
  <2> QED BY <1>1, <1>2, <1>5, <1>11, <2>1 DEF StubHasTooMuch
<1> QED BY <1>6, <1>7, <1>8, <1>9, <1>10, <1>11 DEF StubWorks

-------------------------------------------------------------------------------
(* esptool and the line.                                                       *)

\* What is said of esptool ...
ToolTyped ==
    /\ verdict \in {"none", "running", "done", "failed"}
    /\ request \in Frames /\ wire \in Frames \union {None}
    /\ got \in 0 .. SyncAnswers - 1 /\ try \in 0 .. Tries * Syncs
    /\ detected \in BOOLEAN
    /\ verdict = "running" => request.op # "none"

\* ... and of the line and the ROM's loader.
LineTyped ==
    /\ clean \in BOOLEAN /\ faults \in 0 .. MaxFaults
    /\ chip \in {"app", "rom", "starting", "stub"}
    /\ loader \in Seq(Frames)

AnswersTyped == answers \in Seq(Answers)

\* And of the places that it writes to.
Kept == strayed \in BOOLEAN /\ InFiles /\ OthersKept

Parts == ToolTyped /\ LineTyped /\ StubTyped /\ Kept

LEMMA StepInvParts ==
    StepInv <=> Parts /\ AnswersTyped /\ deceived \in BOOLEAN /\ StubInOrder /\ InStep
<1>1. fs \in FlashingState /\ fs.next_write + fs.remaining \in 0 .. NUnits <=> Good(fs, Nat)
  BY GoodType DEF Good
<1>2. TypeOK /\ (verdict = "running" => request.op # "none")
        <=> /\ ToolTyped /\ LineTyped /\ StubTyped /\ AnswersTyped
            /\ deceived \in BOOLEAN /\ strayed \in BOOLEAN
  BY <1>1, Zenon DEF TypeOK, AnswersTyped, ToolTyped, LineTyped, StubTyped, OutTyped, UbType, JobType
<1> QED BY <1>2, Zenon DEF StepInv, Parts, Kept

LEMMA TriesType == Tries * Syncs \in Nat /\ 1 \in 0 .. Tries * Syncs
<1>1. \A m, n \in Nat : m > 0 /\ n > 0 => m * n \in Nat /\ 1 \in 0 .. m * n
  <2> SUFFICES ASSUME NEW m \in Nat, NEW n \in Nat, m > 0, n > 0
               PROVE  m * n \in Nat /\ 1 \in 0 .. m * n
    OBVIOUS
  <2>1. PICK i \in Nat, j \in Nat : m = i + 1 /\ n = j + 1
    BY m - 1 \in Nat, n - 1 \in Nat
  <2>2. m * n = (i * j) + i + j + 1 /\ i * j \in Nat
    BY <2>1
  <2> QED BY <2>2
<1> QED BY <1>1, ToolAssumption DEF ToolAssumption

LEMMA FramesMade ==
    /\ \A op \in Ops \ {"BEGIN", "DATA", "MD5"} : Frame(op, 0, 0) \in Frames
    /\ \A f \in DOMAIN File :
          /\ \A op \in Ops \ {"DATA"} : Frame(op, f, 0) \in Frames
          /\ \A k \in Blocks(f) : Frame("DATA", f, k) \in Frames
    /\ \A op, f, k : Frame(op, f, k).op = op
<1>1. \A f \in DOMAIN File : f \in 0 .. Len(File) /\ f # 0 /\ Blocks(f) \subseteq Nat
  BY FileType
<1>2. 0 \in 0 .. Len(File)
  BY FilesType
<1>3. ASSUME NEW op \in Ops, NEW f \in 0 .. Len(File), NEW k \in Nat,
             op \in {"BEGIN", "DATA", "MD5"} => f # 0, op = "DATA" => k \in Blocks(f)
      PROVE  Frame(op, f, k) \in Frames
  BY <1>3 DEF Frame, Frames
<1>4. \A op \in Ops \ {"BEGIN", "DATA", "MD5"} : Frame(op, 0, 0) \in Frames
  BY <1>2, <1>3
<1>5. ASSUME NEW f \in DOMAIN File
      PROVE  /\ \A op \in Ops \ {"DATA"} : Frame(op, f, 0) \in Frames
             /\ \A k \in Blocks(f) : Frame("DATA", f, k) \in Frames
  BY <1>1, <1>3 DEF Ops
<1> QED BY <1>4, <1>5 DEF Frame

\* What esptool asks for next is a command it knows.
LEMMA AfterType ==
    ASSUME NEW r \in Frames, r.op \notin {"none", "END"}
    PROVE  After(r) \in Frames /\ After(r).op # "none"
<1>1. r.op \in Ops
  BY FrameType
<1>2. CASE r.op \in {"SYNC", "MEM", "MEM_END", "OHAI", "LEAVE"}
  BY <1>2, FramesMade, FilesType DEF After, Ops
<1>3. CASE r.op = "READ" /\ r.file = 0
  BY <1>3, FramesMade, FilesType DEF After, Ops
<1>4. CASE r.op = "BEGIN"
  <2>1. r.file \in DOMAIN File
    BY <1>4, FrameType
  <2> QED BY <1>4, <2>1, FramesMade, FileType DEF After
<1>5. CASE r.op = "DATA"
  <2>1. r.file \in DOMAIN File
    BY <1>5, FrameType
  <2> QED BY <1>5, <2>1, FramesMade DEF After, Ops
<1>6. CASE r.op = "READ" /\ r.file # 0
  <2>1. r.file \in DOMAIN File
    BY <1>6, FilesType DEF Frames
  <2> QED BY <1>6, <2>1, FramesMade DEF After, Ops
<1>7. CASE r.op = "MD5"
  BY <1>7, FramesMade DEF After, Ops
<1> QED BY <1>1, <1>2, <1>3, <1>4, <1>5, <1>6, <1>7 DEF Ops

LEMMA EndsTyped ==
    ASSUME ToolTyped, NEW v \in {"done", "failed"}, Ends(v)
    PROVE  ToolTyped'
BY FramesMade, FilesType DEF Ends, ToolTyped, Ops

LEMMA GoesOnTyped ==
    ASSUME ToolTyped, request.op \notin {"none", "END"}, NEW others, GoesOn(others)
    PROVE  ToolTyped'
<1>1. request' = After(request) /\ request' \in Frames /\ request'.op # "none"
  BY AfterType DEF GoesOn, ToolTyped
<1> QED BY <1>1, FilesType DEF GoesOn, ToolTyped

LEMMA ConnectsTyped ==
    ASSUME ToolTyped, NEW n \in 0 .. Tries * Syncs, Connects(n)
    PROVE  ToolTyped'
BY FramesMade, FilesType DEF Connects, ToolTyped, Ops

LEMMA FaultTyped == LineTyped /\ (Fault \/ NoFault \/ UNCHANGED <<faults, clean>>) => clean' \in BOOLEAN /\ faults' \in 0 .. MaxFaults
<1> SUFFICES ASSUME LineTyped, Fault \/ NoFault \/ UNCHANGED <<faults, clean>>
             PROVE  clean' \in BOOLEAN /\ faults' \in 0 .. MaxFaults
  OBVIOUS
<1>1. CASE Fault
  <2>1. faults \in Nat /\ MaxFaults \in Nat /\ faults < MaxFaults /\ faults' = faults + 1
    BY <1>1, ToolAssumption DEF Fault, FaultIsLeft, LineTyped, ToolAssumption
  <2>2. clean' \in BOOLEAN
    BY <1>1, Zenon DEF Fault
  <2>3. faults' \in 0 .. MaxFaults
    BY <2>1
  <2> QED BY <2>2, <2>3
<1>2. CASE NoFault
  BY <1>2 DEF NoFault, LineTyped, history
<1>3. CASE UNCHANGED <<faults, clean>>
  BY <1>3 DEF LineTyped
<1> QED BY <1>1, <1>2, <1>3

LEMMA LineStays == LineTyped /\ (Fault \/ NoFault \/ UNCHANGED <<faults, clean>>) /\ UNCHANGED device => LineTyped'
BY FaultTyped DEF LineTyped, device

LEMMA ReadsSyncTyped ==
    ASSUME ToolTyped, ToolReadsSync
    PROVE  ToolTyped'
<1>1. CASE Skips
  BY <1>1 DEF Skips, tool, ToolTyped
<1>2. CASE ~Skips
  <2>1. PICK a : /\ detected' = ((got > 0 => detected) /\ a.val = "zero")
                 /\ IF AllAnswered(got + 1)
                    THEN request' = After(request) /\ wire = None /\ wire' = request' /\ got' = 0
                    ELSE got' = got + 1 /\ UNCHANGED <<request, wire>>
                 /\ UNCHANGED <<verdict, try>>
    BY <1>2 DEF ToolReadsSync
  <2>2. detected' \in BOOLEAN
    BY <2>1
  <2>3. CASE AllAnswered(got + 1)
    <3>1. request' \in Frames /\ request'.op # "none"
      BY <2>1, <2>3, AfterType DEF ToolReadsSync, ToolTyped
    <3> QED BY <2>1, <2>2, <2>3, <3>1, FilesType DEF ToolTyped
  <2>4. CASE ~AllAnswered(got + 1)
    <3>1. got' \in 0 .. SyncAnswers - 1
      BY <2>1, <2>4, FilesType DEF AllAnswered, ToolTyped
    <3> QED BY <2>1, <2>2, <2>4, <3>1 DEF ToolTyped
  <2> QED BY <2>3, <2>4
<1> QED BY <1>1, <1>2

LEMMA GreetingTyped ==
    ASSUME ToolTyped, ToolReadsGreeting
    PROVE  ToolTyped'
<1>1. PICK others : GoesOn(others) \/ Ends("failed")
  BY DEF ToolReadsGreeting
<1>2. request.op = "OHAI"
  BY DEF ToolReadsGreeting
<1> QED BY <1>1, <1>2, GoesOnTyped, EndsTyped

LEMMA ReadsTyped ==
    ASSUME ToolTyped, ToolReads
    PROVE  ToolTyped'
<1>1. request.op # "none"
  BY DEF ToolReads, Reads, ToolTyped
<1>2. CASE Skips
  BY <1>2 DEF Skips, tool, ToolTyped
<1>3. CASE Ends("failed") \/ Leaves
  BY <1>3, EndsTyped DEF Leaves
<1>4. CASE GoesOn(Tail(answers)) /\ request.op # "END"
  BY <1>1, <1>4, GoesOnTyped
<1> QED BY <1>2, <1>3, <1>4 DEF ToolReads

LEMMA GivesUpTyped ==
    ASSUME ToolTyped, ToolGivesUp
    PROVE  ToolTyped'
<1>1. CASE GoesOn(<<>>) /\ request.op = "MEM_END"
  BY <1>1, GoesOnTyped
<1>2. CASE Ends("failed")
  BY <1>2, EndsTyped
<1> QED BY <1>1, <1>2 DEF ToolGivesUp

LEMMA TriesAgainTyped ==
    ASSUME ToolTyped, ToolTriesAgain
    PROVE  ToolTyped'
<1>1. try + 1 \in 0 .. Tries * Syncs
  BY TriesType DEF ToolTriesAgain, ToolTyped
<1> QED BY <1>1, ConnectsTyped DEF ToolTriesAgain

LEMMA NewTyped == NewUart \in UbType /\ NewJob \in JobType
<1>1. Frame("none", 0, 0) \in Frames
  BY FramesMade DEF Ops
<1> QED BY <1>1 DEF NewUart, NewJob, UbType, JobType

LEMMA RestartsTyped ==
    ASSUME StubTyped, Restarts, UNCHANGED flash
    PROVE  StubTyped'
<1>1. OutTyped'
  BY FilesType DEF Restarts, OutTyped
<1>2. Good(fs', Nat)
  BY BegunGood DEF Restarts
<1> QED BY <1>1, <1>2, NewTyped DEF Restarts, StubTyped

\* A reset or no reset: the stub is as it was, or as it starts.
LEMMA ResetTyped ==
    ASSUME LineTyped, StubTyped, Reset \/ UNCHANGED <<device, stub>>, UNCHANGED flash
    PROVE  /\ chip' \in {"app", "rom", "starting", "stub"} /\ loader' \in Seq(Frames)
           /\ StubTyped'
<1>1. CASE UNCHANGED <<device, stub>>
  BY <1>1 DEF device, stub, LineTyped, StubTyped, OutTyped
<1>2. CASE ~UNCHANGED <<device, stub>>
  <2>1. chip' = "rom" /\ loader' = <<>> /\ Restarts
    BY <1>2 DEF Reset
  <2>2. StubTyped'
    BY <2>1, RestartsTyped
  <2> QED BY <2>1, <2>2
<1> QED BY <1>1, <1>2

LEMMA DelimiterType == \A u \in UbType : Delimiter(u) \in UbType
<1> SUFFICES ASSUME NEW u \in UbType PROVE Delimiter(u) \in UbType
  OBVIOUS
<1>1. CASE u.slip = "none"
  BY <1>1 DEF Delimiter, UbType
<1>2. CASE u.slip # "none"
  <2>1. u.reading \in {1, 2} /\ OtherBuffer(u.reading) \in {1, 2}
    BY DEF OtherBuffer, UbType
  <2>2. Delimiter(u) = [u EXCEPT !.slip = "none", !.command = u.reading,
                                 !.reading = OtherBuffer(u.reading)]
    BY <1>2 DEF Delimiter
  <2>3. OtherBuffer(u.reading) \in 1 .. 2 /\ u.reading \in {1, 2, None}
    BY <2>1
  <2> HIDE DEF OtherBuffer
  <2> QED BY <2>2, <2>3 DEF UbType
<1> QED BY <1>1, <1>2

LEMMA BytesType == \A u \in UbType, frame \in Frames : Bytes(u, frame) \in UbType
BY DEF Bytes, UbType

LEMMA ReceivesTyped ==
    ASSUME StubTyped, ToolTyped, StubReceives
    PROVE  ub' \in UbType
<1>1. wire \in Frames /\ ub \in UbType
  BY DEF StubReceives, ToolTyped, StubTyped
<1>2. \A s \in {"caught", "missed", "good"} : [wire EXCEPT !.sound = s] \in Frames
  BY <1>1 DEF Frames
<1>3. Received(ub) \in UbType
  BY <1>1, DelimiterType, BytesType DEF Received
<1>4. ASSUME NEW u \in Damaged(ub) PROVE u \in UbType
  <2>1. CASE u \in {ub, Delimiter(Bytes(ub, wire)), Delimiter(Delimiter(ub)),
                    Bytes(Delimiter(ub), wire),
                    Delimiter(Bytes(Delimiter(Delimiter(ub)), wire))}
    BY <1>1, <2>1, DelimiterType, BytesType
  <2>2. CASE \E s \in {"caught", "missed"} :
                u = Delimiter(Bytes(Delimiter(ub), [wire EXCEPT !.sound = s]))
    BY <1>1, <1>2, <2>2, DelimiterType, BytesType
  <2>3. CASE \E s \in {"caught", "missed", "good"} :
                u = Delimiter(Delimiter(Bytes(Delimiter(ub), [wire EXCEPT !.sound = s])))
    BY <1>1, <1>2, <2>3, DelimiterType, BytesType
  <2> QED BY <1>4, <2>1, <2>2, <2>3 DEF Damaged, Unnoticed
<1> QED BY <1>3, <1>4 DEF StubReceives

-------------------------------------------------------------------------------
(* What the chip has sent.                                                   *)
LEMMA AnswersShort ==
    /\ \A s \in Seq(Answers) : AnswersTo(s, <<>>) <=> s = <<>>
    /\ \A s \in Seq(Answers) : \A a : AnswersTo(s, <<a>>) <=> Len(s) = 1 /\ s[1].op = a
    /\ \A s \in Seq(Answers) : \A a, b :
          AnswersTo(s, <<a, b>>) <=> Len(s) = 2 /\ s[1].op = a /\ s[2].op = b
<1>1. ASSUME NEW s \in Seq(Answers) PROVE AnswersTo(s, <<>>) <=> s = <<>>
  BY DEF AnswersTo
<1>2. ASSUME NEW s \in Seq(Answers), NEW a
      PROVE  AnswersTo(s, <<a>>) <=> Len(s) = 1 /\ s[1].op = a
  BY DEF AnswersTo
<1>3. ASSUME NEW s \in Seq(Answers), NEW a, NEW b
      PROVE  AnswersTo(s, <<a, b>>) <=> Len(s) = 2 /\ s[1].op = a /\ s[2].op = b
  BY DEF AnswersTo
<1> QED BY <1>1, <1>2, <1>3

\* Appending to none, and reading the first of one and of two.
LEMMA AnswersMove ==
    /\ \A a \in Answers : Append(<<>>, a) \in Seq(Answers) /\ AnswersTo(Append(<<>>, a), <<a.op>>)
    /\ \A s \in Seq(Answers), a \in Answers : \A op :
          AnswersTo(s, <<op>>) => AnswersTo(Append(s, a), <<op, a.op>>)
    /\ \A s \in Seq(Answers) : \A op : AnswersTo(s, <<op>>) => Head(s).op = op /\ Tail(s) = <<>>
    /\ \A s \in Seq(Answers) : \A op1, op2 :
          AnswersTo(s, <<op1, op2>>) => Head(s).op = op1 /\ AnswersTo(Tail(s), <<op2>>)
<1>1. ASSUME NEW a \in Answers
      PROVE  Append(<<>>, a) \in Seq(Answers) /\ AnswersTo(Append(<<>>, a), <<a.op>>)
  <2> DEFINE s == Append(<<>>, a)
  <2>1. s \in Seq(Answers) /\ Len(s) = 1 /\ s[1] = a
    OBVIOUS
  <2> HIDE DEF s
  <2> QED BY <2>1, AnswersShort
<1>2. ASSUME NEW s \in Seq(Answers), NEW a \in Answers, NEW op, AnswersTo(s, <<op>>)
      PROVE  AnswersTo(Append(s, a), <<op, a.op>>)
  <2>1. Len(s) = 1
    BY <1>2, AnswersShort
  <2>5. s[1].op = op
    BY <1>2, AnswersShort
  <2> DEFINE t == Append(s, a)
  <2>2. t \in Seq(Answers) /\ Len(t) = Len(s) + 1
    BY AppendProperties
  <2>3. t[1] = s[1]
    BY <2>1, AppendProperties
  <2>4. t[Len(s) + 1] = a
    BY AppendProperties
  <2> HIDE DEF t
  <2>6. Len(t) = 2 /\ t[1].op = op /\ t[2].op = a.op
    BY <2>1, <2>2, <2>3, <2>4, <2>5
  <2>7. AnswersTo(t, <<op, a.op>>)
    BY <2>2, <2>6, AnswersShort
  <2> QED BY <2>7 DEF t
<1>3. ASSUME NEW s \in Seq(Answers), NEW op, AnswersTo(s, <<op>>)
      PROVE  Head(s).op = op /\ Tail(s) = <<>>
  <2>1. Len(s) = 1
    BY <1>3, AnswersShort
  <2>5. s[1].op = op
    BY <1>3, AnswersShort
  <2>2. Tail(s) \in Seq(Answers) /\ Len(Tail(s)) = Len(s) - 1 /\ Head(s) = s[1]
    BY <2>1, HeadTailProperties
  <2>3. Tail(s) = <<>>
    <3>1. Len(Tail(s)) = 0
      BY <2>1, <2>2
    <3> QED BY <2>2, <3>1, EmptySeq
  <2> QED BY <2>2, <2>3, <2>5
<1>4. ASSUME NEW s \in Seq(Answers), NEW op1, NEW op2, AnswersTo(s, <<op1, op2>>)
      PROVE  Head(s).op = op1 /\ AnswersTo(Tail(s), <<op2>>)
  <2>1. Len(s) = 2
    BY <1>4, AnswersShort
  <2>5. s[1].op = op1 /\ s[2].op = op2
    BY <1>4, AnswersShort
  <2>2. Tail(s) \in Seq(Answers) /\ Len(Tail(s)) = Len(s) - 1 /\ Head(s) = s[1]
    BY <2>1, HeadTailProperties
  <2>3. Tail(s)[1] = s[1 + 1]
    BY <2>1, <2>2, HeadTailProperties
  <2> DEFINE t == Tail(s)
  <2>6. t \in Seq(Answers) /\ Len(t) = 1 /\ t[1].op = op2
    BY <2>1, <2>2, <2>3, <2>5
  <2> HIDE DEF t
  <2>7. AnswersTo(t, <<op2>>)
    BY <2>6, AnswersShort
  <2> QED BY <2>2, <2>5, <2>7 DEF t
<1> QED BY <1>1, <1>2, <1>3, <1>4
LEMMA AnswerType ==
    ASSUME NEW op \in Ops, NEW ok \in BOOLEAN, NEW val \in {"zero", "register"},
           NEW hash \in Seq(Content)
    PROVE  Answer(op, ok, val, hash) \in Answers
BY DEF Answer, Answers

\* ... with an empty hash.
LEMMA PlainAnswerType ==
    ASSUME NEW op \in Ops, NEW ok \in BOOLEAN, NEW val \in {"zero", "register"}
    PROVE  Answer(op, ok, val, <<>>) \in Answers
<1>1. <<>> \in Seq(Content)
  OBVIOUS
<1> QED BY <1>1, AnswerType

LEMMA ManyAnswers ==
    ASSUME NEW a \in Answers, NEW n \in Nat, NEW s \in Seq(Answers)
    PROVE  s \o [i \in 1 .. n |-> a] \in Seq(Answers)
<1>1. [i \in 1 .. n |-> a] \in Seq(Answers)
  OBVIOUS
<1> QED BY <1>1, ConcatProperties

LEMMA TailType == ASSUME NEW s \in Seq(Answers), s # <<>> PROVE Tail(s) \in Seq(Answers)
BY HeadTailProperties

LEMMA HashType ==
    ASSUME StubTyped, Block.op = "MD5", NEW p \in Named
    PROVE  [i \in 1 .. p.size |-> flash[p.at + i - 1]] \in Seq(Content)
<1>1. p.at \in Nat /\ p.size \in Nat /\ p.at + p.size <= NUnits
  <2>1. CASE Block.sound = "missed"
    BY <2>1, FilesAssumption DEF Named, FilesAssumption
  <2>2. CASE Block.sound # "missed"
    <3> DEFINE f == Block.file
    <3>1. f \in DOMAIN File
      BY BlockType, FrameType
    <3>2. p = [at |-> File[f].at, size |-> Size(f)]
      BY <2>2 DEF Named
    <3>3. /\ File[f].at \in Nat /\ Size(f) \in Nat /\ Size(f) > 0
          /\ File[f].at + Size(f) - 1 \in Unit
      BY <3>1, FileType DEF Place
    <3>4. File[f].at + Size(f) <= NUnits
      BY <3>3, ContentType DEF Unit
    <3> QED BY <3>2, <3>3, <3>4
  <2> QED BY <2>1, <2>2
<1>2. \A i \in 1 .. p.size : p.at + i - 1 \in Unit
  BY <1>1, ContentType DEF Unit
<1> QED BY <1>1, <1>2 DEF StubTyped

LEMMA StubAnswers ==
    ASSUME StubTyped, AnswersTyped, StubWorks \/ StubJumps
    PROVE  AnswersTyped'
<1> USE DEF AnswersTyped
<1>1. Block \in Frames /\ Block.op \in Ops
  BY BlockType, FrameType
<1>2. ASSUME NEW ok \in BOOLEAN, Acknowledge(ok) PROVE AnswersTyped'
  <2>1. Answer(Block.op, ok, "zero", <<>>) \in Answers
    BY <1>1, PlainAnswerType
  <2> QED BY <1>2, <2>1, AppendProperties DEF Acknowledge
<1>3. CASE \E ok \in BOOLEAN : Acknowledge(ok)
  BY <1>2, <1>3
<1>4. CASE StubSyncs
  <2> DEFINE ok == Block.sound = "good"
  <2>1. /\ answers' = answers \o [i \in 1 .. (IF ok THEN SyncAnswers ELSE 1) |->
                                    Answer("SYNC", ok, "zero", <<>>)]
    BY <1>4 DEF StubSyncs
  <2>2. ok \in BOOLEAN
    OBVIOUS
  <2> HIDE DEF ok
  <2>3. Answer("SYNC", ok, "zero", <<>>) \in Answers
    BY <2>2, PlainAnswerType DEF Ops
  <2>4. (IF ok THEN SyncAnswers ELSE 1) \in Nat
    BY FilesType
  <2> QED BY <2>1, <2>3, <2>4, ManyAnswers
<1>5. CASE StubReads
  <2>1. Answer("READ", Block.sound = "good", "register", <<>>) \in Answers
    BY PlainAnswerType DEF Ops
  <2> QED BY <1>5, <2>1, AppendProperties DEF StubReads
<1>6. CASE StubHashes
  <2> DEFINE ok == Block.sound # "caught"
  <2>1. Block.op = "MD5" /\ ok \in BOOLEAN
    BY <1>6 DEF StubHashes, Handles
  <2>2. PICK p \in Named :
           answers' = Append(answers, Answer("MD5", ok, "zero",
                                             [i \in 1 .. p.size |-> flash[p.at + i - 1]]))
    BY <1>6 DEF StubHashes
  <2> DEFINE hash == [i \in 1 .. p.size |-> flash[p.at + i - 1]]
  <2>3. hash \in Seq(Content)
    BY <2>1, HashType
  <2> HIDE DEF hash, ok
  <2>4. Answer("MD5", ok, "zero", hash) \in Answers
    BY <2>1, <2>3, AnswerType DEF Ops
  <2> QED BY <2>2, <2>4, AppendProperties DEF hash
<1>7. CASE UNCHANGED answers
  BY <1>7
<1>8. CASE StubLoads \/ StubBegins \/ StubAcknowledges \/ StubEnds \/ StubRefuses \/ StubJumps
  <2>1. PICK ok \in BOOLEAN : Acknowledge(ok)
    <3>1. CASE StubLoads \/ StubBegins \/ StubJumps
      BY <3>1 DEF StubLoads, StubBegins, StubJumps
    <3>2. CASE StubAcknowledges
      BY <3>2 DEF StubAcknowledges
    <3>3. CASE StubEnds
      BY <3>3 DEF StubEnds
    <3>4. CASE StubRefuses
      BY <3>4 DEF StubRefuses
    <3> QED BY <1>8, <3>1, <3>2, <3>3, <3>4
  <2> QED BY <1>2, <2>1
<1>9. StubTakes \/ StubHasTooMuch => UNCHANGED answers
  BY DEF StubTakes, StubHasTooMuch
<1> QED BY <1>4, <1>5, <1>6, <1>7, <1>8, <1>9 DEF StubWorks

\* What is on the line from the chip are answers, whatever becomes of them.
LEMMA AnswersStayTyped ==
    ASSUME ToolTyped, LineTyped, StubTyped, AnswersTyped, Next
    PROVE  AnswersTyped'
<1> USE DEF AnswersTyped
<1>1. <<>> \in Seq(Answers)
  OBVIOUS
<1>2. CASE answers' \in {<<>>, answers}
  BY <1>1, <1>2
<1>3. CASE answers # <<>> /\ answers' = Tail(answers)
  BY <1>3, TailType
<1>4. CASE ToolReadsSync \/ ToolReadsGreeting \/ ToolReads
  <2>1. answers # <<>>
    BY <1>4 DEF ToolReadsSync, ToolReadsGreeting, ToolReads, Reads
  <2>2. answers' \in {<<>>, Tail(answers)}
    BY <1>4 DEF ToolReadsSync, ToolReadsGreeting, ToolReads, Skips, Ends, Leaves, GoesOn
  <2> QED BY <1>2, <1>3, <2>1, <2>2
<1>5. CASE ToolStarts \/ ToolTriesAgain \/ ToolGivesUp
  BY <1>2, <1>5 DEF ToolStarts, ToolTriesAgain, ToolGivesUp, Connects, GoesOn, Ends
<1>6. CASE StubReceives \/ RomReceives \/ NobodyAnswers
  BY <1>2, <1>6 DEF StubReceives, RomReceives, NobodyAnswers
<1>7. CASE RomAnswers
  <2> DEFINE a == Answer(Head(loader).op, TRUE, "register", <<>>)
  <2>1. Head(loader) \in Frames /\ Head(loader).op \in Ops
    BY <1>7, FrameType DEF RomAnswers, LineTyped
  <2>2. a \in Answers
    BY <2>1, PlainAnswerType
  <2>3. \/ answers' = answers \o [i \in 1 .. SyncAnswers |-> a]
        \/ answers' = Append(answers, a)
    BY <1>7 DEF RomAnswers
  <2> HIDE DEF a
  <2>4. answers \o [i \in 1 .. SyncAnswers |-> a] \in Seq(Answers)
    BY <2>2, FilesType, ManyAnswers
  <2>5. Append(answers, a) \in Seq(Answers)
    BY <2>2, AppendProperties
  <2> QED BY <2>3, <2>4, <2>5
<1>8. CASE StubStarts
  <2>1. Answer("OHAI", TRUE, "zero", <<>>) \in Answers
    BY PlainAnswerType DEF Ops
  <2> QED BY <1>8, <2>1, AppendProperties DEF StubStarts
<1>9. CASE AnswerDamaged
  <2>1. PICK i \in DOMAIN answers :
          \/ answers' = SubSeq(answers, 1, i - 1) \o SubSeq(answers, i + 1, Len(answers))
          \/ answers' = [answers EXCEPT ![i].ok = ~@]
          \/ answers' = [answers EXCEPT ![i].val = "register"]
    BY <1>9 DEF AnswerDamaged
  <2>2. i \in 1 .. Len(answers) /\ Len(answers) \in Nat
    BY LenProperties
  <2>3. SubSeq(answers, 1, i - 1) \o SubSeq(answers, i + 1, Len(answers)) \in Seq(Answers)
    <3>1. SubSeq(answers, 1, i - 1) \in Seq(Answers)
      BY <2>2
    <3>2. SubSeq(answers, i + 1, Len(answers)) \in Seq(Answers)
      BY <2>2
    <3> QED BY <3>1, <3>2, ConcatProperties
  <2>4. [answers EXCEPT ![i].ok = ~@] \in Seq(Answers)
    <3>1. answers[i] \in Answers
      BY <2>2
    <3>2. [answers[i] EXCEPT !.ok = ~@] \in Answers
      BY <3>1 DEF Answers
    <3>3. [answers EXCEPT ![i].ok = ~@] = [answers EXCEPT ![i] = [answers[i] EXCEPT !.ok = ~@]]
      BY <2>2
    <3> QED BY <2>2, <3>2, <3>3, ExceptSeq
  <2>5. [answers EXCEPT ![i].val = "register"] \in Seq(Answers)
    <3>1. answers[i] \in Answers
      BY <2>2
    <3>2. [answers[i] EXCEPT !.val = "register"] \in Answers
      BY <3>1 DEF Answers
    <3>3. [answers EXCEPT ![i].val = "register"]
            = [answers EXCEPT ![i] = [answers[i] EXCEPT !.val = "register"]]
      BY <2>2
    <3> QED BY <2>2, <3>2, <3>3, ExceptSeq
  <2> QED BY <2>1, <2>3, <2>4, <2>5
<1>10. CASE StubRuns
  <2>1. CASE StubWorks
    BY <2>1, StubAnswers
  <2>2. CASE ~StubWorks
    BY <1>2, <1>10, <2>2 DEF StubRuns, StubInflates, StubInflatesGarbage
  <2> QED BY <2>1, <2>2
<1>11. CASE StubRestarts
  BY <1>11, StubAnswers DEF StubRestarts
<1> QED
  BY <1>4, <1>5, <1>6, <1>7, <1>8, <1>9, <1>10, <1>11 DEF Next

-------------------------------------------------------------------------------
(* The stub in order.                                                        *)
LEMMA NoneTypes == None # 1 /\ None # 2 /\ None \notin Frames
BY NoneAssumption DEF NoneAssumption

Ordered(u) == u.command # None => u.command = OtherBuffer(u.reading)

\* A delimiter hands over the buffer that was read into, and takes the other.
LEMMA DelimiterOrders ==
    ASSUME NEW u \in UbType, Ordered(u)
    PROVE  Ordered(Delimiter(u)) /\ (u.command # None => Delimiter(u).command # None)
<1>1. CASE u.slip = "none"
  BY <1>1 DEF Delimiter, UbType, Ordered
<1>2. CASE u.slip # "none"
  <2>1. /\ Delimiter(u).command = u.reading /\ Delimiter(u).reading = OtherBuffer(u.reading)
    BY <1>2 DEF Delimiter, UbType
  <2>2. u.reading \in {1, 2}
    BY DEF UbType
  <2>3. OtherBuffer(OtherBuffer(u.reading)) = u.reading
    BY <2>2 DEF OtherBuffer
  <2> QED BY <2>1, <2>2, <2>3, NoneTypes DEF Ordered
<1> QED BY <1>1, <1>2

LEMMA BytesOrder ==
    ASSUME NEW u \in UbType, NEW frame, Ordered(u)
    PROVE  Ordered(Bytes(u, frame)) /\ Bytes(u, frame).command = u.command
BY DEF Bytes, UbType, Ordered

LEMMA ReceivesOrders ==
    ASSUME StubTyped, ToolTyped, StubReceives, Ordered(ub)
    PROVE  Ordered(ub') /\ (ub.command # None => ub'.command # None)
<1> DEFINE Fine(u) == u \in UbType /\ Ordered(u) /\ (ub.command # None => u.command # None)
<1>1. wire \in Frames /\ Fine(ub)
  BY DEF StubReceives, ToolTyped, StubTyped
<1>2. \A s \in {"caught", "missed", "good"} : [wire EXCEPT !.sound = s] \in Frames
  BY <1>1 DEF Frames
<1>3. ASSUME NEW u, Fine(u) PROVE Fine(Delimiter(u))
  BY <1>3, DelimiterType, DelimiterOrders
<1>4. ASSUME NEW u, Fine(u), NEW frame \in Frames PROVE Fine(Bytes(u, frame))
  BY <1>4, BytesType, BytesOrder
<1> HIDE DEF Fine
<1>5. Fine(Received(ub))
  BY <1>1, <1>3, <1>4 DEF Received
<1>6. ASSUME NEW u \in Damaged(ub) PROVE Fine(u)
  <2>1. CASE u \in {ub, Delimiter(Bytes(ub, wire)), Delimiter(Delimiter(ub)),
                    Bytes(Delimiter(ub), wire),
                    Delimiter(Bytes(Delimiter(Delimiter(ub)), wire))}
    BY <1>1, <1>3, <1>4, <2>1
  <2>2. CASE \E s \in {"caught", "missed"} :
                u = Delimiter(Bytes(Delimiter(ub), [wire EXCEPT !.sound = s]))
    BY <1>1, <1>2, <1>3, <1>4, <2>2
  <2>3. CASE \E s \in {"caught", "missed", "good"} :
                u = Delimiter(Delimiter(Bytes(Delimiter(ub), [wire EXCEPT !.sound = s])))
    BY <1>1, <1>2, <1>3, <1>4, <2>3
  <2> QED BY <1>6, <2>1, <2>2, <2>3 DEF Damaged, Unnoticed
<1> QED BY <1>5, <1>6 DEF StubReceives, Fine

\* The parts of StubInOrder that speak of the stub at work.
LEMMA WorkOrder ==
    ASSUME StubTyped, Ordered(ub), job.stage = "took" => ub.command # None,
           StubWorks \/ StubInflates(TRUE) \/ StubInflates(FALSE) \/ StubInflatesGarbage(FALSE)
    PROVE  Ordered(ub') /\ (job'.stage = "took" => ub'.command # None)
<1>1. ub \in UbType /\ job \in JobType
  BY DEF StubTyped
<1>2. ASSUME NEW op, Handles(op), Finishes \/ StubAcknowledges
      PROVE  Ordered(ub') /\ job'.stage # "took"
  <2>1. ub'.command = None
    BY <1>1, <1>2 DEF Handles, UbType
  <2>2. job'.stage \in {"wait", "write"}
    BY <1>1, <1>2 DEF Finishes, StubAcknowledges, JobType
  <2> QED BY <2>1, <2>2 DEF Ordered
<1>3. CASE StubTakes
  BY <1>1, <1>3 DEF StubTakes, JobType
<1>4. CASE StubSyncs \/ StubReads \/ StubLoads \/ StubBegins \/ StubAcknowledges
             \/ StubHashes \/ StubEnds \/ StubRefuses
  <2>1. PICK op : Handles(op)
    BY <1>4 DEF StubSyncs, StubReads, StubLoads, StubBegins, StubAcknowledges, StubHashes,
                StubEnds, StubRefuses
  <2>2. Finishes \/ StubAcknowledges
    BY <1>4 DEF StubSyncs, StubReads, StubLoads, StubBegins, StubHashes, StubEnds, StubRefuses
  <2> QED BY <1>2, <2>1, <2>2
<1>5. CASE StubHasTooMuch \/ StubInflates(TRUE) \/ StubInflates(FALSE) \/ StubInflatesGarbage(FALSE)
  <2>1. UNCHANGED ub /\ job.stage = "write"
    BY <1>5 DEF StubHasTooMuch, StubInflates, StubInflatesGarbage
  <2>2. job'.stage \in {"wait", job.stage}
    BY <1>1, <1>5 DEF StubHasTooMuch, StubInflates, StubInflatesGarbage, Round, JobType
  <2> QED BY <2>1, <2>2
<1> QED BY <1>3, <1>4, <1>5 DEF StubWorks

LEMMA OrderParts ==
    StubInOrder <=>
       /\ chip \in {"rom", "starting"} => ub = NewUart /\ job = NewJob /\ fs = Idle /\ out = <<>>
       /\ Ordered(ub)
       /\ job.stage = "took" => ub.command # None
BY DEF StubInOrder, Ordered

LEMMA RestartsOrders ==
    Restarts => Ordered(ub') /\ job'.stage # "took" /\ StubInOrder'
<1> SUFFICES ASSUME Restarts PROVE Ordered(ub') /\ job'.stage # "took" /\ StubInOrder'
  OBVIOUS
<1>1. ub' = NewUart /\ job' = NewJob /\ fs' = Idle /\ out' = <<>>
  BY DEF Restarts
<1>2. ub'.command = None /\ job'.stage = "wait"
  BY <1>1 DEF NewUart, NewJob
<1> QED BY <1>1, <1>2 DEF StubInOrder, Ordered

LEMMA OrderInvariant ==
    ASSUME ToolTyped, LineTyped, StubTyped, StubInOrder, Next
    PROVE  StubInOrder'
<1>1. Ordered(ub) /\ (job.stage = "took" => ub.command # None)
  BY OrderParts
<1>2. ASSUME Ordered(ub'), job'.stage = "took" => ub'.command # None,
             chip' \notin {"rom", "starting"}
      PROVE  StubInOrder'
  BY <1>2 DEF StubInOrder, Ordered
<1>3. CASE UNCHANGED stub /\ (chip' \in {"rom", "starting"} => chip \in {"rom", "starting"})
  BY <1>3 DEF StubInOrder, stub
<1>4. CASE Restarts
  BY <1>4, RestartsOrders
<1>5. CASE ToolReadsSync \/ ToolReadsGreeting \/ ToolReads \/ ToolGivesUp \/ RomReceives
             \/ RomAnswers \/ StubStarts \/ NobodyAnswers \/ AnswerDamaged
  BY <1>3, <1>5 DEF ToolReadsSync, ToolReadsGreeting, ToolReads, ToolGivesUp, RomReceives,
                    RomAnswers, StubStarts, NobodyAnswers, AnswerDamaged, device, Leaves
<1>6. CASE ToolStarts \/ ToolTriesAgain
  <2>1. Restarts \/ UNCHANGED <<device, stub>>
    BY <1>6 DEF ToolStarts, ToolTriesAgain, Reset
  <2> QED BY <1>3, <1>4, <2>1 DEF device
<1>7. CASE StubReceives
  BY <1>1, <1>2, <1>7, ReceivesOrders DEF StubReceives, device
<1>8. CASE StubRuns
  <2>1. Ordered(ub') /\ (job'.stage = "took" => ub'.command # None)
    BY <1>1, <1>8, WorkOrder DEF StubRuns
  <2> QED BY <1>2, <1>8, <2>1 DEF StubRuns, device
<1>9. CASE StubRestarts
  <2>1. CASE Restarts
    BY <1>4, <2>1
  <2>2. CASE ~Restarts
    <3>1. Finishes /\ ub' = [ub EXCEPT !.command = None] /\ chip' = "stub"
      BY <1>9, <2>2 DEF StubRestarts, StubJumps
    <3>2. ub'.command = None /\ job'.stage = "wait"
      BY <3>1 DEF StubTyped, UbType, JobType, Finishes
    <3> QED BY <1>2, <3>1, <3>2 DEF Ordered
  <2> QED BY <2>1, <2>2
<1> QED BY <1>5, <1>6, <1>7, <1>8, <1>9 DEF Next

-------------------------------------------------------------------------------
(* In step.                                                                  *)
LEMMA DelimiterFields ==
    ASSUME NEW u \in UbType
    PROVE  /\ u.slip = "none" => Delimiter(u) = [u EXCEPT !.slip = "open"]
           /\ u.slip # "none" =>
                 Delimiter(u) = [u EXCEPT !.slip = "none", !.command = u.reading,
                                          !.reading = OtherBuffer(u.reading)]
BY DEF Delimiter

\* A whole frame that comes between two frames is the new command.
LEMMA WholeFrame ==
    ASSUME NEW u \in UbType, u.slip = "none", wire \in Frames
    PROVE  /\ Received(u).slip = "none" /\ Received(u).command = u.reading
           /\ Received(u).reading = OtherBuffer(u.reading)
           /\ Received(u).buf = [u.buf EXCEPT ![u.reading] = wire]
<1> DEFINE v == Delimiter(u)
           w == Bytes(v, wire)
<1>1. v = [u EXCEPT !.slip = "open"] /\ v \in UbType
  BY DelimiterType DEF Delimiter
<1>2. w = [v EXCEPT !.slip = "body", !.buf[v.reading] = wire]
  BY <1>1 DEF Bytes, UbType
<1>3. w.slip = "body" /\ w.reading = u.reading /\ w.buf = [u.buf EXCEPT ![u.reading] = wire]
  BY <1>1, <1>2 DEF UbType
<1>4. w \in UbType
  BY <1>1, BytesType
<1> HIDE DEF v, w
<1>5. Received(u) = Delimiter(w)
  BY DEF Received, v, w
<1>6. Received(u) = [w EXCEPT !.slip = "none", !.command = w.reading,
                              !.reading = OtherBuffer(w.reading)]
  BY <1>3, <1>5 DEF Delimiter
<1> QED BY <1>3, <1>4, <1>6 DEF UbType

LEMMA NewUartFields ==
    /\ NewUart.slip = "none" /\ NewUart.command = None /\ NewJob.stage = "wait"
BY DEF NewUart, NewJob

\* While nothing goes wrong there is always something that comes.
LEMMA NeverQuiet ==
    ASSUME ToolTyped, AnswersTyped, InStep, clean, verdict = "running"
    PROVE  ~Quiet
<1> SUFFICES ASSUME Quiet PROVE FALSE
  OBVIOUS
<1>1. answers = <<>> /\ wire = None /\ request # None /\ Len(answers) = 0
  BY NoneTypes DEF Quiet, ToolTyped
<1>2. CASE LoaderInStep
  <2>1. loader # <<request>> \/ chip # "rom"
    BY DEF Quiet
  <2>2. Len(answers) = IF request.op = "SYNC" THEN SyncAnswers - got ELSE 1
    BY <1>1, <1>2, <2>1 DEF LoaderInStep
  <2>3. got \in 0 .. SyncAnswers - 1
    BY DEF ToolTyped
  <2> QED BY <1>1, <2>2, <2>3, FilesType
<1>3. CASE StubGreets
  <2>1. ~AnswersTo(answers, <<"MEM_END", "OHAI">>) /\ ~AnswersTo(answers, <<"OHAI">>)
    BY <1>1 DEF AnswersTo
  <2> QED BY <1>3, <2>1 DEF StubGreets, Quiet
<1>4. CASE StubInStep
  <2>1. chip = "stub" /\ ub.command = None
    BY <1>4 DEF StubInStep, Quiet
  <2>2. AnswersTo(answers, <<request.op>>)
    BY <1>1, <1>4, <2>1 DEF StubInStep
  <2> QED BY <1>1, <2>2 DEF AnswersTo
<1> QED BY <1>2, <1>3, <1>4 DEF InStep

\* The stub's step that takes the next command, executes it or goes on writing.
LEMMA WorkInStep ==
    ASSUME ToolTyped, StubTyped, AnswersTyped, StubInOrder, StubInStep,
           UNCHANGED <<tool, wire, chip, loader>>,
           StubWorks \/ StubInflates(FALSE) \/ StubInflatesGarbage(FALSE)
    PROVE  StubInStep'
<1>1. ub \in UbType /\ job \in JobType
  BY DEF StubTyped
<1>2. /\ request.op \in {"BEGIN", "DATA", "READ", "MD5", "LEAVE", "END"}
      /\ request.op = "READ" => request.file # 0
      /\ chip = "stub" /\ loader = <<>> /\ ub.slip = "none"
  BY DEF StubInStep
<1>3. UNCHANGED request
  BY DEF tool
<1>4. CASE StubTakes
  <2>1. job' = [job EXCEPT !.stage = "took", !.buf = ub.command] /\ UNCHANGED <<ub, answers>>
        /\ ub.command # None
    BY <1>4 DEF StubTakes
  <2>2. job'.stage = "took" /\ job'.buf = ub.command
    BY <1>1, <2>1 DEF JobType
  <2> QED BY <1>3, <2>1, <2>2 DEF StubInStep
<1>5. ASSUME NEW op, Handles(op), NEW ok, NEW val, NEW hash,
             answers' = Append(answers, Answer(op, ok, val, hash)),
             AnswersTyped',
             job'.stage \in {"wait", "write"}, job'.buf = job.buf
      PROVE  StubInStep'
  <2>1. job.stage = "took" /\ job.buf = ub.command /\ ub.command # None
    BY <1>5 DEF Handles, StubInStep, StubInOrder
  <2>2. wire = None /\ Block = request /\ answers = <<>> /\ ub.command = OtherBuffer(ub.reading)
    BY <2>1, AnswersShort DEF StubInStep, Block, StubInOrder, AnswersTyped
  <2>3. request.op = op
    BY <1>5, <2>2 DEF Handles
  <2>4. ub'.command = None /\ ub'.slip = "none" /\ ub'.reading = ub.reading
    BY <1>1, <1>2, <1>5 DEF Handles, UbType
  <2>5. AnswersTo(answers', <<op>>)
    <3>1. answers' = <<Answer(op, ok, val, hash)>>
      BY <1>5, <2>2
    <3>2. Len(answers') = 1 /\ answers'[1] = Answer(op, ok, val, hash)
      BY <3>1
    <3>3. Len(answers') = 1 /\ answers'[1].op = op
      BY <3>2 DEF Answer
    <3> QED BY <1>5, <3>3, AnswersShort DEF AnswersTyped
  <2> QED BY <1>2, <1>3, <1>5, <2>1, <2>2, <2>3, <2>4, <2>5 DEF StubInStep
<1>6. CASE StubWorks /\ ~StubTakes /\ ~StubHasTooMuch
  <2>1. PICK op : Handles(op)
    BY <1>6 DEF StubWorks, StubSyncs, StubReads, StubLoads, StubBegins, StubAcknowledges,
                StubHashes, StubEnds, StubRefuses
  <2>2. Block = request /\ Block.op = op
    BY <2>1 DEF Handles, StubInStep, StubInOrder, Block
  <2>3. ~StubSyncs /\ ~StubLoads /\ ~StubRefuses
    BY <1>2, <2>2 DEF StubSyncs, StubLoads, StubRefuses, Handles
  <2>4. AnswersTyped'
    BY <1>6, StubAnswers
  <2>5. Finishes => job'.stage = "wait" /\ job'.buf = job.buf
    BY <1>1 DEF Finishes, JobType
  <2>6. CASE StubReads
    <3>1. /\ Handles("READ") /\ Finishes
          /\ answers' = Append(answers, Answer("READ", Block.sound = "good", "register", <<>>))
      BY <2>6 DEF StubReads
    <3> QED BY <1>5, <2>4, <2>5, <3>1
  <2>7. CASE StubHashes
    <3>1. PICK hash : /\ Handles("MD5") /\ Finishes
                      /\ answers' = Append(answers, Answer("MD5", Block.sound # "caught", "zero", hash))
      BY <2>7 DEF StubHashes
    <3> QED BY <1>5, <2>4, <2>5, <3>1
  <2>8. CASE StubBegins \/ StubEnds
    <3>1. PICK ok : Acknowledge(ok) /\ Finishes
      BY <2>8, Zenon DEF StubBegins, StubEnds
    <3>2. answers' = Append(answers, Answer(op, ok, "zero", <<>>))
      BY <2>2, <3>1 DEF Acknowledge
    <3> QED BY <1>5, <2>1, <2>4, <2>5, <3>1, <3>2
  <2>9. CASE StubAcknowledges
    <3>1. PICK ok : /\ Acknowledge(ok)
                    /\ job' = [job EXCEPT !.stage = IF ok THEN "write" ELSE "wait",
                                          !.next = First(Block.file, Block.seq)]
      BY <2>9, Zenon DEF StubAcknowledges
    <3>2. answers' = Append(answers, Answer(op, ok, "zero", <<>>))
      BY <2>2, <3>1 DEF Acknowledge
    <3>3. job'.stage \in {"wait", "write"} /\ job'.buf = job.buf
      BY <1>1, <3>1 DEF JobType
    <3> QED BY <1>5, <2>1, <2>4, <3>2, <3>3
  <2> QED BY <1>6, <2>3, <2>6, <2>7, <2>8, <2>9 DEF StubWorks
<1>7. CASE StubHasTooMuch \/ StubInflates(FALSE) \/ StubInflatesGarbage(FALSE)
  <2>1. UNCHANGED <<ub, answers>> /\ job.stage = "write"
    BY <1>7 DEF StubHasTooMuch, StubInflates, StubInflatesGarbage
  <2>2. \E next : job' = [job EXCEPT !.stage = "wait"] \/ job' = [job EXCEPT !.next = next]
    <3>1. CASE StubHasTooMuch
      BY <3>1 DEF StubHasTooMuch
    <3>2. CASE ~StubHasTooMuch
      BY <1>7, <3>2 DEF StubInflates, StubInflatesGarbage, Round
    <3> QED BY <3>1, <3>2
  <2>3. job'.stage \in {"wait", "write"} /\ job'.buf = job.buf
    BY <1>1, <2>1, <2>2 DEF JobType
  <2> QED BY <1>3, <2>1, <2>3 DEF StubInStep
<1> QED BY <1>4, <1>6, <1>7

LEMMA AfterInStep ==
    ASSUME NEW r \in Frames, r.op \in {"BEGIN", "DATA", "READ", "MD5", "LEAVE"},
           r.op = "READ" => r.file # 0
    PROVE  /\ After(r).op \in {"BEGIN", "DATA", "READ", "MD5", "LEAVE", "END"}
           /\ After(r).op = "READ" => After(r).file # 0
<1>1. r.op = "DATA" => r.file # 0
  BY FrameType, FilesType
<1> QED BY <1>1 DEF After, Frame

\* The first command after the greeting, and the loader's one after another.
LEMMA AfterLoader ==
    /\ \A r : r.op = "SYNC" => After(r) = Frame("READ", 0, 0)
    /\ \A r : r.op = "READ" /\ r.file = 0 /\ ~detected => After(r) = Frame("MEM", 0, 0)
    /\ \A r : r.op = "MEM" => After(r) = Frame("MEM_END", 0, 0)
    /\ \A r : r.op = "MEM_END" => After(r) = Frame("OHAI", 0, 0)
    /\ \A r : r.op = "OHAI" => After(r) = Frame("BEGIN", 1, 0)
BY DEF After

LEMMA FrameFields ==
    \A op, file, seq : /\ Frame(op, file, seq).op = op
                       /\ Frame(op, file, seq).file = file
BY DEF Frame

LoaderRequests == {Frame(op, 0, 0) : op \in {"SYNC", "READ", "MEM", "MEM_END"}}

\* A command that is sent to the loader.
LEMMA LoaderGetsSent ==
    ASSUME request' \in LoaderRequests, wire' = request', chip' = "rom", loader' = <<>>,
           answers' = <<>>, got' = 0, request'.op = "READ" => ~detected'
    PROVE  LoaderInStep'
BY DEF LoaderInStep, LoaderRequests

LEMMA ConnectInStep ==
    ASSUME ToolTyped, AnswersTyped, InStep, ToolStarts \/ ToolTriesAgain
    PROVE  InStep'
<1> SUFFICES ASSUME clean' PROVE InStep'
  BY DEF InStep
<1>1. PICK n : Connects(n)
  BY DEF ToolStarts, ToolTriesAgain
<1>2. verdict' = "running" /\ request' = Frame("SYNC", 0, 0) /\ wire' = request' /\ answers' = <<>>
      /\ got' = 0
  BY <1>1 DEF Connects
<1>3. chip' = "rom" /\ loader' = <<>>
  <2>1. CASE Reset
    BY <2>1 DEF Reset
  <2>2. CASE ~Reset
    <3>1. ToolTriesAgain /\ clean /\ Quiet /\ verdict = "running"
      BY <2>2 DEF ToolStarts, ToolTriesAgain, TimesOut
    <3> QED BY <3>1, NeverQuiet
  <2> QED BY <2>1, <2>2
<1>4. LoaderInStep'
  BY <1>2, <1>3, LoaderGetsSent, FrameFields DEF LoaderRequests
<1> QED BY <1>2, <1>4 DEF InStep

LEMMA ReadsSyncInStep ==
    ASSUME ToolTyped, AnswersTyped, InStep, clean, ToolReadsSync
    PROVE  LoaderInStep' /\ verdict' = "running"
<1>1. /\ verdict = "running" /\ answers # <<>> /\ request.op = "SYNC" /\ UNCHANGED <<device>>
      /\ UNCHANGED <<chip, loader>>
  BY DEF ToolReadsSync, Reads, device
<1>2. LoaderInStep
  BY <1>1 DEF InStep, StubGreets, StubInStep
<1>3. /\ chip = "rom" /\ wire = None /\ loader = <<>>
      /\ Len(answers) = SyncAnswers - got
      /\ \A i \in DOMAIN answers : answers[i].op = "SYNC" /\ answers[i].val = "register"
  BY <1>1, <1>2 DEF LoaderInStep
<1>4. Len(answers) \in Nat /\ Len(answers) > 0 /\ DOMAIN answers = 1 .. Len(answers)
  BY <1>1, EmptySeq, LenProperties DEF AnswersTyped
<1>5. Head(answers) = answers[1] /\ answers[1].op = "SYNC" /\ answers[1].val = "register"
  BY <1>1, <1>3, <1>4 DEF AnswersTyped
<1>6. /\ answers' = Tail(answers)
      /\ detected' = ((got > 0 => detected) /\ answers[1].val = "zero")
      /\ IF AllAnswered(got + 1)
         THEN request' = After(request) /\ wire = None /\ wire' = request' /\ got' = 0
         ELSE got' = got + 1 /\ UNCHANGED <<request, wire>>
      /\ UNCHANGED <<verdict, try>>
  BY <1>1, <1>5 DEF ToolReadsSync, Mine
<1>7. detected' = FALSE
  BY <1>5, <1>6
<1>8. got \in Nat /\ SyncAnswers \in Nat /\ got < SyncAnswers
  BY FilesType DEF ToolTyped
<1>9. /\ Tail(answers) \in Seq(Answers) /\ Len(Tail(answers)) = Len(answers) - 1
      /\ \A i \in 1 .. Len(Tail(answers)) : Tail(answers)[i] = answers[i + 1]
  BY <1>1, HeadTailProperties DEF AnswersTyped
<1>10. CASE AllAnswered(got + 1)
  <2>1. Len(Tail(answers)) = 0
    BY <1>3, <1>8, <1>9, <1>10 DEF AllAnswered
  <2>2. answers' = <<>>
    BY <1>6, <1>9, <2>1, EmptySeq
  <2>3. request' = Frame("READ", 0, 0)
    BY <1>1, <1>6, <1>10, AfterLoader
  <2>4. request' \in LoaderRequests
    BY <2>3 DEF LoaderRequests
  <2>5. chip' = "rom" /\ loader' = <<>>
    BY <1>1, <1>3
  <2> QED BY <1>1, <1>6, <1>7, <1>10, <2>2, <2>4, <2>5, LoaderGetsSent
<1>11. CASE ~AllAnswered(got + 1)
  <2>1. got' = got + 1 /\ UNCHANGED <<request, wire>>
    BY <1>6, <1>11
  <2>2. Len(answers') = SyncAnswers - got'
    BY <1>3, <1>6, <1>8, <1>9, <2>1
  <2>3. \A i \in DOMAIN answers' : answers'[i].op = "SYNC" /\ answers'[i].val = "register"
    <3> SUFFICES ASSUME NEW i \in 1 .. Len(Tail(answers))
                 PROVE  Tail(answers)[i].op = "SYNC" /\ Tail(answers)[i].val = "register"
      BY <1>6, <1>9, LenProperties
    <3>1. i + 1 \in 1 .. Len(answers)
      BY <1>4, <1>9
    <3> QED BY <1>3, <1>4, <1>9, <3>1
  <2> QED BY <1>1, <1>2, <1>3, <1>6, <1>7, <2>1, <2>2, <2>3 DEF LoaderInStep
<1> QED BY <1>10, <1>11

LEMMA GreetingInStep ==
    ASSUME ToolTyped, AnswersTyped, InStep, clean, ToolReadsGreeting
    PROVE  StubInStep' /\ verdict' = "running"
<1>1. /\ verdict = "running" /\ answers # <<>> /\ request.op = "OHAI"
      /\ UNCHANGED <<chip, loader, ub, job>>
  BY DEF ToolReadsGreeting, Reads, device, stub
<1>2. StubGreets
  BY <1>1, FrameFields DEF InStep, LoaderInStep, StubInStep
<1>3. ~AnswersTo(answers, <<>>)
  BY <1>1, AnswersShort DEF AnswersTyped
<1>4. chip = "stub" /\ AnswersTo(answers, <<"OHAI">>) /\ wire = None /\ loader = <<>>
      /\ ub = NewUart /\ job = NewJob
  BY <1>1, <1>2, <1>3 DEF StubGreets
<1>5. Head(answers).op = "OHAI" /\ Tail(answers) = <<>>
  BY <1>4, AnswersMove DEF AnswersTyped
<1>6. GoesOn(<<>>)
  BY <1>1, <1>5 DEF ToolReadsGreeting, Mine
<1>7. request' = Frame("BEGIN", 1, 0) /\ answers' = <<>> /\ UNCHANGED verdict
  BY <1>1, <1>6, AfterLoader DEF GoesOn
<1>8. wire' = request'
  BY <1>6, <1>7, FrameFields DEF GoesOn
<1>9. AnswersTo(answers', <<>>)
  BY <1>7 DEF AnswersTo
<1> QED BY <1>1, <1>4, <1>7, <1>8, <1>9, FrameFields, NewUartFields DEF StubInStep

LEMMA ReadsInStep ==
    ASSUME ToolTyped, AnswersTyped, InStep, clean, ToolReads
    PROVE  InStep'
<1>1. /\ verdict = "running" /\ answers # <<>> /\ request.op \notin {"SYNC", "OHAI"}
      /\ request \in Frames /\ Len(answers) # 0
      /\ UNCHANGED <<ub, job>>
  BY EmptySeq DEF ToolReads, Reads, ToolTyped, stub, AnswersTyped
<1>2. wire = None /\ Mine(Head(answers)) /\ Head(answers).op = request.op
  <2>1. CASE LoaderInStep
    <3>1. wire = None /\ request.op # "MEM_END" /\ Len(answers) = 1
          /\ answers[1].op = request.op
      BY <1>1, <2>1, LenProperties DEF LoaderInStep, AnswersTyped
    <3> QED BY <3>1 DEF Mine, AnswersTyped
  <2>2. CASE StubGreets
    <3>1. wire = None /\ request.op = "MEM_END" /\ Len(answers) \in {1, 2} /\ answers[1].op = "MEM_END"
      BY <1>1, <2>2, AnswersShort DEF StubGreets, AnswersTyped
    <3> QED BY <3>1 DEF Mine, AnswersTyped
  <2>3. CASE StubInStep
    <3>1. wire = None /\ Len(answers) = 1 /\ answers[1].op = request.op
      BY <1>1, <2>3, AnswersShort DEF StubInStep, AnswersTyped
    <3> QED BY <3>1 DEF Mine, AnswersTyped
  <2> QED BY <1>1, <2>1, <2>2, <2>3 DEF InStep
<1>3. CASE Ends("failed") \/ Leaves
  <2>1. verdict' # "running" /\ wire' = None
    BY <1>2, <1>3 DEF Ends, Leaves
  <2> QED BY <2>1 DEF InStep
<1>4. CASE GoesOn(Tail(answers)) /\ UNCHANGED device /\ request.op # "END"
  <2>1. /\ UNCHANGED <<chip, loader, verdict, detected>> /\ got' = 0
        /\ request' = After(request)
        /\ answers' \in {Tail(answers), <<>>}
        /\ IF request'.op = "OHAI" THEN UNCHANGED wire ELSE wire' = request'
    BY <1>4 DEF GoesOn, device
  <2>2. CASE LoaderInStep
    <3>1. /\ chip = "rom" /\ loader = <<>> /\ Len(answers) = 1
          /\ request \in {Frame("READ", 0, 0), Frame("MEM", 0, 0)}
          /\ request.op = "READ" => ~detected
      BY <1>1, <2>2, FrameFields DEF LoaderInStep
    <3>2. request' \in {Frame("MEM", 0, 0), Frame("MEM_END", 0, 0)}
      BY <2>1, <3>1, FrameFields, AfterLoader
    <3>3. answers' = <<>>
      <4>1. Tail(answers) \in Seq(Answers) /\ Len(Tail(answers)) = 0
        BY <1>1, <3>1, HeadTailProperties DEF AnswersTyped
      <4> QED BY <2>1, <4>1, EmptySeq
    <3>4. request' \in LoaderRequests /\ request'.op \notin {"READ", "OHAI"}
      BY <3>2, FrameFields DEF LoaderRequests
    <3>5. LoaderInStep'
      BY <2>1, <3>1, <3>3, <3>4, LoaderGetsSent
    <3> QED BY <1>1, <2>1, <3>5 DEF InStep
  <2>3. CASE StubGreets
    <3>1. /\ wire = None /\ loader = <<>> /\ ub = NewUart /\ job = NewJob /\ request.op = "MEM_END"
          /\ \/ chip = "starting" /\ AnswersTo(answers, <<"MEM_END">>)
             \/ chip = "stub" /\ AnswersTo(answers, <<"MEM_END", "OHAI">>)
      BY <1>1, <2>3 DEF StubGreets
    <3>2. request' = Frame("OHAI", 0, 0) /\ request'.op = "OHAI"
      BY <2>1, <3>1, AfterLoader, FrameFields
    <3>3. request' # Frame("BEGIN", 1, 0)
      BY <3>2, FrameFields
    <3>4. answers' = Tail(answers) /\ UNCHANGED wire
      BY <1>4, <2>1, <3>2, <3>3 DEF GoesOn
    <3>5. CASE chip = "starting" /\ AnswersTo(answers, <<"MEM_END">>)
      <4>1. AnswersTo(answers', <<>>)
        BY <3>4, <3>5, AnswersMove DEF AnswersTyped, AnswersTo
      <4>2. StubGreets'
        BY <1>1, <2>1, <3>1, <3>2, <3>4, <3>5, <4>1 DEF StubGreets
      <4> QED BY <1>1, <2>1, <4>2 DEF InStep
    <3>6. CASE chip = "stub" /\ AnswersTo(answers, <<"MEM_END", "OHAI">>)
      <4>1. AnswersTo(answers', <<"OHAI">>)
        BY <3>4, <3>6, AnswersMove DEF AnswersTyped
      <4>2. StubGreets'
        BY <1>1, <2>1, <3>1, <3>2, <3>4, <3>6, <4>1 DEF StubGreets
      <4> QED BY <1>1, <2>1, <4>2 DEF InStep
    <3> QED BY <3>1, <3>5, <3>6
  <2>4. CASE StubInStep
    <3>1. /\ request.op \in {"BEGIN", "DATA", "READ", "MD5", "LEAVE"}
          /\ request.op = "READ" => request.file # 0
      BY <1>4, <2>4 DEF StubInStep
    <3>2. /\ request'.op \in {"BEGIN", "DATA", "READ", "MD5", "LEAVE", "END"}
          /\ request'.op = "READ" => request'.file # 0
      BY <1>1, <2>1, <3>1, AfterInStep
    <3>3. AnswersTo(answers, <<request.op>>) /\ ub.command = None
      BY <1>1, <1>2, <2>4, AnswersShort DEF StubInStep, AnswersTyped
    <3>4. AnswersTo(answers', <<>>)
      <4>1. answers' = <<>>
        BY <2>1, <3>3, AnswersMove DEF AnswersTyped
      <4> QED BY <4>1 DEF AnswersTo
    <3>5. StubInStep'
      BY <1>1, <2>1, <2>4, <3>2, <3>3, <3>4 DEF StubInStep
    <3> QED BY <1>1, <2>1, <3>5 DEF InStep
  <2> QED BY <1>1, <2>2, <2>3, <2>4 DEF InStep
<1> QED BY <1>2, <1>3, <1>4 DEF ToolReads

LEMMA StubReceivesInStep ==
    ASSUME ToolTyped, StubTyped, StubInOrder, AnswersTyped, InStep, clean, clean', StubReceives
    PROVE  InStep' /\ verdict = "running" /\ StubInStep /\ ub' = Received(ub)
<1>1. /\ chip = "stub" /\ wire # None /\ wire' = None /\ ub' = Received(ub)
      /\ UNCHANGED <<verdict, request, chip, loader, job, answers>>
  BY DEF StubReceives, Fault, tool, device
<1>2. verdict = "running"
  BY <1>1 DEF InStep
<1>3. StubInStep
  BY <1>1, <1>2 DEF InStep, LoaderInStep, StubGreets
<1>4. wire = request /\ wire \in Frames /\ ub.command = None /\ AnswersTo(answers, <<>>)
  BY <1>1, <1>3 DEF StubInStep, ToolTyped
<1>5. ub \in UbType /\ ub.slip = "none" /\ ub.reading \in {1, 2}
  BY <1>3 DEF StubInStep, StubTyped, UbType
<1>6. /\ ub'.slip = "none" /\ ub'.command = ub.reading /\ ub'.command # None
      /\ ub'.reading = OtherBuffer(ub.reading)
      /\ ub'.buf = [ub.buf EXCEPT ![ub.reading] = wire]
  BY <1>1, <1>4, <1>5, WholeFrame, NoneTypes
<1>7. ub'.buf[ub'.command] = request'
  BY <1>1, <1>4, <1>5, <1>6 DEF UbType
<1>8. job'.stage # "took"
  BY <1>1, <1>4 DEF StubInOrder
<1>9. StubInStep'
  BY <1>1, <1>3, <1>4, <1>6, <1>7, <1>8 DEF StubInStep
<1> QED BY <1>1, <1>2, <1>3, <1>9 DEF InStep

LEMMA RomReceivesInStep ==
    ASSUME ToolTyped, InStep, clean, RomReceives
    PROVE  InStep'
<1>1. /\ chip = "rom" /\ wire # None /\ wire' = None /\ loader' = Append(loader, wire)
      /\ UNCHANGED <<verdict, request, got, detected, chip, answers>>
  BY DEF RomReceives, tool
<1>2. verdict = "running"
  BY <1>1 DEF InStep
<1>3. LoaderInStep
  BY <1>1, <1>2 DEF InStep, StubInStep, StubGreets
<1>4. wire = request /\ loader = <<>> /\ answers = <<>> /\ got = 0
  BY <1>1, <1>3 DEF LoaderInStep
<1>5. loader' = <<request>>
  BY <1>1, <1>4
<1>6. LoaderInStep'
  BY <1>1, <1>3, <1>4, <1>5 DEF LoaderInStep
<1> QED BY <1>1, <1>2, <1>6 DEF InStep

LEMMA RomAnswersInStep ==
    ASSUME ToolTyped, LineTyped, AnswersTyped, StubInOrder, InStep, clean, RomAnswers
    PROVE  InStep'
<1>1. /\ chip = "rom" /\ loader # <<>> /\ loader' = Tail(loader)
      /\ UNCHANGED <<verdict, request, got, detected, wire, ub, job>>
  BY DEF RomAnswers, tool, stub
<1>2. CASE verdict # "running"
  BY <1>1, <1>2 DEF InStep
<1>3. CASE verdict = "running"
  <2>1. LoaderInStep
    BY <1>1, <1>3 DEF InStep, StubInStep, StubGreets
  <2>2. wire = None /\ loader = <<request>> /\ answers = <<>> /\ got = 0
    BY <1>1, <2>1 DEF LoaderInStep
  <2>3. Head(loader) = request /\ loader' = <<>>
    BY <1>1, <2>2
  <2> DEFINE a == Answer(request.op, TRUE, "register", <<>>)
  <2>4. a \in Answers /\ a.op = request.op /\ a.val = "register"
    <3>1. a \in Answers
      BY FrameType, PlainAnswerType DEF ToolTyped
    <3> QED BY <3>1 DEF Answer
  <2>5. /\ \/ request.op = "SYNC" /\ answers' = answers \o [i \in 1 .. SyncAnswers |-> a]
           \/ request.op # "SYNC" /\ answers' = Append(answers, a)
        /\ chip' = IF request.op = "MEM_END" THEN "starting" ELSE "rom"
    BY <2>3 DEF RomAnswers
  <2> HIDE DEF a
  <2>6. CASE request.op = "SYNC"
    <3> DEFINE s == [i \in 1 .. SyncAnswers |-> a]
    <3>1. s \in Seq(Answers)
      BY <2>4, FilesType
    <3>2. answers' = s
      <4>1. answers' = <<>> \o s
        BY <2>2, <2>5, <2>6
      <4> HIDE DEF s
      <4> QED BY <3>1, <4>1, ConcatEmptySeq
    <3>3. Len(s) = SyncAnswers /\ \A i \in DOMAIN s : s[i] = a
      BY FilesType
    <3>4. Len(answers') = SyncAnswers - got'
      BY <1>1, <2>2, <3>2, <3>3, FilesType
    <3> HIDE DEF s
    <3>5. LoaderInStep'
      BY <1>1, <2>1, <2>2, <2>3, <2>4, <2>5, <2>6, <3>2, <3>3, <3>4 DEF LoaderInStep
    <3> QED BY <1>1, <1>3, <3>5 DEF InStep
  <2>7. CASE request.op # "SYNC"
    <3>1. answers' = Append(<<>>, a)
      BY <2>2, <2>5, <2>7
    <3>2. answers' \in Seq(Answers) /\ AnswersTo(answers', <<request.op>>)
      BY <2>4, <3>1, AnswersMove
    <3>3. CASE request.op = "MEM_END"
      <4>1. ub = NewUart /\ job = NewJob
        BY <1>1 DEF StubInOrder
      <4>2. StubGreets'
        BY <1>1, <2>2, <2>3, <2>5, <3>2, <3>3, <4>1 DEF StubGreets
      <4> QED BY <1>1, <1>3, <4>2 DEF InStep
    <3>4. CASE request.op # "MEM_END"
      <4>1. Len(answers') = 1 /\ answers'[1] = a /\ DOMAIN answers' = {1}
        BY <2>4, <3>1
      <4>2. LoaderInStep'
        BY <1>1, <2>1, <2>2, <2>3, <2>4, <2>5, <2>7, <3>4, <4>1 DEF LoaderInStep
      <4> QED BY <1>1, <1>3, <4>2 DEF InStep
    <3> QED BY <3>3, <3>4
  <2> QED BY <2>6, <2>7
<1> QED BY <1>2, <1>3

LEMMA StubStartsInStep ==
    ASSUME AnswersTyped, InStep, clean, StubStarts
    PROVE  InStep'
<1>1. /\ chip = "starting" /\ chip' = "stub"
      /\ answers' = Append(answers, Answer("OHAI", TRUE, "zero", <<>>))
      /\ UNCHANGED <<verdict, request, wire, loader, ub, job>>
  BY DEF StubStarts, tool, stub
<1>2. CASE verdict # "running"
  BY <1>1, <1>2 DEF InStep
<1>3. CASE verdict = "running"
  <2>1. StubGreets
    BY <1>1, <1>3 DEF InStep, StubInStep, LoaderInStep
  <2> DEFINE a == Answer("OHAI", TRUE, "zero", <<>>)
  <2>2. a \in Answers /\ a.op = "OHAI"
    <3>1. a \in Answers
      BY PlainAnswerType DEF Ops
    <3> QED BY <3>1 DEF Answer
  <2>3. answers' = Append(answers, a)
    BY <1>1
  <2> HIDE DEF a
  <2>4. CASE request.op = "MEM_END" /\ AnswersTo(answers, <<"MEM_END">>)
    <3>1. AnswersTo(answers', <<"MEM_END", "OHAI">>)
      BY <2>2, <2>3, <2>4, AnswersMove DEF AnswersTyped
    <3>2. StubGreets'
      BY <1>1, <2>1, <2>4, <3>1 DEF StubGreets
    <3> QED BY <1>1, <1>3, <3>2 DEF InStep
  <2>5. CASE request.op = "OHAI" /\ AnswersTo(answers, <<>>)
    <3>1. answers' = Append(<<>>, a)
      BY <2>3, <2>5, AnswersShort DEF AnswersTyped
    <3>2. AnswersTo(answers', <<"OHAI">>)
      BY <2>2, <3>1, AnswersMove
    <3>3. StubGreets'
      BY <1>1, <2>1, <2>5, <3>2 DEF StubGreets
    <3> QED BY <1>1, <1>3, <3>3 DEF InStep
  <2> QED BY <1>1, <2>1, <2>4, <2>5 DEF StubGreets
<1> QED BY <1>2, <1>3

\* A stub that waits and has no command does nothing.
LEMMA IdleStub ==
    ASSUME job.stage = "wait", ub.command = None
    PROVE  ~StubRuns /\ ~StubRestarts
BY DEF StubRuns, StubRestarts, StubJumps, StubWorks, StubTakes, StubSyncs, StubReads, StubLoads,
       StubBegins, StubAcknowledges, StubHashes, StubEnds, StubRefuses, StubHasTooMuch, Handles,
       StubInflates, StubInflatesGarbage

LEMMA StubRunsInStep ==
    ASSUME ToolTyped, StubTyped, StubInOrder, AnswersTyped, InStep, clean, clean',
           StubRuns \/ StubRestarts
    PROVE  InStep' /\ (verdict = "running" => StubRuns)
<1>1. chip = "stub" /\ UNCHANGED <<tool, wire>>
  BY DEF StubRuns, StubRestarts
<1>2. CASE verdict # "running"
  BY <1>1, <1>2 DEF InStep, tool
<1>3. CASE verdict = "running"
  <2>1. StubInStep
    BY <1>1, <1>3, IdleStub, NewUartFields DEF InStep, LoaderInStep, StubGreets
  <2>2. ~StubRestarts
    <3>1. StubRestarts => Block.op = "MEM_END" /\ job.stage = "took"
      BY DEF StubRestarts, StubJumps
    <3>2. job.stage = "took" => Block = request
      BY <2>1 DEF StubInStep, StubInOrder, Block
    <3> QED BY <2>1, <3>1, <3>2 DEF StubInStep
  <2>3. StubWorks \/ StubInflates(FALSE) \/ StubInflatesGarbage(FALSE)
    BY <2>2 DEF StubRuns, Fault
  <2>4. UNCHANGED <<tool, wire, chip, loader>>
    BY <1>1, <2>2 DEF StubRuns, device
  <2>5. StubInStep'
    BY <2>1, <2>3, <2>4, WorkInStep
  <2> QED BY <1>1, <1>3, <2>2, <2>5 DEF InStep, tool
<1> QED BY <1>2, <1>3

LEMMA StepInvariant ==
    ASSUME ToolTyped, LineTyped, StubTyped, AnswersTyped, StubInOrder, InStep, Next
    PROVE  InStep'
<1> SUFFICES ASSUME clean' PROVE InStep'
  BY DEF InStep
<1>1. CASE ToolStarts \/ ToolTriesAgain
  BY <1>1, ConnectInStep
<1>2. CASE ~(ToolStarts \/ ToolTriesAgain)
  <2>1. clean /\ ~Fault
    BY <1>2 DEF Next, ToolReadsSync, ToolReadsGreeting, ToolReads, ToolGivesUp, StubReceives,
                RomReceives, RomAnswers, StubStarts, NobodyAnswers, AnswerDamaged, StubRuns,
                StubRestarts, NoFault, Fault, history
  <2>2. CASE ToolReadsSync \/ ToolReadsGreeting
    BY <2>1, <2>2, ReadsSyncInStep, GreetingInStep DEF InStep
  <2>3. CASE ToolReads
    BY <2>1, <2>3, ReadsInStep
  <2>4. CASE ToolGivesUp
    <3>1. Quiet /\ verdict = "running"
      BY <2>1, <2>4 DEF ToolGivesUp, TimesOut
    <3> QED BY <2>1, <3>1, NeverQuiet
  <2>5. CASE StubReceives
    BY <2>1, <2>5, StubReceivesInStep
  <2>6. CASE RomReceives
    BY <2>1, <2>6, RomReceivesInStep
  <2>7. CASE RomAnswers
    BY <2>1, <2>7, RomAnswersInStep
  <2>8. CASE StubStarts
    BY <2>1, <2>8, StubStartsInStep
  <2>9. CASE NobodyAnswers
    <3>1. wire # None /\ chip \in {"app", "starting"}
      BY <2>1, <2>9 DEF NobodyAnswers
    <3> QED BY <2>1, <3>1 DEF InStep, LoaderInStep, StubGreets, StubInStep
  <2>10. CASE StubRuns \/ StubRestarts
    BY <2>1, <2>10, StubRunsInStep
  <2>11. ~AnswerDamaged
    BY <2>1 DEF AnswerDamaged
  <2> QED
    BY <1>2, <2>2, <2>3, <2>4, <2>5, <2>6, <2>7, <2>8, <2>9, <2>10, <2>11 DEF Next
<1> QED BY <1>1, <1>2

-------------------------------------------------------------------------------
(* The invariant.                                                              *)

LEMMA KeptStays == Kept /\ UNCHANGED <<fs, flash, strayed>> => Kept'
BY DEF Kept, InFiles, OthersKept

LEMMA InitInvariant == Init => StepInv
<1> SUFFICES ASSUME Init PROVE StepInv
  OBVIOUS
<1>1. Frame("none", 0, 0) \in Frames
  BY FramesMade DEF Ops
<1>2. ToolTyped
  <2>1. 0 \in 0 .. SyncAnswers - 1 /\ 0 \in 0 .. Tries * Syncs
    BY FilesType, TriesType
  <2> QED BY <1>1, <2>1 DEF Init, ToolTyped
<1>3. LineTyped
  <2>1. 0 \in 0 .. MaxFaults
    BY ToolAssumption DEF ToolAssumption
  <2>2. FALSE \in BOOLEAN /\ <<>> \in Seq(Frames)
    OBVIOUS
  <2> QED BY <2>1, <2>2, Zenon DEF Init, LineTyped
<1>4. flash \in [Unit -> {Old}] /\ flash \in [Unit -> Content]
  BY ContentType, ToolAssumption DEF Init, ToolAssumption
<1>5. StubTyped
  <2>1. ub \in UbType /\ job \in JobType
    BY NewTyped DEF Init
  <2>2. OutTyped /\ Good(fs, Nat)
    BY FilesType, BegunGood DEF Init, OutTyped
  <2> QED BY <1>4, <2>1, <2>2 DEF StubTyped
<1>6. Kept
  <2>1. Within(fs, FileSectors)
    BY BegunGood DEF Init, Good
  <2> QED BY <1>4, <2>1 DEF Init, Kept, InFiles, OthersKept
<1>7. deceived \in BOOLEAN /\ AnswersTyped
  <2>1. <<>> \in Seq(Answers)
    OBVIOUS
  <2> QED BY <2>1 DEF Init, AnswersTyped
<1>8. StubInOrder
  BY NewUartFields DEF Init, StubInOrder
<1>9. InStep
  BY DEF Init, InStep
<1> QED BY <1>2, <1>3, <1>5, <1>6, <1>7, <1>8, <1>9, StepInvParts DEF Parts

\* What stays when an action leaves it alone.
LEMMA ToolStays == ToolTyped /\ UNCHANGED <<tool, wire>> => ToolTyped'
BY DEF tool, ToolTyped

LEMMA WireGoes == ToolTyped /\ UNCHANGED tool /\ wire' = None => ToolTyped'
BY DEF tool, ToolTyped

LEMMA StubStays == StubTyped /\ UNCHANGED <<stub, flash>> => StubTyped'
BY DEF stub, StubTyped, OutTyped

LEMMA RestartsKept == Kept /\ Restarts /\ UNCHANGED <<flash, strayed>> => Kept'
<1> SUFFICES ASSUME Kept, Restarts, UNCHANGED <<flash, strayed>> PROVE Kept'
  OBVIOUS
<1>1. Within(fs', FileSectors)
  BY BegunGood DEF Restarts, Good
<1> QED BY <1>1 DEF Kept, InFiles, OthersKept

LEMMA ToolInvariant ==
    ASSUME StepInv,
           ToolReadsSync \/ ToolReadsGreeting \/ ToolReads \/ ToolGivesUp
    PROVE  Parts'
<1>1. ToolTyped /\ LineTyped /\ StubTyped /\ Kept
  BY StepInvParts DEF Parts
<1>2. ToolTyped'
  BY <1>1, ReadsSyncTyped, GreetingTyped, ReadsTyped, GivesUpTyped
<1>3. StubTyped' /\ Kept'
  <2>1. UNCHANGED <<stub, flash>> /\ UNCHANGED strayed
    BY DEF ToolReadsSync, ToolReadsGreeting, ToolReads, ToolGivesUp, NoFault, history
  <2> QED BY <1>1, <2>1, StubStays, KeptStays DEF stub
<1>4. LineTyped'
  <2>1. CASE UNCHANGED device
    BY <1>1, <2>1, LineStays DEF ToolReadsSync, ToolReadsGreeting, ToolReads, ToolGivesUp
  <2>2. CASE ~UNCHANGED device
    <3>1. NoFault /\ Leaves
      BY <2>2 DEF ToolReadsSync, ToolReadsGreeting, ToolReads, ToolGivesUp
    <3>2. chip' \in {"app", chip} /\ UNCHANGED loader
      BY <3>1 DEF Leaves
    <3> QED BY <1>1, <3>1, <3>2, FaultTyped DEF LineTyped
  <2> QED BY <2>1, <2>2
<1> QED BY <1>2, <1>3, <1>4 DEF Parts

LEMMA ConnectInvariant ==
    ASSUME StepInv, ToolStarts \/ ToolTriesAgain
    PROVE  Parts'
<1>1. ToolTyped /\ LineTyped /\ StubTyped /\ Kept
  BY StepInvParts DEF Parts
<1>2. ToolTyped'
  BY <1>1, TriesType, ConnectsTyped, TriesAgainTyped DEF ToolStarts
<1>3. (Reset \/ UNCHANGED <<device, stub>>) /\ UNCHANGED flash
  BY DEF ToolStarts, ToolTriesAgain
<1>4. /\ chip' \in {"app", "rom", "starting", "stub"} /\ loader' \in Seq(Frames)
      /\ StubTyped'
  BY <1>1, <1>3, ResetTyped
<1>5. Kept'
  <2>1. UNCHANGED <<flash, strayed>>
    BY DEF ToolStarts, ToolTriesAgain
  <2>2. CASE UNCHANGED fs
    BY <1>1, <2>1, <2>2, KeptStays
  <2>3. CASE Restarts
    BY <1>1, <2>1, <2>3, RestartsKept
  <2> QED BY <1>3, <2>2, <2>3 DEF Reset, stub
<1>6. clean' \in BOOLEAN
  BY Zenon DEF ToolStarts, ToolTriesAgain, Reset
<1>7. faults' \in 0 .. MaxFaults
  <2>1. faults \in 0 .. MaxFaults /\ MaxFaults \in Nat
    BY <1>1, ToolAssumption DEF LineTyped, ToolAssumption
  <2>2. faults' = faults \/ (faults < MaxFaults /\ faults' = faults + 1)
    BY DEF ToolStarts, ToolTriesAgain, FaultIsLeft
  <2> QED BY <2>1, <2>2
<1>8. LineTyped'
  BY <1>4, <1>6, <1>7 DEF LineTyped
<1> QED BY <1>2, <1>4, <1>5, <1>8 DEF Parts

LEMMA LineInvariant ==
    ASSUME StepInv,
           StubReceives \/ RomReceives \/ RomAnswers \/ StubStarts \/ NobodyAnswers \/ AnswerDamaged
    PROVE  Parts'
<1>1. ToolTyped /\ LineTyped /\ StubTyped /\ Kept
  BY StepInvParts DEF Parts
<1>2. ToolTyped'
  BY <1>1, ToolStays, WireGoes
  DEF StubReceives, RomReceives, RomAnswers, StubStarts, NobodyAnswers, AnswerDamaged
<1>3. StubTyped' /\ Kept'
  <2> UNCHANGED strayed
    BY DEF StubReceives, RomReceives, RomAnswers, StubStarts, NobodyAnswers, AnswerDamaged,
           NoFault, history
  <2>1. CASE StubReceives
    <3>1. ub' \in UbType /\ UNCHANGED <<job, fs, out, flash>>
      BY <1>1, <2>1, ReceivesTyped DEF StubReceives
    <3> QED BY <1>1, <3>1, KeptStays DEF StubTyped, OutTyped
  <2>2. CASE UNCHANGED <<stub, flash>>
    BY <1>1, <2>2, StubStays, KeptStays DEF stub
  <2> QED BY <2>1, <2>2 DEF RomReceives, RomAnswers, StubStarts, NobodyAnswers, AnswerDamaged
<1>4. LineTyped'
  <2>1. Fault \/ NoFault
    BY DEF StubReceives, RomReceives, RomAnswers, StubStarts, NobodyAnswers, AnswerDamaged
  <2>2. chip' \in {"app", "rom", "starting", "stub"} /\ loader' \in Seq(Frames)
    <3>1. CASE UNCHANGED device
      BY <1>1, <3>1 DEF device, LineTyped
    <3>2. CASE RomReceives
      <4>1. wire \in Frames /\ UNCHANGED chip /\ loader' = Append(loader, wire)
        BY <1>1, <3>2 DEF RomReceives, ToolTyped
      <4> QED BY <1>1, <4>1 DEF LineTyped
    <3>3. CASE RomAnswers
      <4>1. chip' \in {"rom", "starting"} /\ loader' = Tail(loader) /\ loader # <<>>
        BY <3>3 DEF RomAnswers
      <4> QED BY <1>1, <4>1 DEF LineTyped
    <3>4. CASE StubStarts
      BY <1>1, <3>4 DEF StubStarts, LineTyped
    <3> QED BY <3>1, <3>2, <3>3, <3>4 DEF StubReceives, NobodyAnswers, AnswerDamaged
  <2> QED BY <1>1, <2>1, <2>2, FaultTyped DEF LineTyped
<1> QED BY <1>2, <1>3, <1>4 DEF Parts

\* What the stub executes goes to the files' places, unless it is told otherwise.
LEMMA RunsKept ==
    ASSUME StubTyped, Kept, StubRuns
    PROVE  Kept'
<1>1. strayed' = (strayed \/ Misled({"BEGIN", "LEAVE"})) /\ strayed' \in BOOLEAN
  BY Zenon DEF StubRuns
<1>2. SUFFICES ASSUME ~strayed' PROVE Good(fs', FileSectors) /\ KeepsOthers(flash, flash', FileSectors)
  <2>1. InFiles' <=> (~strayed' => Within(fs', FileSectors))
    BY DEF InFiles, Within
  <2>2. OthersKept' <=> (~strayed' => \A u \in Unit : Sector(u) \notin FileSectors => flash'[u] = Old)
    BY DEF OthersKept
  <2>3. ~strayed' => OthersKept /\ ~strayed
    BY <1>1 DEF Kept
  <2> QED BY <1>1, <1>2, <2>1, <2>2, <2>3 DEF Kept, Good, KeepsOthers, OthersKept
<1>3. Good(fs, FileSectors)
  BY <1>1, <1>2 DEF Kept, InFiles, StubTyped, Good
<1>4. CASE StubWorks
  <2>1. flash' = flash
    BY <1>4, WorksKeeps
  <2>2. CASE StubBegins
    <3>1. Block.sound # "missed"
      BY <1>1, <1>2, <2>2 DEF Misled, StubBegins, Handles
    <3>2. \A f \in DOMAIN File : Good(fs', Sectors(f)) => Good(fs', FileSectors)
      BY DEF Good, Within, FileSectors
    <3> QED BY <1>3, <2>1, <2>2, <3>1, <3>2, BeginsWhat DEF KeepsOthers
  <2>3. CASE StubEnds
    <3>1. Good([fs EXCEPT !.in_flash_mode = FALSE], FileSectors)
      BY <1>3 DEF Good, FlashingState, Within
    <3> QED BY <1>3, <2>1, <2>3, <3>1 DEF StubEnds, KeepsOthers
  <2>4. CASE StubHasTooMuch
    <3>1. Good([fs EXCEPT !.last_error = TRUE], FileSectors)
      BY <1>3 DEF Good, FlashingState, Within
    <3> QED BY <2>1, <2>4, <3>1 DEF StubHasTooMuch, KeepsOthers
  <2>5. CASE UNCHANGED fs
    BY <1>3, <2>1, <2>5 DEF KeepsOthers
  <2> QED BY <1>4, <2>2, <2>3, <2>4, <2>5
          DEF StubWorks, StubTakes, StubSyncs, StubReads, StubLoads, StubAcknowledges, StubHashes,
              StubRefuses
<1>5. CASE StubInflates(FALSE) \/ StubInflates(TRUE)
  BY <1>3, <1>5, InflatesKeeps
<1>6. CASE StubInflatesGarbage(FALSE)
  BY <1>3, <1>6, GarbageKeeps
<1> QED BY <1>4, <1>5, <1>6 DEF StubRuns

LEMMA StubInvariant ==
    ASSUME StepInv, StubRuns
    PROVE  Parts'
<1>1. ToolTyped /\ LineTyped /\ StubTyped /\ Kept
  BY StepInvParts DEF Parts
<1>2. ToolTyped'
  BY <1>1, ToolStays DEF StubRuns
<1>3. LineTyped'
  BY <1>1, LineStays DEF StubRuns
<1>4. StubTyped'
  <2>1. CASE StubWorks
    BY <1>1, <2>1, WorksKeeps
  <2> Good(fs, Nat)
    BY <1>1 DEF StubTyped
  <2>2. CASE StubInflates(FALSE) \/ StubInflates(TRUE)
    BY <1>1, <2>2, InflatesKeeps
  <2>3. CASE StubInflatesGarbage(FALSE)
    BY <1>1, <2>3, GarbageKeeps
  <2> QED BY <2>1, <2>2, <2>3 DEF StubRuns
<1>5. Kept'
  BY <1>1, RunsKept
<1> QED BY <1>2, <1>3, <1>4, <1>5 DEF Parts

LEMMA RestartsInvariant ==
    ASSUME StepInv, StubRestarts
    PROVE  Parts'
<1>1. ToolTyped /\ LineTyped /\ StubTyped /\ Kept
  BY StepInvParts DEF Parts
<1>2. ToolTyped'
  BY <1>1, ToolStays DEF StubRestarts
<1>3. LineTyped'
  BY <1>1, FaultTyped DEF StubRestarts, LineTyped
<1>4. StubTyped' /\ UNCHANGED flash
  <2>1. CASE Restarts
    BY <1>1, <2>1, RestartsTyped DEF StubRestarts, StubJumps
  <2>2. CASE ~Restarts
    <3>1. /\ job' = [job EXCEPT !.stage = "wait"] /\ ub' = [ub EXCEPT !.command = None]
          /\ UNCHANGED <<fs, out, flash>>
      BY <2>2 DEF StubRestarts, StubJumps, Finishes
    <3>2. job' \in JobType /\ ub' \in UbType
      BY <1>1, <3>1 DEF StubTyped, JobType, UbType
    <3> QED BY <1>1, <3>1, <3>2 DEF StubTyped, OutTyped
  <2> QED BY <2>1, <2>2 DEF StubRestarts, StubJumps
<1>5. Kept'
  <2>1. UNCHANGED <<flash, strayed>>
    BY <1>4 DEF StubRestarts, NoFault, history
  <2>2. CASE Restarts
    BY <1>1, <2>1, <2>2, RestartsKept
  <2>3. CASE ~Restarts
    BY <1>1, <2>1, <2>3, KeptStays DEF StubRestarts, StubJumps
  <2> QED BY <2>2, <2>3
<1> QED BY <1>2, <1>3, <1>4, <1>5 DEF Parts

LEMMA DeceivedTyped == deceived \in BOOLEAN /\ [Next]_vars => deceived' \in BOOLEAN
<1> SUFFICES ASSUME deceived \in BOOLEAN, [Next]_vars PROVE deceived' \in BOOLEAN
  OBVIOUS
<1>1. CASE AnswerDamaged
  BY <1>1, Zenon DEF AnswerDamaged
<1>2. CASE ToolStarts
  BY <1>2 DEF ToolStarts
<1>3. CASE UNCHANGED deceived
  BY <1>3
<1>4. CASE StubRuns
  BY <1>4, Zenon DEF StubRuns
<1> QED
  BY <1>1, <1>2, <1>3, <1>4
  DEF Next, vars, history, NoFault, ToolReadsSync, ToolReadsGreeting, ToolReads, ToolTriesAgain,
      ToolGivesUp, StubReceives, RomReceives, RomAnswers, StubStarts, NobodyAnswers, StubRestarts

LEMMA NextInvariant == StepInv /\ [Next]_vars => StepInv'
<1> SUFFICES ASSUME StepInv, [Next]_vars PROVE StepInv'
  OBVIOUS
<1>1. deceived' \in BOOLEAN
  BY StepInvParts, DeceivedTyped
<1>2. ToolTyped /\ LineTyped /\ StubTyped /\ Kept /\ AnswersTyped /\ StubInOrder /\ InStep
  BY StepInvParts DEF Parts
<1>3. ASSUME UNCHANGED vars PROVE Parts' /\ AnswersTyped' /\ StubInOrder' /\ InStep'
  <2>1. UNCHANGED <<tool, wire>> /\ UNCHANGED <<stub, flash>> /\ UNCHANGED device
        /\ UNCHANGED history /\ UNCHANGED answers
    BY <1>3 DEF vars
  <2>2. ToolTyped' /\ StubTyped' /\ Kept'
    BY <1>2, <2>1, ToolStays, StubStays, KeptStays DEF stub, history
  <2>3. LineTyped' /\ AnswersTyped'
    BY <1>2, <2>1 DEF LineTyped, AnswersTyped, device, history
  <2>4. StubInOrder'
    BY <1>2, <2>1 DEF StubInOrder, stub, device
  <2>5. InStep'
    BY <1>2, <2>1
    DEF InStep, LoaderInStep, StubGreets, StubInStep, AnswersTo, tool, stub, device, history
  <2> QED BY <2>2, <2>3, <2>4, <2>5 DEF Parts
<1>4. ASSUME Next PROVE Parts' /\ AnswersTyped' /\ StubInOrder' /\ InStep'
  <2>1. Parts'
    BY <1>4, ToolInvariant, ConnectInvariant, LineInvariant, StubInvariant, RestartsInvariant
    DEF Next
  <2> QED BY <1>2, <1>4, <2>1, AnswersStayTyped, OrderInvariant, StepInvariant
<1>5. (Parts /\ AnswersTyped /\ deceived \in BOOLEAN /\ StubInOrder /\ InStep)' => StepInv'
  BY StepInvParts, PTL
<1> QED BY <1>1, <1>3, <1>4, <1>5

\* Whatever is lost or damaged on the line, however often esptool is run and whether
\* its resets work: the stub's buffers and states are what its code takes them to
\* be, and what it has still to erase and to write lies in a file it was told of.
LEMMA ToolInOrder == Spec => []StepInv
<1> QED BY InitInvariant, NextInvariant, PTL DEF Spec

\* Nothing outside the files' sectors is ever erased or written: what
\* handle_flash_begin counts, start_next_erase takes and handle_flash_data writes
\* stays in the files, for every size of a sector, a block and of out_buf.
THEOREM OthersAreKept == Spec => []OthersKept
<1>1. StepInv => OthersKept
  BY DEF StepInv
<1> QED BY <1>1, ToolInOrder, PTL

LEMMA CountOfOne ==
    \A x : Cardinality({y \in {x} : y # None}) = IF x = None THEN 0 ELSE 1
<1> TAKE x
<1>1. CASE x = None
  BY <1>1, {y \in {x} : y # None} = {}, FS_EmptySet
<1>2. CASE x # None
  BY <1>2, {y \in {x} : y # None} = {x}, FS_Singleton
<1> QED BY <1>1, <1>2

\* While nothing goes wrong there is one command, or its execution, or its answer:
\* esptool never reads an answer to an earlier command of the same kind.
THEOREM OneAtOnce == Spec => []OneAtATime
<1>1. StepInv => OneAtATime
  <2> SUFFICES ASSUME StepInv, clean, verdict = "running", request.op \notin {"SYNC", "MEM_END"}
               PROVE  Len(answers) + Cardinality({w \in {wire} : w # None}) + Len(loader)
                        + Cardinality({c \in {ub.command} : c # None}) <= 1
    BY DEF OneAtATime
  <2>1. /\ ToolTyped /\ LineTyped /\ AnswersTyped /\ StubInOrder
        /\ LoaderInStep \/ StubGreets \/ StubInStep
    BY StepInvParts DEF Parts, InStep
  <2>2. /\ Cardinality({w \in {wire} : w # None}) = IF wire = None THEN 0 ELSE 1
        /\ Cardinality({c \in {ub.command} : c # None}) = IF ub.command = None THEN 0 ELSE 1
    BY CountOfOne
  <2>3. ASSUME NEW a, NEW w, NEW l, NEW c, a = Len(answers), l = Len(loader),
               w = (IF wire = None THEN 0 ELSE 1), c = (IF ub.command = None THEN 0 ELSE 1)
        PROVE  a + w + l + c <= 1
    <3>1. CASE LoaderInStep
      <4>1. chip = "rom" /\ ub.command = None
        BY <2>1, <3>1, NewUartFields DEF LoaderInStep, StubInOrder
      <4>2. \/ a = 0 /\ l = 0
            \/ wire = None /\ a + l = 1 /\ a \in {0, 1}
        BY <2>3, <3>1 DEF LoaderInStep
      <4> QED BY <2>3, <4>1, <4>2
    <3>2. CASE StubGreets
      <4>1. wire = None /\ l = 0 /\ ub.command = None
        BY <2>3, <3>2, NewUartFields DEF StubGreets
      <4>2. a \in {0, 1}
        BY <2>1, <2>3, <3>2, AnswersShort DEF StubGreets, AnswersTyped
      <4> QED BY <2>3, <4>1, <4>2
    <3>3. CASE StubInStep
      <4>1. /\ l = 0
            /\ \/ ub.command = None /\ a = 0
               \/ wire = None /\ a = 0
               \/ wire = None /\ ub.command = None /\ a = 1
        BY <2>1, <2>3, <3>3, AnswersShort DEF StubInStep, AnswersTyped
      <4>2. /\ w \in {0, 1} /\ c \in {0, 1}
            /\ wire = None => w = 0
            /\ ub.command = None => c = 0
        BY <2>3
      <4> QED BY <4>1, <4>2
    <3> QED BY <2>1, <3>1, <3>2, <3>3
  <2> QED BY <2>2, <2>3
<1> QED BY <1>1, ToolInOrder, PTL

\* The interrupt that reads the next block and the main loop that inflates this one
\* are never in the same buffer, for every division of the files into blocks.
THEOREM BlocksStayInPlace == Spec => BlocksStay
<1>1. ASSUME StepInv, Next, clean, clean', job.stage = "write"
      PROVE  ub'.buf[job.buf] = ub.buf[job.buf] \/ chip' = "rom"
  <2>1. ToolTyped /\ LineTyped /\ StubTyped /\ AnswersTyped /\ StubInOrder /\ InStep
    BY <1>1, StepInvParts DEF Parts
  <2>2. CASE UNCHANGED ub
    BY <2>2
  <2>3. CASE ToolStarts \/ ToolTriesAgain
    BY <2>2, <2>3 DEF ToolStarts, ToolTriesAgain, Reset, stub
  <2>4. CASE StubReceives
    <3>1. StubInStep /\ ub' = Received(ub) /\ wire # None
      BY <1>1, <2>1, <2>4, StubReceivesInStep DEF StubReceives
    <3>2. ub.slip = "none" /\ ub.command = None /\ job.buf = OtherBuffer(ub.reading)
      BY <1>1, <3>1 DEF StubInStep
    <3>3. ub \in UbType /\ wire \in Frames /\ job.buf # ub.reading /\ job.buf \in 1 .. 2
      <4>1. ub.reading \in {1, 2} /\ job.buf \in 1 .. 2
        BY <2>1 DEF StubTyped, UbType, JobType
      <4> QED BY <2>1, <3>1, <3>2, <4>1 DEF StubTyped, ToolTyped, OtherBuffer
    <3>4. ub'.buf = [ub.buf EXCEPT ![ub.reading] = wire]
      BY <3>1, <3>2, <3>3, WholeFrame
    <3> QED BY <3>3, <3>4 DEF UbType
  <2>5. CASE StubRuns \/ StubRestarts
    <3>1. job.stage # "took" /\ job.stage # "wait"
      BY <1>1
    <3> QED
      BY <2>2, <2>5, <3>1
      DEF StubRuns, StubRestarts, StubJumps, StubWorks, StubTakes, StubSyncs, StubReads, StubLoads,
          StubBegins, StubAcknowledges, StubHashes, StubEnds, StubRefuses, StubHasTooMuch, Handles,
          StubInflates, StubInflatesGarbage
  <2> QED
    BY <1>1, <2>2, <2>3, <2>4, <2>5
    DEF Next, ToolReadsSync, ToolReadsGreeting, ToolReads, ToolGivesUp, RomReceives, RomAnswers,
        StubStarts, NobodyAnswers, AnswerDamaged, stub
<1>2. StepInv /\ [Next]_vars =>
        [clean /\ clean' /\ job.stage = "write" =>
           ub'.buf[job.buf] = ub.buf[job.buf] \/ chip' = "rom"]_vars
  BY <1>1
<1> QED BY <1>2, ToolInOrder, PTL DEF Spec, BlocksStay

-------------------------------------------------------------------------------
(* Why what is called written is.  What a frame on its way does to the buffers.   *)

\* What becomes of the buffers when something comes: nothing, a part of a frame, a
\* new command, or the one in the buffer that was being read into.
Silent(u) == u.command = ub.command /\ u.reading = ub.reading /\ u.buf = ub.buf

PartOf(u) ==
    /\ u.command = ub.command /\ u.reading = ub.reading /\ u.slip = "body"
    /\ u.buf = [ub.buf EXCEPT ![ub.reading] = wire]

NewIn(u, frame) ==
    /\ u.slip = "none" \/ (u.slip = "open" /\ ub.slip = "none")
    /\ u.command = OtherBuffer(u.reading)
    /\ u.reading \in 1 .. 2 /\ u.command \in 1 .. 2
    /\ u.buf = [ub.buf EXCEPT ![u.command] = frame]
    /\ u.command = ub.reading \/ ub.slip # "none"

OldIn(u) ==
    /\ u.command = ub.reading /\ u.reading = OtherBuffer(ub.reading) /\ u.buf = ub.buf

\* Delimiters and bytes, one field at a time.
Like(u, slip, reading, command, buf) ==
    u.slip = slip /\ u.reading = reading /\ u.command = command /\ u.buf = buf

LEMMA OnDelimiter ==
    ASSUME NEW u \in UbType
    PROVE  /\ Delimiter(u) \in UbType
           /\ u.slip = "none" => Like(Delimiter(u), "open", u.reading, u.command, u.buf)
           /\ u.slip # "none" =>
                 Like(Delimiter(u), "none", OtherBuffer(u.reading), u.reading, u.buf)
BY DelimiterType DEF Delimiter, Like, UbType

LEMMA OnBytes ==
    ASSUME NEW u \in UbType, NEW frame \in Frames
    PROVE  /\ Bytes(u, frame) \in UbType
           /\ u.slip # "open" => Bytes(u, frame) = u
           /\ u.slip = "open" => Like(Bytes(u, frame), "body", u.reading, u.command,
                                      [u.buf EXCEPT ![u.reading] = frame])
BY BytesType DEF Bytes, Like, UbType

LEMMA Others ==
    \A b \in 1 .. 2 : OtherBuffer(b) \in 1 .. 2 /\ OtherBuffer(b) # b /\ OtherBuffer(OtherBuffer(b)) = b
BY DEF OtherBuffer

\* Two delimiters with a frame between them or not, after nothing.
LEMMA Arrivals ==
    ASSUME NEW u \in UbType, NEW frame \in Frames
    PROVE  /\ u.slip = "open" =>
                 Like(Delimiter(Bytes(u, frame)), "none", OtherBuffer(u.reading), u.reading,
                      [u.buf EXCEPT ![u.reading] = frame])
           /\ u.slip = "none" =>
                 /\ Like(Delimiter(Bytes(u, frame)), "open", u.reading, u.command, u.buf)
                 /\ Like(Delimiter(Delimiter(u)), "none", OtherBuffer(u.reading), u.reading, u.buf)
                 /\ Like(Bytes(Delimiter(u), frame), "body", u.reading, u.command,
                         [u.buf EXCEPT ![u.reading] = frame])
                 /\ Like(Delimiter(Bytes(Delimiter(u), frame)), "none", OtherBuffer(u.reading),
                         u.reading, [u.buf EXCEPT ![u.reading] = frame])
                 /\ Like(Delimiter(Delimiter(Bytes(Delimiter(u), frame))), "open",
                         OtherBuffer(u.reading), u.reading, [u.buf EXCEPT ![u.reading] = frame])
           /\ u.slip = "body" =>
                 Like(Delimiter(Bytes(u, frame)), "none", OtherBuffer(u.reading), u.reading, u.buf)
<1>1. Delimiter(u) \in UbType /\ Bytes(u, frame) \in UbType
  BY OnDelimiter, OnBytes
<1>2. CASE u.slip = "open"
  <2> DEFINE v == Bytes(u, frame)
  <2>1. v \in UbType /\ Like(v, "body", u.reading, u.command, [u.buf EXCEPT ![u.reading] = frame])
    BY <1>2, OnBytes
  <2> HIDE DEF v
  <2>2. Like(Delimiter(v), "none", OtherBuffer(v.reading), v.reading, v.buf)
    BY <2>1, OnDelimiter DEF Like
  <2>3. Like(Delimiter(v), "none", OtherBuffer(u.reading), u.reading, [u.buf EXCEPT ![u.reading] = frame])
    BY <2>1, <2>2 DEF Like
  <2> QED BY <1>2, <2>3 DEF v
<1>3. CASE u.slip = "body"
  <2>1. Bytes(u, frame) = u
    BY <1>3, OnBytes
  <2> QED BY <1>3, <2>1, OnDelimiter
<1>4. CASE u.slip = "none"
  <2>1. Bytes(u, frame) = u /\ Like(Delimiter(u), "open", u.reading, u.command, u.buf)
    BY <1>4, OnBytes, OnDelimiter
  <2> DEFINE v == Delimiter(u)
             w == Bytes(v, frame)
  <2>2. v \in UbType /\ Like(v, "open", u.reading, u.command, u.buf)
    BY <1>1, <2>1
  <2> HIDE DEF v
  <2>3. Like(Delimiter(v), "none", OtherBuffer(v.reading), v.reading, v.buf)
    BY <2>2, OnDelimiter DEF Like
  <2>4. Like(Delimiter(v), "none", OtherBuffer(u.reading), u.reading, u.buf)
    BY <2>2, <2>3 DEF Like
  <2>5. w \in UbType /\ Like(w, "body", v.reading, v.command, [v.buf EXCEPT ![v.reading] = frame])
    BY <2>2, OnBytes DEF Like
  <2>6. Like(w, "body", u.reading, u.command, [u.buf EXCEPT ![u.reading] = frame])
    BY <2>2, <2>5 DEF Like
  <2> HIDE DEF w
  <2>7. Like(Delimiter(w), "none", OtherBuffer(w.reading), w.reading, w.buf)
    BY <2>5, <2>6, OnDelimiter DEF Like
  <2>8. Like(Delimiter(w), "none", OtherBuffer(u.reading), u.reading, [u.buf EXCEPT ![u.reading] = frame])
    BY <2>6, <2>7 DEF Like
  <2>9. Delimiter(w) \in UbType
    BY <2>5, OnDelimiter
  <2>10. Like(Delimiter(Delimiter(w)), "open", OtherBuffer(u.reading), u.reading,
              [u.buf EXCEPT ![u.reading] = frame])
    BY <2>8, <2>9, OnDelimiter DEF Like
  <2> QED BY <1>4, <2>1, <2>4, <2>6, <2>8, <2>10 DEF v, w
<1> QED BY <1>2, <1>3, <1>4 DEF UbType

\* Whatever is lost or changed of a frame on its way.
LEMMA Reception ==
    ASSUME ub \in UbType, wire \in Frames, NEW u \in Damaged(ub) \union {Received(ub)}
    PROVE  \/ Silent(u) \/ PartOf(u) \/ OldIn(u)
           \/ \E frame \in Frames : /\ frame.op = wire.op /\ frame.file = wire.file
                                   /\ NewIn(u, frame)
<1> DEFINE Comes(w) == \/ Silent(w) \/ PartOf(w) \/ OldIn(w)
                       \/ \E frame \in Frames : /\ frame.op = wire.op /\ frame.file = wire.file
                                               /\ NewIn(w, frame)
<1>1. /\ ub.slip \in {"none", "open", "body"} /\ ub.reading \in 1 .. 2
      /\ OtherBuffer(ub.reading) \in 1 .. 2 /\ OtherBuffer(OtherBuffer(ub.reading)) = ub.reading
  BY Others DEF UbType
<1>2. ASSUME NEW w, NEW slip, Like(w, slip, OtherBuffer(ub.reading), ub.reading, ub.buf)
      PROVE  Comes(w)
  BY <1>2 DEF Like, OldIn
<1>3. ASSUME NEW w, NEW frame \in Frames, frame.op = wire.op, frame.file = wire.file,
             \/ Like(w, "none", OtherBuffer(ub.reading), ub.reading,
                     [ub.buf EXCEPT ![ub.reading] = frame])
             \/ /\ ub.slip = "none"
                /\ Like(w, "open", OtherBuffer(ub.reading), ub.reading,
                        [ub.buf EXCEPT ![ub.reading] = frame])
      PROVE  Comes(w)
  <2>1. NewIn(w, frame)
    BY <1>1, <1>3 DEF Like, NewIn
  <2> QED BY <1>3, <2>1
<1>4. \/ u \in {ub, Delimiter(Bytes(ub, wire)), Delimiter(Delimiter(ub)),
                 Bytes(Delimiter(ub), wire), Delimiter(Bytes(Delimiter(Delimiter(ub)), wire))}
      \/ \E frame \in Frames : /\ frame.op = wire.op /\ frame.file = wire.file
                              /\ \/ u = Delimiter(Bytes(Delimiter(ub), frame))
                                 \/ /\ ub.slip = "none"
                                    /\ u = Delimiter(Delimiter(Bytes(Delimiter(ub), frame)))
  <2>1. \A s \in {"caught", "missed", "good"} : /\ [wire EXCEPT !.sound = s] \in Frames
                                       /\ [wire EXCEPT !.sound = s].op = wire.op
                                       /\ [wire EXCEPT !.sound = s].file = wire.file
    BY DEF Frames
  <2>2. CASE u = Received(ub)
    BY <2>2 DEF Received
  <2>3. CASE u \in {ub, Delimiter(Bytes(ub, wire)), Delimiter(Delimiter(ub)),
                    Bytes(Delimiter(ub), wire), Delimiter(Bytes(Delimiter(Delimiter(ub)), wire))}
    BY <2>3
  <2>4. CASE \E s \in {"caught", "missed"} :
                u = Delimiter(Bytes(Delimiter(ub), [wire EXCEPT !.sound = s]))
    BY <2>1, <2>4
  <2>5. CASE \E s \in {"caught", "missed", "good"} :
                ub.slip = "none" /\ u = Delimiter(Delimiter(Bytes(Delimiter(ub), [wire EXCEPT !.sound = s])))
    BY <2>1, <2>5
  <2> QED BY <2>2, <2>3, <2>4, <2>5 DEF Damaged, Unnoticed
<1> DEFINE v == Delimiter(ub)
           w == Delimiter(v)
<1>5. Silent(ub)
  BY DEF Silent
<1>6. CASE ub.slip = "none"
  <2>1. v \in UbType /\ w \in UbType /\ Like(w, "none", OtherBuffer(ub.reading), ub.reading, ub.buf)
    BY <1>6, OnDelimiter, Arrivals
  <2>2. Like(Delimiter(Bytes(w, wire)), "open", w.reading, w.command, w.buf)
    BY <2>1, Arrivals DEF Like
  <2>3. Like(Delimiter(Bytes(w, wire)), "open", OtherBuffer(ub.reading), ub.reading, ub.buf)
    BY <2>1, <2>2 DEF Like
  <2>4. Silent(Delimiter(Bytes(ub, wire)))
    BY <1>6, Arrivals DEF Like, Silent
  <2>5. PartOf(Bytes(v, wire))
    BY <1>6, Arrivals DEF Like, PartOf
  <2>6. \A frame \in Frames :
           /\ Like(Delimiter(Bytes(v, frame)), "none", OtherBuffer(ub.reading),
                   ub.reading, [ub.buf EXCEPT ![ub.reading] = frame])
           /\ Like(Delimiter(Delimiter(Bytes(v, frame))), "open", OtherBuffer(ub.reading),
                   ub.reading, [ub.buf EXCEPT ![ub.reading] = frame])
    BY <1>6, Arrivals
  <2>7. Comes(w) /\ Comes(Delimiter(Bytes(w, wire)))
    BY <1>2, <2>1, <2>3
  <2>8. Comes(ub) /\ Comes(Delimiter(Bytes(ub, wire))) /\ Comes(Bytes(v, wire))
    BY <1>5, <2>4, <2>5
  <2>9. \A frame \in Frames : frame.op = wire.op /\ frame.file = wire.file =>
                                /\ Comes(Delimiter(Bytes(v, frame)))
                                /\ Comes(Delimiter(Delimiter(Bytes(v, frame))))
    BY <1>3, <1>6, <2>6
  <2> HIDE DEF Comes
  <2>10. Comes(u)
    BY <1>4, <2>7, <2>8, <2>9
  <2> QED BY <2>10 DEF Comes
<1>7. CASE ub.slip # "none"
  <2>1. v \in UbType /\ Like(v, "none", OtherBuffer(ub.reading), ub.reading, ub.buf)
    BY <1>7, OnDelimiter
  <2>2. w \in UbType /\ Like(w, "open", OtherBuffer(ub.reading), ub.reading, ub.buf)
    BY <2>1, OnDelimiter DEF Like
  <2>3. \A frame \in Frames :
           /\ Bytes(v, frame) = v
           /\ Like(Delimiter(Bytes(v, frame)), "open", OtherBuffer(ub.reading), ub.reading, ub.buf)
    <3> HIDE DEF v
    <3> TAKE frame \in Frames
    <3>1. v.slip = "none" /\ v.reading = OtherBuffer(ub.reading) /\ v.command = ub.reading
          /\ v.buf = ub.buf
      BY <2>1 DEF Like
    <3>2. Bytes(v, frame) = v
      BY <2>1, <3>1, OnBytes
    <3>3. Like(Delimiter(v), "open", v.reading, v.command, v.buf)
      BY <2>1, <3>1, OnDelimiter
    <3> QED BY <3>1, <3>2, <3>3
  <2>4. Comes(v) /\ Comes(w) /\ \A frame \in Frames : /\ Comes(Bytes(v, frame))
                                                     /\ Comes(Delimiter(Bytes(v, frame)))
    BY <1>2, <2>1, <2>2, <2>3
  <2>5. Comes(Delimiter(Bytes(w, wire)))
    <3> DEFINE x == Delimiter(Bytes(w, wire))
    <3>1. Like(x, "none", OtherBuffer(w.reading), w.reading, [w.buf EXCEPT ![w.reading] = wire])
      BY <2>2, Arrivals DEF Like
    <3>2. Like(x, "none", ub.reading, OtherBuffer(ub.reading),
               [ub.buf EXCEPT ![OtherBuffer(ub.reading)] = wire])
      BY <1>1, <2>2, <3>1 DEF Like
    <3> HIDE DEF x
    <3>3. NewIn(x, wire)
      BY <1>1, <1>7, <3>2 DEF Like, NewIn
    <3> QED BY <3>3 DEF x
  <2>6. Comes(Delimiter(Bytes(ub, wire)))
    <3>1. CASE ub.slip = "open"
      <4>1. Like(Delimiter(Bytes(ub, wire)), "none", OtherBuffer(ub.reading), ub.reading,
                 [ub.buf EXCEPT ![ub.reading] = wire])
        BY <3>1, Arrivals
      <4> QED BY <1>3, <4>1
    <3>2. CASE ub.slip = "body"
      <4>1. Like(Delimiter(Bytes(ub, wire)), "none", OtherBuffer(ub.reading), ub.reading, ub.buf)
        BY <3>2, Arrivals
      <4> QED BY <1>2, <4>1
    <3> QED BY <1>1, <1>7, <3>1, <3>2
  <2>7. Comes(ub)
    BY <1>5
  <2> HIDE DEF Comes
  <2>8. Comes(u)
    BY <1>4, <1>7, <2>4, <2>5, <2>6, <2>7
  <2> QED BY <2>8 DEF Comes
<1> QED BY <1>6, <1>7

-------------------------------------------------------------------------------
(* A step that at most loses answers, or the frame on its way.                   *)

\* The steps by what they do to the buffers, the line and the answers.  Some answers
\* get lost, or their status or value is changed: the i-th one was the h[i]-th.
Thins(h) ==
    /\ h \in [1 .. Len(answers') -> 1 .. Len(answers)]
    /\ \A i, j \in 1 .. Len(answers') : i < j => h[i] < h[j]
    /\ \A i \in 1 .. Len(answers') :
          /\ answers'[i].op = answers[h[i]].op /\ answers'[i].hash = answers[h[i]].hash
          /\ answers'[i].op = "BEGIN" /\ answers'[i].ok /\ ~deceived' => answers[h[i]].ok
          /\ SyncBefore(i)' => SyncBefore(h[i])
    /\ SyncBefore(Len(answers) + 1)' => SyncBefore(Len(answers) + 1)

QuietStep ==
    /\ UNCHANGED <<verdict, request, chip, stub, flash>>
    /\ wire' \in {wire, None}
    /\ deceived => deceived'
    /\ \E h : Thins(h)

Typed == ToolTyped /\ StubTyped /\ AnswersTyped /\ StubInOrder

LEMMA AnswersDomain ==
    AnswersTyped => Len(answers) \in Nat /\ DOMAIN answers = 1 .. Len(answers)
BY DEF AnswersTyped

LEMMA ThinsKeep ==
    ASSUME AnswersTyped, AnswersTyped', NEW h, Thins(h)
    PROVE  /\ \A i \in DOMAIN answers' :
                /\ h[i] \in DOMAIN answers
                /\ NoBeginAfter(h[i]) => NoBeginAfter(i)'
                /\ h[i] = Len(answers) => i = Len(answers')
                /\ Len(answers) = 1 => Len(answers') = 1
           /\ answers = <<>> => answers' = <<>>
<1>1. /\ Len(answers) \in Nat /\ DOMAIN answers = 1 .. Len(answers)
      /\ Len(answers') \in Nat /\ DOMAIN answers' = 1 .. Len(answers')
  BY DEF AnswersTyped
<1>2. /\ \A i \in 1 .. Len(answers') : h[i] \in 1 .. Len(answers) /\ answers'[i].op = answers[h[i]].op
      /\ \A i, j \in 1 .. Len(answers') : i < j => h[i] < h[j]
  BY DEF Thins
<1>3. ASSUME NEW i \in DOMAIN answers', NoBeginAfter(h[i]) PROVE NoBeginAfter(i)'
  <2> SUFFICES ASSUME NEW j \in i + 1 .. Len(answers') PROVE answers'[j].op # "BEGIN"
    BY DEF NoBeginAfter
  <2>1. i \in 1 .. Len(answers') /\ j \in 1 .. Len(answers') /\ i < j
    BY <1>1
  <2>2. h[j] \in h[i] + 1 .. Len(answers)
    BY <1>1, <1>2, <2>1
  <2> QED BY <1>2, <1>3, <2>1, <2>2 DEF NoBeginAfter
<1>4. ASSUME NEW i \in DOMAIN answers', h[i] = Len(answers) PROVE i = Len(answers')
  <2> SUFFICES ASSUME i < Len(answers') PROVE FALSE
    BY <1>1
  <2>1. h[i] < h[Len(answers')] /\ h[Len(answers')] <= Len(answers)
    BY <1>1, <1>2
  <2> QED BY <1>1, <1>2, <1>4, <2>1
<1>5. ASSUME NEW i \in DOMAIN answers', Len(answers) = 1 PROVE Len(answers') = 1
  <2> SUFFICES ASSUME 1 < Len(answers') PROVE FALSE
    BY <1>1
  <2>1. h[1] < h[2] /\ h[1] \in 1 .. 1 /\ h[2] \in 1 .. 1
    BY <1>1, <1>2, <1>5
  <2> QED BY <2>1
<1>6. ASSUME answers = <<>> PROVE answers' = <<>>
  <2>1. Len(answers) = 0
    BY <1>6
  <2>2. Len(answers') = 0
    BY <1>1, <1>2, <2>1
  <2> QED BY <2>2 DEF AnswersTyped
<1> QED BY <1>1, <1>2, <1>3, <1>4, <1>5, <1>6

LEMMA QuietKeeps ==
    ASSUME Typed, AnswersTyped', DoneInv, QuietStep
    PROVE  DoneInv'
<1>1. PICK h : Thins(h)
  BY DEF QuietStep
<1>2. /\ UNCHANGED <<verdict, request, chip, ub, job, fs, flash>> /\ wire' \in {wire, None}
      /\ deceived => deceived'
  BY DEF QuietStep, stub
<1>3. /\ Due' = Due /\ Latest' = Latest /\ Older' = Older /\ NoBegin' = NoBegin
      /\ (Block = Block') /\ AtFiles' = AtFiles /\ Before' = Before /\ FilesDone' = FilesDone
      /\ \A op : DueIs(op)' = DueIs(op)
      /\ \A op : Left(op)' = Left(op)
      /\ \A ops : Running(ops)' = Running(ops)
      /\ \A f : Written(f)' = Written(f)
  BY <1>2 DEF Due, Latest, Older, NoBegin, Block, AtFiles, Running, Before, FilesDone, DueIs, Left, Written
<1>4. AnswersTyped
  BY DEF Typed
<1>5. \A i \in DOMAIN answers' :
         /\ h[i] \in DOMAIN answers
         /\ NoBeginAfter(h[i]) => NoBeginAfter(i)'
         /\ h[i] = Len(answers) => i = Len(answers')
         /\ Len(answers) = 1 => Len(answers') = 1
         /\ answers'[i].op = answers[h[i]].op /\ answers'[i].hash = answers[h[i]].hash
         /\ answers'[i].op = "BEGIN" /\ answers'[i].ok /\ ~deceived' => answers[h[i]].ok
         /\ SyncBefore(i)' => SyncBefore(h[i])
  <2>1. DOMAIN answers' = 1 .. Len(answers')
    BY DEF AnswersTyped
  <2> TAKE i \in DOMAIN answers'
  <2>2. /\ h[i] \in DOMAIN answers
        /\ NoBeginAfter(h[i]) => NoBeginAfter(i)'
        /\ h[i] = Len(answers) => i = Len(answers')
        /\ Len(answers) = 1 => Len(answers') = 1
    BY <1>1, <1>4, ThinsKeep
  <2>3. /\ answers'[i].op = answers[h[i]].op /\ answers'[i].hash = answers[h[i]].hash
        /\ answers'[i].op = "BEGIN" /\ answers'[i].ok /\ ~deceived' => answers[h[i]].ok
        /\ SyncBefore(i)' => SyncBefore(h[i])
    BY <1>1, <2>1 DEF Thins
  <2> QED BY <2>2, <2>3
<1>6. /\ answers = <<>> => answers' = <<>>
      /\ SyncBefore(Len(answers) + 1)' => SyncBefore(Len(answers) + 1)
  BY <1>1, <1>4, ThinsKeep DEF Thins
<1> USE DEF DoneInv
<1>7. Sent'
  BY <1>2 DEF Sent
<1>8. AfterSync'
  BY <1>2, <1>3, <1>5, <1>6 DEF AfterSync
<1>9. AfterRead'
  BY <1>2, <1>3, <1>5, <1>6 DEF AfterRead
<1>10. AfterGreeting'
  BY <1>2, <1>3, <1>5, <1>6 DEF AfterGreeting
<1>16. job.stage = "took" => DueIs(Block.op)
  BY DEF Due, DueIs, Block
<1>11. AfterBegin'
  <2> SUFFICES ASSUME Running({"BEGIN"}), request.file = 1
               PROVE  /\ wire' # None => (\A i \in DOMAIN answers' : answers'[i].op # "BEGIN") /\ ~DueIs("BEGIN")
                      /\ wire' = None /\ job.stage = "took" /\ Block.op = "BEGIN" =>
                            job.buf # ub.reading \/ ub.slip = "body"
                      /\ \A i \in DOMAIN answers' : answers'[i].op = "BEGIN" =>
                            i = Len(answers') /\ wire' = None /\ Due = {} /\ chip = "stub" /\ Left("BEGIN")
    BY <1>2, <1>3 DEF AfterBegin
  <2>1. /\ wire # None => (\A i \in DOMAIN answers : answers[i].op # "BEGIN") /\ ~DueIs("BEGIN")
        /\ wire = None /\ job.stage = "took" /\ Block.op = "BEGIN" =>
                job.buf # ub.reading \/ ub.slip = "body"
        /\ \A i \in DOMAIN answers : answers[i].op = "BEGIN" =>
                i = Len(answers) /\ wire = None /\ Due = {} /\ chip = "stub" /\ Left("BEGIN")
    BY DEF AfterBegin
  <2> QED BY <1>2, <1>5, <1>16, <2>1
<1>12. OneThing'
  <2> SUFFICES ASSUME AtFiles
               PROVE  /\ chip \in {"stub", "starting"}
                      /\ wire' # None => chip = "stub" /\ Due = {} /\ answers' = <<>>
                      /\ Due # {} => answers' = <<>> /\ Due = {ub.command}
                      /\ \A i \in DOMAIN answers' :
                            answers'[i].op = request.op => Len(answers') = 1 /\ chip = "stub"
    BY <1>2, <1>3 DEF OneThing
  <2> QED BY <1>2, <1>5, <1>6 DEF OneThing
<1>17. AtFiles /\ MayAnswer' => MayAnswer /\ wire' = wire
  BY <1>2, <1>3, <1>5, <1>6 DEF MayAnswer, OneThing, DueIs
<1>13. InBuffers'
  <2>1. (Left(Before)' <=> Left(Before)) /\ (Left(request.op)' <=> Left(request.op))
    BY <1>2, <1>3 DEF Left
  <2>2. AtFiles /\ MayAnswer' =>
           /\ wire' # None => Left(Before)'
           /\ wire' = None => Left(request.op)'
           /\ wire' = None /\ request.op \in {"BEGIN", "MD5"} => Latest'.file = request.file
    BY <1>3, <1>17, <2>1 DEF InBuffers
  <2>3. AtFiles' /\ MayAnswer' =>
           /\ wire' # None => Left(Before)'
           /\ wire' = None => Left(request.op)'
           /\ wire' = None /\ request'.op \in {"BEGIN", "MD5"} => Latest'.file = request'.file
    BY <1>2, <1>3, <2>2
  <2> QED BY <2>3 DEF InBuffers
<1>14. InPlace'
  <2> SUFFICES ASSUME AtFiles, MayAnswer', ~deceived'
               PROVE  /\ \A f \in FilesDone : Written(f)
                      /\ request.op \in {"BEGIN", "LEAVE", "END"} => job.stage # "write"
                      /\ request.op \in {"DATA", "READ", "MD5"} /\ request.file # 1 =>
                            Within(fs, Sectors(request.file))
                      /\ \A i \in DOMAIN answers' : answers'[i].op = request.op =>
                            /\ request.op = "BEGIN" /\ answers'[i].ok => Within(fs, Sectors(request.file))
                            /\ request.op = "MD5" =>
                                  /\ job.stage # "write"
                                  /\ answers'[i].hash = Image(request.file) => Written(request.file)
    BY <1>2, <1>3 DEF InPlace, Written, Within
  <2> QED BY <1>2, <1>5, <1>17 DEF InPlace
<1>15. Finished'
  BY <1>2, <1>3, <1>5, <1>6 DEF Finished
<1> QED BY <1>7, <1>8, <1>9, <1>10, <1>11, <1>12, <1>13, <1>14, <1>15

-------------------------------------------------------------------------------
(* The stub executes a command and answers it.                                   *)

\* One thing at most is due, and the two buffers are the latest and the older.
LEMMA DueIsOne ==
    ASSUME Typed
    PROVE  /\ \/ job.stage = "took" /\ job.buf \in 1 .. 2 /\ Due = {job.buf} /\ ub.command \in 1 .. 2
              \/ job.stage # "took" /\ ub.command = None /\ Due = {}
              \/ job.stage # "took" /\ ub.command \in 1 .. 2 /\ Due = {ub.command}
           /\ ub.command \in 1 .. 2 => /\ ub.command = OtherBuffer(ub.reading)
                                       /\ ub.command # ub.reading
                                       /\ ub.buf[ub.command] = Latest
           /\ ub.reading \in 1 .. 2 /\ Older = ub.buf[ub.reading]
           /\ NoBegin <=> Latest.op # "BEGIN" /\ Older.op # "BEGIN"
<1>1. ub \in UbType /\ job \in JobType /\ Ordered(ub) /\ (job.stage = "took" => ub.command # None)
  BY OrderParts DEF Typed, StubTyped
<1>2. /\ ub.reading \in 1 .. 2 /\ ub.command \in {1, 2, None} /\ job.buf \in 1 .. 2
      /\ None # 1 /\ None # 2
  BY <1>1, NoneTypes DEF UbType, JobType
<1>3. OtherBuffer(ub.reading) \in 1 .. 2 /\ OtherBuffer(ub.reading) # ub.reading
  BY <1>2, Others
<1>4. \/ job.stage = "took" /\ job.buf \in 1 .. 2 /\ Due = {job.buf} /\ ub.command \in 1 .. 2
      \/ job.stage # "took" /\ ub.command = None /\ Due = {}
      \/ job.stage # "took" /\ ub.command \in 1 .. 2 /\ Due = {ub.command}
  BY <1>1, <1>2 DEF Due
<1>5. ub.command \in 1 .. 2 => ub.command = OtherBuffer(ub.reading) /\ ub.buf[ub.command] = Latest
  BY <1>1, <1>2 DEF Ordered, Latest
<1>6. NoBegin <=> Latest.op # "BEGIN" /\ Older.op # "BEGIN"
  BY <1>2, <1>3 DEF NoBegin, Latest, Older
<1> QED BY <1>2, <1>3, <1>4, <1>5, <1>6 DEF Older

LEMMA NewUartBuffers ==
    ub = NewUart => Latest.op = "none" /\ Older.op = "none" /\ NoBegin /\ ub.command = None
BY DEF NewUart, Latest, Older, NoBegin, OtherBuffer, Frame

\* Answers come after those that there are.
Grows(op) ==
    /\ Len(answers') > Len(answers)
    /\ \A i \in 1 .. Len(answers) : answers'[i] = answers[i]
    /\ \A i \in Len(answers) + 1 .. Len(answers') : answers'[i].op = op
    /\ op # "SYNC" => Len(answers') = Len(answers) + 1

\* The stub executes what was due.
Executes ==
    /\ chip = "stub" /\ job.stage = "took"
    /\ UNCHANGED <<verdict, request, got, wire, flash>> /\ (deceived => deceived')
    /\ Block.op # "OHAI" /\ Grows(Block.op)
    /\ job'.stage # "took" /\ (job'.stage = "write" => Block.op = "DATA")
    /\ ub'.command = None
    /\ \/ ub'.slip = ub.slip /\ ub'.reading = ub.reading /\ ub'.buf = ub.buf /\ chip' = "stub"
       \/ Block.op = "MEM_END" /\ ub' = NewUart /\ chip' = "starting"
    /\ Block.op \in {"DATA", "READ", "MD5"} => fs' = fs
    /\ LET a == answers'[Len(answers')]
           f == Block.file
       IN /\ Block.op = "BEGIN" /\ a.ok /\ ~deceived' => fs' = Begun(File[f].at, Size(f))
          /\ Block.op = "MD5" /\ ~deceived' =>
                \A i \in 1 .. Size(f) : a.hash[i] = flash[File[f].at + i - 1]

LEMMA GrowsKeep ==
    ASSUME AnswersTyped, AnswersTyped', NEW op, Grows(op)
    PROVE  /\ \A i \in DOMAIN answers' :
                \/ i \in DOMAIN answers /\ answers'[i] = answers[i]
                \/ i \notin DOMAIN answers /\ answers'[i].op = op
                     /\ (op # "SYNC" => i = Len(answers') /\ i = Len(answers) + 1)
           /\ \A i \in DOMAIN answers :
                 /\ op # "BEGIN" /\ NoBeginAfter(i) => NoBeginAfter(i)'
                 /\ SyncBefore(i)' /\ got' = got => SyncBefore(i)
           /\ \A i \in DOMAIN answers' \ DOMAIN answers :
                 /\ i = Len(answers') => NoBeginAfter(i)'
                 /\ op # "BEGIN" => NoBeginAfter(i)'
                 /\ op # "SYNC" /\ SyncBefore(i)' /\ got' = got => SyncBefore(Len(answers) + 1)
           /\ op # "SYNC" /\ SyncBefore(Len(answers) + 1)' /\ got' = got => SyncBefore(Len(answers) + 1)
<1> DEFINE m == Len(answers)
           n == Len(answers')
<1>1. /\ m \in Nat /\ DOMAIN answers = 1 .. m
      /\ n \in Nat /\ DOMAIN answers' = 1 .. n
  BY DEF AnswersTyped
<1>2. /\ n > m
      /\ \A i \in 1 .. m : answers'[i] = answers[i]
      /\ \A i \in m + 1 .. n : answers'[i].op = op
      /\ op # "SYNC" => n = m + 1
  BY DEF Grows
<1>3. /\ \A i : NoBeginAfter(i) <=> \A j \in i + 1 .. m : answers[j].op # "BEGIN"
      /\ \A i : NoBeginAfter(i)' <=> \A j \in i + 1 .. n : answers'[j].op # "BEGIN"
      /\ \A i : SyncBefore(i) <=> got > 0 \/ \E j \in 1 .. i - 1 : answers[j].op = "SYNC"
      /\ \A i : SyncBefore(i)' <=> got' > 0 \/ \E j \in 1 .. i - 1 : answers'[j].op = "SYNC"
      /\ SyncBefore(m + 1) <=> got > 0 \/ \E j \in 1 .. (m + 1) - 1 : answers[j].op = "SYNC"
      /\ SyncBefore(Len(answers) + 1)' <=> got' > 0 \/ \E j \in 1 .. (n + 1) - 1 : answers'[j].op = "SYNC"
  BY DEF NoBeginAfter, SyncBefore
<1> HIDE DEF m, n
<1>4. \A i \in 1 .. n :
         \/ i \in 1 .. m /\ answers'[i] = answers[i]
         \/ i \notin 1 .. m /\ answers'[i].op = op /\ (op # "SYNC" => i = n /\ i = m + 1)
  BY <1>1, <1>2
<1>5. ASSUME NEW i \in 1 .. m
      PROVE  /\ op # "BEGIN" /\ NoBeginAfter(i) => NoBeginAfter(i)'
             /\ SyncBefore(i)' /\ got' = got => SyncBefore(i)
  <2>1. \A j \in 1 .. i - 1 : answers'[j] = answers[j]
    BY <1>1, <1>2
  <2>2. \A j \in i + 1 .. n : (j \in i + 1 .. m /\ answers'[j] = answers[j]) \/ answers'[j].op = op
    BY <1>1, <1>4
  <2> QED BY <1>3, <2>1, <2>2
<1>6. ASSUME NEW i \in 1 .. n, i \notin 1 .. m
      PROVE  /\ i = n => NoBeginAfter(i)'
             /\ op # "BEGIN" => NoBeginAfter(i)'
             /\ op # "SYNC" /\ SyncBefore(i)' /\ got' = got => SyncBefore(m + 1)
  <2>1. i = n => i + 1 .. n = {}
    BY <1>1
  <2>2. \A j \in i + 1 .. n : answers'[j].op = op
    BY <1>1, <1>2, <1>6
  <2>3. \A j \in 1 .. i - 1 : (j \in 1 .. (m + 1) - 1 /\ answers'[j] = answers[j]) \/ answers'[j].op = op
    BY <1>1, <1>4
  <2> QED BY <1>3, <2>1, <2>2, <2>3
<1>7. op # "SYNC" /\ SyncBefore(Len(answers) + 1)' /\ got' = got => SyncBefore(m + 1)
  <2>1. \A j \in 1 .. (n + 1) - 1 : (j \in 1 .. (m + 1) - 1 /\ answers'[j] = answers[j]) \/ answers'[j].op = op
    BY <1>1, <1>4
  <2> QED BY <1>3, <2>1
<1> QED BY <1>1, <1>4, <1>5, <1>6, <1>7 DEF m, n

LEMMA NoBeginIs == Typed => (NoBegin <=> Latest.op # "BEGIN" /\ Older.op # "BEGIN")
BY DueIsOne

LEMMA ExecutesKeeps ==
    ASSUME Typed, Typed', DoneInv, Executes
    PROVE  DoneInv'
<1> DEFINE op == Block.op
<1>1. /\ chip = "stub" /\ job.stage = "took"
      /\ verdict' = verdict /\ request' = request /\ got' = got /\ wire' = wire
      /\ flash' = flash /\ (deceived => deceived')
      /\ op # "OHAI" /\ job'.stage # "took" /\ (job'.stage = "write" => op = "DATA")
      /\ chip' \in {"stub", "starting"} /\ (op # "MEM_END" => chip' = "stub")
  BY DEF Executes
<1>2. /\ Due = {job.buf} /\ (\A o : DueIs(o) <=> op = o) /\ job.buf \in 1 .. 2
      /\ ub.command \in 1 .. 2 /\ ub.command = OtherBuffer(ub.reading) /\ ub.buf[ub.command] = Latest
      /\ ub.command # ub.reading /\ ub.reading \in 1 .. 2 /\ Older = ub.buf[ub.reading]
      /\ (NoBegin <=> Latest.op # "BEGIN" /\ Older.op # "BEGIN")
  BY <1>1, DueIsOne DEF DueIs, Block
<1>3. Due' = {} /\ (\A o : ~DueIs(o)')
  BY <1>1, NoneTypes DEF Due, DueIs, Executes
<1>4. \/ /\ Latest' = Latest /\ Older' = Older /\ ub'.slip = ub.slip
         /\ ub'.buf = ub.buf /\ chip' = "stub" /\ ub'.reading = ub.reading
      \/ op = "MEM_END" /\ Latest'.op = "none" /\ Older'.op = "none"
  <2>1. ub' = NewUart => Latest'.op = "none" /\ Older'.op = "none"
    BY DEF NewUart, Latest, Older, OtherBuffer, Frame
  <2>2. \/ ub'.slip = ub.slip /\ ub'.reading = ub.reading /\ ub'.buf = ub.buf /\ chip' = "stub"
        \/ op = "MEM_END" /\ ub' = NewUart
    BY DEF Executes
  <2>3. ub'.reading = ub.reading /\ ub'.buf = ub.buf => Latest' = Latest /\ Older' = Older
    BY DEF Latest, Older
  <2> QED BY <2>1, <2>2, <2>3
<1>5. /\ NoBegin' <=> Latest'.op # "BEGIN" /\ Older'.op # "BEGIN"
      /\ op = "BEGIN" => ~NoBegin
  <2>1. (NoBegin <=> Latest.op # "BEGIN" /\ Older.op # "BEGIN")'
    BY NoBeginIs, PTL
  <2>2. op = "BEGIN" => ~NoBegin
    BY <1>2 DEF NoBegin, Block
  <2> QED BY <2>1, <2>2
<1>6. /\ \A i \in DOMAIN answers' :
             \/ i \in DOMAIN answers /\ answers'[i] = answers[i]
             \/ i \notin DOMAIN answers /\ answers'[i].op = op
                  /\ (op # "SYNC" => i = Len(answers') /\ i = Len(answers) + 1)
      /\ \A i \in DOMAIN answers :
            /\ op # "BEGIN" /\ NoBeginAfter(i) => NoBeginAfter(i)'
            /\ SyncBefore(i)' => SyncBefore(i)
      /\ \A i \in DOMAIN answers' \ DOMAIN answers :
            /\ i = Len(answers') => NoBeginAfter(i)'
            /\ op # "BEGIN" => NoBeginAfter(i)'
            /\ op # "SYNC" /\ SyncBefore(i)' => SyncBefore(Len(answers) + 1)
      /\ op # "SYNC" /\ SyncBefore(Len(answers) + 1)' => SyncBefore(Len(answers) + 1)
  BY <1>1, GrowsKeep DEF Executes, Typed
<1>7. /\ \A ops : Running(ops)' <=> Running(ops)
      /\ AtFiles' <=> AtFiles
      /\ Before' = Before /\ FilesDone' = FilesDone
      /\ \A f : Written(f)' <=> Written(f)
  BY <1>1 DEF Running, AtFiles, Before, FilesDone, Written
<1> HIDE DEF op
<1> USE DEF DoneInv
<1>8. Sent'
  BY <1>1 DEF Sent
<1>9. AfterSync'
  <2> SUFFICES ASSUME Running({"SYNC"})
               PROVE  /\ SyncBefore(Len(answers) + 1)' /\ wire # None =>
                            NoBegin' \/ \E b \in 1 .. 2 : ub'.buf[b].op = "SYNC"
                      /\ \A i \in DOMAIN answers' :
                            SyncBefore(i)' /\ answers'[i].op # "SYNC" =>
                              \/ NoBegin' /\ NoBeginAfter(i)'
                              \/ i = Len(answers') /\ wire = None /\ Older'.op # "BEGIN"
    BY <1>1, <1>3, <1>7 DEF AfterSync
  <2>1. /\ SyncBefore(Len(answers) + 1) =>
              /\ wire # None => NoBegin
              /\ wire = None /\ op # "SYNC" => NoBegin \/ Older.op # "BEGIN"
        /\ \A i \in DOMAIN answers :
              SyncBefore(i) /\ answers[i].op # "SYNC" => NoBegin /\ NoBeginAfter(i)
    BY <1>2 DEF AfterSync
  <2>2. NoBegin => NoBegin'
    BY <1>2, <1>4, <1>5
  <2>3. op = "SYNC" => \E b \in 1 .. 2 : ub'.buf[b].op = "SYNC"
    BY <1>2, <1>4 DEF op, Block
  <2>4. Older.op # "BEGIN" => Older'.op # "BEGIN"
    BY <1>4
  <2> QED BY <1>5, <1>6, <2>1, <2>2, <2>3, <2>4
<1>10. AfterRead'
  <2> SUFFICES ASSUME Running({"READ"}), request.file = 0, NEW i \in DOMAIN answers',
                      answers'[i].op = "READ"
               PROVE  NoBeginAfter(i)' /\ (NoBegin' \/ wire = None \/ Older'.op # "BEGIN")
    BY <1>1, <1>3, <1>7 DEF AfterRead
  <2>1. /\ wire # None /\ op = "READ" => NoBegin \/ Older.op # "BEGIN"
        /\ i \in DOMAIN answers /\ answers[i].op = "READ" =>
              NoBeginAfter(i) /\ (NoBegin \/ (wire = None /\ op # "BEGIN"))
    BY <1>2 DEF AfterRead
  <2>2. (NoBegin => NoBegin') /\ (Older.op # "BEGIN" => Older'.op # "BEGIN")
    BY <1>2, <1>4, <1>5
  <2> QED BY <1>5, <1>6, <2>1, <2>2
<1>11. AfterGreeting'
  <2> SUFFICES ASSUME Running({"SYNC", "MEM", "MEM_END", "OHAI"}) \/ (Running({"READ"}) /\ request.file = 0),
                      NEW i \in DOMAIN answers', answers'[i].op = "OHAI"
               PROVE  NoBegin' /\ NoBeginAfter(i)'
    BY <1>1, <1>7 DEF AfterGreeting
  <2>1. i \in DOMAIN answers /\ answers[i].op = "OHAI"
    BY <1>1, <1>6
  <2> QED BY <1>2, <1>4, <1>5, <1>6, <2>1 DEF AfterGreeting
<1>12. AfterBegin'
  <2> SUFFICES ASSUME Running({"BEGIN"}), request.file = 1
               PROVE  /\ wire # None => \A i \in DOMAIN answers' : answers'[i].op # "BEGIN"
                      /\ \A i \in DOMAIN answers' : answers'[i].op = "BEGIN" =>
                            i = Len(answers') /\ wire = None /\ chip' = "stub" /\ Left("BEGIN")'
    BY <1>1, <1>3, <1>7 DEF AfterBegin
  <2>1. /\ wire # None => (\A i \in DOMAIN answers : answers[i].op # "BEGIN") /\ op # "BEGIN"
        /\ wire = None /\ op = "BEGIN" => job.buf # ub.reading \/ ub.slip = "body"
        /\ \A i \in DOMAIN answers : answers[i].op # "BEGIN"
    BY <1>1, <1>2 DEF AfterBegin, op
  <2>2. op = "BEGIN" /\ (job.buf # ub.reading \/ ub.slip = "body") => Left("BEGIN")'
    <3>1. Latest = ub.buf[OtherBuffer(ub.reading)] /\ Block = ub.buf[job.buf]
      BY DEF Latest, Block
    <3>2. job.buf = OtherBuffer(ub.reading) \/ job.buf = ub.reading
      BY <1>2
    <3>3. op = "BEGIN" => Latest' = Latest /\ Older' = Older /\ ub'.slip = ub.slip
      BY <1>4
    <3> QED BY <1>2, <3>1, <3>2, <3>3 DEF Left, op
  <2> QED BY <1>1, <1>6, <2>1, <2>2
<1>13. OneThing'
  <2> SUFFICES ASSUME AtFiles
               PROVE  /\ wire = None
                      /\ \A i \in DOMAIN answers' :
                            answers'[i].op = request.op => Len(answers') = 1 /\ chip' = "stub"
    BY <1>1, <1>3, <1>7 DEF OneThing
  <2>1. wire = None /\ answers = <<>>
    BY <1>2 DEF OneThing
  <2>2. request.op \notin {"SYNC", "MEM_END"}
    BY DEF AtFiles, Running
  <2>3. Len(answers) = 0 /\ DOMAIN answers = {}
    BY <2>1
  <2>4. op \notin {"SYNC", "MEM_END"} => \A i \in DOMAIN answers' : i = Len(answers') /\ i = 1
    BY <1>6, <2>3
  <2>5. \A i \in DOMAIN answers' : answers'[i].op = op
    BY <1>6, <2>3
  <2> QED BY <1>1, <2>1, <2>2, <2>4, <2>5
<1>14. AtFiles /\ MayAnswer' => /\ wire = None /\ answers = <<>> /\ op = request.op /\ MayAnswer
                                /\ Block = Latest
                                /\ Latest' = Latest /\ Older' = Older /\ ub'.slip = ub.slip
  <2> SUFFICES ASSUME AtFiles, MayAnswer'
               PROVE  /\ wire = None /\ answers = <<>> /\ op = request.op /\ MayAnswer
                      /\ Block = Latest
                      /\ Latest' = Latest /\ Older' = Older /\ ub'.slip = ub.slip
    OBVIOUS
  <2>1. wire = None /\ answers = <<>> /\ Due = {ub.command}
    BY <1>2 DEF OneThing
  <2>2. request.op \notin {"SYNC", "MEM_END"}
    BY DEF AtFiles, Running
  <2>3. \E i \in DOMAIN answers' : answers'[i].op = request.op
    BY <1>1, <1>3, <2>1 DEF MayAnswer
  <2>4. op = request.op
    BY <1>6, <2>1, <2>3
  <2>5. Block = Latest
    BY <1>2, <2>1 DEF Block
  <2> QED BY <1>2, <1>4, <2>1, <2>2, <2>4, <2>5 DEF MayAnswer
<1>15. InBuffers'
  <2> SUFFICES ASSUME AtFiles, MayAnswer'
               PROVE  /\ Left(request.op)'
                      /\ request.op \in {"BEGIN", "MD5"} => Latest'.file = request.file
    BY <1>1, <1>7, <1>14 DEF InBuffers
  <2>1. Left(request.op) /\ (request.op \in {"BEGIN", "MD5"} => Latest.file = request.file)
    BY <1>14 DEF InBuffers
  <2> QED BY <1>1, <1>14, <2>1 DEF Left
<1>16. InPlace'
  <2> SUFFICES ASSUME AtFiles, MayAnswer', ~deceived, ~deceived'
               PROVE  /\ \A f \in FilesDone : Written(f)
                      /\ request.op \in {"BEGIN", "LEAVE", "END"} => job'.stage # "write"
                      /\ request.op \in {"DATA", "READ", "MD5"} /\ request.file # 1 =>
                            Within(fs', Sectors(request.file))
                      /\ \A i \in DOMAIN answers' : answers'[i].op = request.op =>
                            /\ request.op = "BEGIN" /\ answers'[i].ok => Within(fs', Sectors(request.file))
                            /\ request.op = "MD5" =>
                                  /\ job'.stage # "write"
                                  /\ answers'[i].hash = Image(request.file) => Written(request.file)
    BY <1>1, <1>7 DEF InPlace, Within, Written
  <2>1. /\ \A f \in FilesDone : Written(f)
        /\ request.op \in {"DATA", "READ", "MD5"} /\ request.file # 1 => Within(fs, Sectors(request.file))
    BY <1>14 DEF InPlace
  <2>2. /\ op = request.op /\ Block = Latest
        /\ request.op \in {"BEGIN", "MD5"} => Block.file = request.file /\ Block.file \in DOMAIN File
    <3>1. request.op \in {"BEGIN", "MD5"} => Latest.file = request.file
      BY <1>14 DEF InBuffers
    <3> QED BY <1>14, <3>1, BlockType, FrameType DEF Typed, op
  <2>3. /\ op \in {"DATA", "READ", "MD5"} => fs' = fs
        /\ op = "BEGIN" /\ answers'[Len(answers')].ok =>
             fs' = Begun(File[Block.file].at, Size(Block.file))
        /\ op = "MD5" => \A i \in 1 .. Size(Block.file) :
                           answers'[Len(answers')].hash[i] = flash[File[Block.file].at + i - 1]
    BY DEF Executes, op
  <2>4. \A i \in DOMAIN answers' : answers'[i].op = request.op => i = Len(answers')
    <3>1. request.op # "SYNC"
      BY DEF AtFiles, Running
    <3> QED BY <1>6, <1>14, <2>2, <3>1
  <2>5. \A f \in DOMAIN File : Within(Begun(File[f].at, Size(f)), Sectors(f))
    BY BegunGood DEF Good
  <2>6. ASSUME op = "MD5", answers'[Len(answers')].hash = Image(request.file)
        PROVE  Written(request.file)
    <3>1. \A i \in 1 .. Size(request.file) : Image(request.file)[i] = <<request.file, i>>
      BY DEF Image
    <3> QED BY <2>2, <2>3, <2>6, <3>1 DEF Written
  <2> QED BY <1>1, <2>1, <2>2, <2>3, <2>4, <2>5, <2>6
<1>17. Finished'
  <2>1. verdict # "done"
    BY <1>2 DEF Finished
  <2> QED BY <1>1, <2>1 DEF Finished
<1> QED BY <1>8, <1>9, <1>10, <1>11, <1>12, <1>13, <1>15, <1>16, <1>17

-------------------------------------------------------------------------------
(* The stub writes.                                                              *)

\* A step of the stub that reads no command and answers none.
Idles ==
    /\ chip = "stub"
    /\ UNCHANGED <<verdict, request, got, wire, chip, ub, answers>> /\ (deceived' <=> deceived)
    /\ StubTakes \/ StubHasTooMuch \/ StubInflates(TRUE) \/ StubInflates(FALSE)
         \/ StubInflatesGarbage(FALSE)

\* The files that are not at hand stay as they are.
LEMMA WrittenStays ==
    ASSUME NEW g \in DOMAIN File, KeepsOthers(flash, flash', Sectors(g)),
           NEW f \in DOMAIN File, f # g, Written(f)
    PROVE  Written(f)'
<1> SUFFICES ASSUME NEW i \in 1 .. Size(f) PROVE flash'[File[f].at + i - 1] = <<f, i>>
  BY DEF Written
<1> DEFINE u == File[f].at + i - 1
<1>1. File[f].at \in Nat /\ Size(f) \in Nat /\ Place(f) \subseteq Unit
  BY FileType
<1>2. u \in Place(f)
  BY <1>1 DEF Place
<1>3. u \in Unit /\ Sector(u) \in Sectors(f)
  BY <1>1, <1>2 DEF Sectors
<1>4. Sector(u) \notin Sectors(g)
  BY <1>3, FilesAssumption DEF FilesAssumption
<1>5. flash'[u] = flash[u]
  BY <1>3, <1>4 DEF KeepsOthers
<1> HIDE DEF u
<1>6. flash[u] = <<f, i>>
  BY DEF Written, u
<1> QED BY <1>5, <1>6 DEF u

LEMMA IdlesWhat ==
    ASSUME Typed, Idles
    PROVE  /\ Due' = Due
           /\ \/ /\ job.stage # "write" /\ UNCHANGED <<fs, flash>>
                 /\ job'.stage = "took" /\ job'.buf = ub.command /\ ub.command \in 1 .. 2
              \/ /\ job.stage = "write" /\ job'.stage # "took"
                 /\ \A G : Good(fs, G) => Good(fs', G) /\ KeepsOthers(flash, flash', G)
<1>1. ub' = ub
  BY DEF Idles
<1>2. CASE StubTakes
  <2>1. job.stage = "wait" /\ ub.command # None /\ job' = [job EXCEPT !.stage = "took", !.buf = ub.command]
        /\ UNCHANGED <<fs, flash>>
    BY <1>2 DEF StubTakes
  <2>2. job \in JobType /\ ub \in UbType
    BY DEF Typed, StubTyped
  <2>3. job'.stage = "took" /\ job'.buf = ub.command
    BY <2>1, <2>2 DEF JobType
  <2>4. ub.command \in 1 .. 2
    BY <2>1, <2>2 DEF UbType
  <2>5. Due' = Due
    BY <1>1, <2>1, <2>3 DEF Due
  <2> QED BY <2>1, <2>3, <2>4, <2>5
<1>3. CASE StubHasTooMuch \/ StubInflates(TRUE) \/ StubInflates(FALSE) \/ StubInflatesGarbage(FALSE)
  <2>1. job.stage = "write" /\ job \in JobType
    BY <1>3 DEF StubHasTooMuch, StubInflates, StubInflatesGarbage, Typed, StubTyped
  <2>2. job'.stage # "took"
    BY <1>3, <2>1 DEF StubHasTooMuch, StubInflates, StubInflatesGarbage, Round, JobType
  <2>3. Due' = Due
    BY <1>1, <2>1, <2>2 DEF Due
  <2>4. ASSUME NEW G, Good(fs, G) PROVE Good(fs', G) /\ KeepsOthers(flash, flash', G)
    <3>1. CASE StubHasTooMuch
      <4>1. fs' = [fs EXCEPT !.last_error = TRUE] /\ flash' = flash
        BY <3>1 DEF StubHasTooMuch
      <4>2. \A s : Good(s, G) => Good([s EXCEPT !.last_error = TRUE], G)
        BY DEF Good, FlashingState, Within
      <4> QED BY <2>4, <4>1, <4>2 DEF KeepsOthers
    <3>2. CASE StubInflates(TRUE) \/ StubInflates(FALSE)
      <4>1. PICK fails \in BOOLEAN : StubInflates(fails)
        BY <3>2
      <4> QED BY <2>4, <4>1, InflatesKeeps DEF Typed
    <3>3. CASE StubInflatesGarbage(FALSE)
      BY <2>4, <3>3, GarbageKeeps DEF Typed
    <3> QED BY <1>3, <3>1, <3>2, <3>3
  <2> QED BY <2>1, <2>2, <2>3, <2>4
<1> QED BY <1>2, <1>3 DEF Idles

LEMMA IdlesKeeps ==
    ASSUME Typed, DoneInv, Idles
    PROVE  DoneInv'
<1>1. /\ chip = "stub" /\ verdict' = verdict /\ request' = request /\ got' = got /\ wire' = wire
      /\ chip' = chip /\ ub' = ub /\ answers' = answers /\ (deceived' <=> deceived)
  BY DEF Idles
<1>2. Due' = Due
  BY IdlesWhat
<1>3. /\ Latest' = Latest /\ Older' = Older /\ NoBegin' = NoBegin
      /\ \A op : DueIs(op)' = DueIs(op)
      /\ \A op : Left(op)' = Left(op)
      /\ \A ops : Running(ops)' = Running(ops)
      /\ \A i : NoBeginAfter(i)' = NoBeginAfter(i)
      /\ \A i : SyncBefore(i)' = SyncBefore(i)
      /\ AtFiles' = AtFiles /\ Before' = Before /\ FilesDone' = FilesDone
  BY <1>1, <1>2 DEF Latest, Older, NoBegin, DueIs, Left, Running, NoBeginAfter, SyncBefore, AtFiles,
                    Before, FilesDone
<1> USE DEF DoneInv
<1>4. Sent'
  BY <1>1 DEF Sent
<1>5. AfterSync'
  <2>1. SyncBefore(Len(answers) + 1)' = SyncBefore(Len(answers) + 1)
    BY <1>1 DEF SyncBefore
  <2> QED BY <1>1, <1>2, <1>3, <2>1 DEF AfterSync
<1>6. AfterRead'
  BY <1>1, <1>2, <1>3 DEF AfterRead
<1>7. AfterGreeting'
  BY <1>1, <1>2, <1>3 DEF AfterGreeting
<1>8. AfterBegin'
  <2>1. job'.stage = "took" => job'.buf # ub.reading
    BY IdlesWhat, DueIsOne
  <2> QED BY <1>1, <1>2, <1>3, <2>1 DEF AfterBegin
<1>9. OneThing'
  BY <1>1, <1>2, <1>3 DEF OneThing
<1>10. MayAnswer' = MayAnswer
  BY <1>1, <1>2, <1>3 DEF MayAnswer, DueIs
<1>11. InBuffers'
  <2>1. (Left(Before)' <=> Left(Before)) /\ (Left(request.op)' <=> Left(request.op))
    BY <1>1, <1>3 DEF Left
  <2>2. AtFiles /\ MayAnswer =>
           /\ wire # None => Left(Before)'
           /\ wire = None => Left(request.op)'
           /\ wire = None /\ request.op \in {"BEGIN", "MD5"} => Latest.file = request.file
    BY <2>1 DEF InBuffers
  <2> QED BY <1>1, <1>3, <1>10, <2>2 DEF InBuffers
<1>12. InPlace'
  <2> SUFFICES ASSUME AtFiles, MayAnswer, ~deceived
               PROVE  /\ \A f \in FilesDone : Written(f)'
                      /\ request.op \in {"BEGIN", "LEAVE", "END"} => job'.stage # "write"
                      /\ request.op \in {"DATA", "READ", "MD5"} /\ request.file # 1 =>
                            Within(fs', Sectors(request.file))
                      /\ \A i \in DOMAIN answers : answers[i].op = request.op =>
                            /\ request.op = "BEGIN" /\ answers[i].ok => Within(fs', Sectors(request.file))
                            /\ request.op = "MD5" =>
                                  /\ job'.stage # "write"
                                  /\ answers[i].hash = Image(request.file) => Written(request.file)'
    BY <1>1, <1>3, <1>10 DEF InPlace, Within, Written
  <2>1. /\ \A f \in FilesDone : Written(f)
        /\ request.op \in {"BEGIN", "LEAVE", "END"} => job.stage # "write"
        /\ request.op \in {"DATA", "READ", "MD5"} /\ request.file # 1 => Within(fs, Sectors(request.file))
        /\ \A i \in DOMAIN answers : answers[i].op = request.op =>
              /\ request.op = "BEGIN" /\ answers[i].ok => Within(fs, Sectors(request.file))
              /\ request.op = "MD5" =>
                    /\ job.stage # "write"
                    /\ answers[i].hash = Image(request.file) => Written(request.file)
    BY DEF InPlace
  <2>2. CASE job.stage # "write"
    <3>1. UNCHANGED <<fs, flash>> /\ job'.stage # "write"
      BY <2>2, IdlesWhat
    <3>2. (\A f : Written(f)' <=> Written(f)) /\ (Written(request.file)' <=> Written(request.file))
      BY <1>1, <3>1 DEF Written
    <3> QED BY <2>1, <3>1, <3>2
  <2>3. CASE job.stage = "write"
    <3>1. request.op \in {"DATA", "READ", "MD5"} /\ request.file \in DOMAIN File
      <4>1. request.op \in {"DATA", "READ", "MD5"} /\ (request.op = "READ" => request.file # 0)
        BY <2>1, <2>3 DEF AtFiles, Running
      <4>2. request \in Frames
        BY DEF Typed, ToolTyped
      <4> QED BY <4>1, <4>2, FilesType DEF Frames
    <3>2. FilesDone = 1 .. request.file - 1
      BY <3>1 DEF FilesDone
    <3>3. CASE request.file = 1
      <4>1. FilesDone = {}
        BY <3>2, <3>3
      <4> QED BY <2>1, <2>3, <3>1, <3>3, <4>1
    <3>4. CASE request.file # 1
      <4> DEFINE g == request.file
      <4>1. Good(fs, Sectors(g))
        BY <2>1, <3>1, <3>4 DEF Typed, StubTyped, Good
      <4>2. Good(fs', Sectors(g)) /\ KeepsOthers(flash, flash', Sectors(g))
        BY <2>3, <4>1, IdlesWhat
      <4>3. \A f \in FilesDone : f \in DOMAIN File /\ f # g
        BY <3>1, <3>2, FilesType
      <4>4. \A f \in FilesDone : Written(f)'
        BY <2>1, <3>1, <4>2, <4>3, WrittenStays
      <4> QED BY <2>1, <2>3, <3>1, <4>2, <4>4 DEF Good
    <3> QED BY <3>3, <3>4
  <2> QED BY <2>2, <2>3
<1>13. Finished'
  <2>1. CASE verdict # "done"
    BY <1>1, <2>1 DEF Finished
  <2>2. CASE verdict = "done"
    <3>1. Due = {} /\ wire = None /\ answers = <<>> /\ (~deceived => job.stage # "write")
      BY <2>2 DEF Finished
    <3>2. Due' # {} \/ job.stage = "write"
      BY IdlesWhat DEF Due
    <3>3. deceived
      BY <1>2, <3>1, <3>2
    <3> QED BY <1>1, <1>2, <3>1, <3>3 DEF Finished
  <2> QED BY <2>1, <2>2
<1> QED BY <1>4, <1>5, <1>6, <1>7, <1>8, <1>9, <1>11, <1>12, <1>13

-------------------------------------------------------------------------------
(* A frame gets to the stub.                                                     *)

\* A frame gets to the stub, or what is left of it.
Receives ==
    /\ chip = "stub" /\ wire # None /\ wire' = None
    /\ UNCHANGED <<verdict, request, got, chip, job, fs, flash, answers, deceived>>
    /\ \/ Silent(ub') \/ PartOf(ub') \/ OldIn(ub')
       \/ \E frame \in Frames : /\ frame.op = wire.op /\ frame.file = wire.file
                                /\ NewIn(ub', frame)

\* With nothing due, what is due then is a command like the one that was sent, or
\* the older of the two buffers.
LEMMA ReceivesWhat ==
    ASSUME Typed, Receives, Due = {}
    PROVE  \/ Due' = {}
           \/ /\ Due' = {ub'.command} /\ (\A op : DueIs(op)' <=> op = wire.op)
              /\ Latest'.op = wire.op /\ Latest'.file = wire.file
              /\ \/ Older' = Latest /\ (ub'.slip = "none" \/ (ub'.slip = "open" /\ ub.slip = "none"))
                 \/ Older' = Older /\ ub'.slip = "none" /\ ub.slip # "none"
           \/ /\ Due' = {ub'.command} /\ (\A op : DueIs(op)' <=> op = Older.op)
              /\ Latest' = Older /\ Older' = Latest
<1>1. /\ job.stage # "took" /\ job' = job /\ ub.command = None
      /\ ub.reading \in 1 .. 2 /\ Older = ub.buf[ub.reading]
  BY DueIsOne DEF Receives
<1>2. /\ OtherBuffer(ub.reading) \in 1 .. 2 /\ OtherBuffer(ub.reading) # ub.reading
      /\ OtherBuffer(OtherBuffer(ub.reading)) = ub.reading
      /\ Latest = ub.buf[OtherBuffer(ub.reading)]
  BY <1>1, Others DEF Latest
<1>3. Due' = {ub'.command} \ {None}
  BY <1>1 DEF Due
<1>4. CASE Silent(ub') \/ PartOf(ub')
  BY <1>1, <1>3, <1>4 DEF Silent, PartOf
<1>5. CASE OldIn(ub')
  <2>1. ub'.command = ub.reading /\ ub'.reading = OtherBuffer(ub.reading) /\ ub'.buf = ub.buf
    BY <1>5 DEF OldIn
  <2>2. Due' = {ub'.command}
    BY <1>1, <1>3, <2>1, NoneTypes
  <2>3. Latest' = Older /\ Older' = Latest
    BY <1>1, <1>2, <2>1 DEF Latest, Older
  <2>4. \A op : DueIs(op)' <=> op = Older.op
    BY <1>1, <2>1, <2>2 DEF DueIs
  <2> QED BY <2>2, <2>3, <2>4
<1>6. ASSUME NEW frame \in Frames, frame.op = wire.op, frame.file = wire.file, NewIn(ub', frame)
      PROVE  /\ Due' = {ub'.command} /\ (\A op : DueIs(op)' <=> op = wire.op)
             /\ Latest'.op = wire.op /\ Latest'.file = wire.file
             /\ \/ Older' = Latest /\ (ub'.slip = "none" \/ (ub'.slip = "open" /\ ub.slip = "none"))
                \/ Older' = Older /\ ub'.slip = "none" /\ ub.slip # "none"
  <2>1. /\ ub'.slip = "none" \/ (ub'.slip = "open" /\ ub.slip = "none")
        /\ ub'.command = OtherBuffer(ub'.reading) /\ ub'.reading \in 1 .. 2 /\ ub'.command \in 1 .. 2
        /\ ub'.buf = [ub.buf EXCEPT ![ub'.command] = frame]
        /\ ub'.command = ub.reading \/ ub.slip # "none"
    BY <1>6 DEF NewIn
  <2>2. Due' = {ub'.command}
    BY <1>3, <2>1, NoneTypes
  <2>3. ub.buf \in [1 .. 2 -> Frames]
    BY DEF Typed, StubTyped, UbType
  <2>4. ub'.reading # ub'.command /\ ub'.buf[ub'.command] = frame /\ ub'.buf[ub'.reading] = ub.buf[ub'.reading]
    BY <2>1, <2>3, Others
  <2>5. Latest' = frame /\ Older' = ub.buf[ub'.reading]
    BY <2>1, <2>4 DEF Latest, Older
  <2>6. ub'.reading = ub.reading \/ ub'.reading = OtherBuffer(ub.reading)
    BY <1>1, <1>2, <2>1
  <2>7. ub'.command = ub.reading => ub'.reading # ub.reading
    BY <2>4
  <2>8. \/ Older' = Latest /\ (ub'.slip = "none" \/ (ub'.slip = "open" /\ ub.slip = "none"))
        \/ Older' = Older /\ ub'.slip = "none" /\ ub.slip # "none"
    BY <1>1, <1>2, <2>1, <2>5, <2>6, <2>7
  <2>9. \A op : DueIs(op)' <=> op = wire.op
    BY <1>6, <2>2, <2>4 DEF DueIs
  <2> QED BY <1>6, <2>1, <2>2, <2>5, <2>8, <2>9
<1> QED BY <1>4, <1>5, <1>6 DEF Receives

LEMMA ReceivesKeeps ==
    ASSUME Typed, Typed', DoneInv, Receives
    PROVE  DoneInv'
<1>1. /\ chip = "stub" /\ verdict' = verdict /\ request' = request /\ got' = got /\ wire # None
      /\ wire' = None /\ chip' = chip /\ job' = job /\ fs' = fs /\ flash' = flash
      /\ answers' = answers /\ deceived' = deceived
  BY DEF Receives
<1>2. /\ \A ops : Running(ops)' <=> Running(ops)
      /\ \A i : NoBeginAfter(i)' <=> NoBeginAfter(i)
      /\ \A i : SyncBefore(i)' <=> SyncBefore(i)
      /\ SyncBefore(Len(answers) + 1)' <=> SyncBefore(Len(answers) + 1)
      /\ \A f : Written(f)' = Written(f)
      /\ AtFiles' = AtFiles /\ FilesDone' = FilesDone
  BY <1>1 DEF Running, NoBeginAfter, SyncBefore, Written, AtFiles, FilesDone
<1> USE DEF DoneInv
<1>3. verdict = "running" =>
        (wire.op = request.op /\ wire.file = request.file) \/ (request.op = "OHAI" /\ wire.op = "MEM_END")
  BY <1>1 DEF Sent
<1>4. NoBegin /\ wire.op # "BEGIN" => NoBegin'
  <2>1. ub.buf \in [1 .. 2 -> Frames] /\ ub.reading \in 1 .. 2
    BY DEF Typed, StubTyped, UbType
  <2> QED BY <2>1 DEF NoBegin, Receives, Silent, PartOf, OldIn, NewIn
<1>5. Due = {} =>
        \/ Due' = {}
        \/ /\ Due' = {ub'.command} /\ (\A op : DueIs(op)' <=> op = wire.op)
           /\ Latest'.op = wire.op /\ Latest'.file = wire.file
           /\ \/ Older' = Latest /\ (ub'.slip = "none" \/ (ub'.slip = "open" /\ ub.slip = "none"))
              \/ Older' = Older /\ ub'.slip = "none" /\ ub.slip # "none"
        \/ /\ Due' = {ub'.command} /\ (\A op : DueIs(op)' <=> op = Older.op)
           /\ Latest' = Older /\ Older' = Latest
  BY ReceivesWhat
<1>6. Sent'
  BY <1>1 DEF Sent
<1>7. AfterSync'
  <2> SUFFICES ASSUME Running({"SYNC"})
               PROVE  /\ SyncBefore(Len(answers) + 1) /\ Due' # {} /\ ~DueIs("SYNC")' =>
                            NoBegin' \/ Older'.op # "BEGIN"
                      /\ \A i \in DOMAIN answers :
                            SyncBefore(i) /\ answers[i].op # "SYNC" => NoBegin' /\ NoBeginAfter(i)
    BY <1>1, <1>2 DEF AfterSync
  <2>1. wire.op = "SYNC"
    BY <1>3 DEF Running
  <2>2. /\ SyncBefore(Len(answers) + 1) =>
              NoBegin \/ (Due = {} /\ \E b \in 1 .. 2 : ub.buf[b].op = "SYNC")
        /\ \A i \in DOMAIN answers :
              SyncBefore(i) /\ answers[i].op # "SYNC" => NoBegin /\ NoBeginAfter(i)
    BY <1>1 DEF AfterSync
  <2>3. (\E b \in 1 .. 2 : ub.buf[b].op = "SYNC") => Latest.op = "SYNC" \/ Older.op = "SYNC"
    <3>1. ub.reading \in 1 .. 2
      BY DueIsOne
    <3> QED BY <3>1 DEF Latest, Older, OtherBuffer
  <2> QED BY <1>4, <1>5, <2>1, <2>2, <2>3
<1>8. AfterRead'
  <2> SUFFICES ASSUME Running({"READ"}), request.file = 0, NEW i \in DOMAIN answers,
                      answers[i].op = "READ"
               PROVE  NoBeginAfter(i) /\ (NoBegin' \/ ~DueIs("BEGIN")')
    BY <1>1, <1>2 DEF AfterRead
  <2>1. NoBeginAfter(i) /\ (NoBegin \/ (Due = {} /\ Older.op # "BEGIN"))
    BY <1>1 DEF AfterRead
  <2>2. wire.op = "READ"
    BY <1>3 DEF Running
  <2> QED BY <1>4, <1>5, <2>1, <2>2 DEF DueIs
<1>9. AfterGreeting'
  <2> SUFFICES ASSUME Running({"SYNC", "MEM", "MEM_END", "OHAI"}) \/ (Running({"READ"}) /\ request.file = 0),
                      NEW i \in DOMAIN answers, answers[i].op = "OHAI"
               PROVE  NoBegin' /\ NoBeginAfter(i)
    BY <1>1, <1>2 DEF AfterGreeting
  <2>1. wire.op # "BEGIN"
    BY <1>3 DEF Running
  <2> QED BY <1>4, <2>1 DEF AfterGreeting
<1>10. AfterBegin'
  <2> SUFFICES ASSUME Running({"BEGIN"}), request.file = 1
               PROVE  /\ job.stage = "took" /\ Block'.op = "BEGIN" => job.buf # ub'.reading \/ ub'.slip = "body"
                      /\ \A i \in DOMAIN answers : answers[i].op # "BEGIN"
    BY <1>1, <1>2 DEF AfterBegin
  <2>1. (\A i \in DOMAIN answers : answers[i].op # "BEGIN") /\ ~DueIs("BEGIN")
    BY <1>1 DEF AfterBegin
  <2>2. ASSUME job.stage = "took", Block'.op = "BEGIN"
        PROVE  job.buf # ub'.reading \/ ub'.slip = "body"
    <3>1. ub.buf[job.buf].op # "BEGIN" /\ job.buf \in 1 .. 2
      BY <2>1, <2>2, DueIsOne DEF DueIs
    <3>2. ub'.buf[job.buf].op = "BEGIN"
      BY <1>1, <2>2 DEF Block
    <3>3. ub.buf \in [1 .. 2 -> Frames] /\ ub.reading \in 1 .. 2
      BY DEF Typed, StubTyped, UbType
    <3>4. CASE Silent(ub') \/ OldIn(ub')
      BY <3>1, <3>2, <3>4 DEF Silent, OldIn
    <3>5. CASE PartOf(ub')
      BY <3>5 DEF PartOf
    <3>6. CASE \E frame \in Frames : NewIn(ub', frame)
      <4>1. PICK frame \in Frames : NewIn(ub', frame)
        BY <3>6
      <4>2. job.buf = ub'.command
        BY <3>1, <3>2, <3>3, <4>1 DEF NewIn
      <4> QED BY <4>1, <4>2, Others DEF NewIn
    <3> QED BY <3>4, <3>5, <3>6 DEF Receives
  <2> QED BY <2>1, <2>2
<1>11. AtFiles => Due = {} /\ answers = <<>> /\ (Due' # {} => Due' = {ub'.command})
  BY <1>1, <1>5 DEF OneThing
<1>12. OneThing'
  BY <1>1, <1>2, <1>11 DEF OneThing
<1>13. AtFiles /\ MayAnswer' =>
         /\ MayAnswer /\ Left(Before) /\ wire.op = request.op /\ wire.file = request.file
         /\ \/ /\ Latest'.op = wire.op /\ Latest'.file = wire.file
               /\ \/ Older' = Latest /\ (ub'.slip = "none" \/ (ub'.slip = "open" /\ ub.slip = "none"))
                  \/ Older' = Older /\ ub'.slip = "none" /\ ub.slip # "none"
            \/ Older.op = request.op /\ Latest' = Older /\ Older' = Latest
  <2> SUFFICES ASSUME AtFiles, MayAnswer'
               PROVE  /\ MayAnswer /\ Left(Before) /\ wire.op = request.op /\ wire.file = request.file
                      /\ \/ /\ Latest'.op = wire.op /\ Latest'.file = wire.file
                            /\ \/ Older' = Latest /\ (ub'.slip = "none" \/ (ub'.slip = "open" /\ ub.slip = "none"))
                               \/ Older' = Older /\ ub'.slip = "none" /\ ub.slip # "none"
                         \/ Older.op = request.op /\ Latest' = Older /\ Older' = Latest
    OBVIOUS
  <2>1. MayAnswer /\ Left(Before)
    BY <1>1 DEF MayAnswer, InBuffers
  <2>2. wire.op = request.op /\ wire.file = request.file
    BY <1>3 DEF AtFiles, Running
  <2>3. DueIs(request.op)'
    BY <1>1, <1>11 DEF MayAnswer
  <2>4. Due' # {} /\ \E b \in Due' : ub'.buf[b].op = request.op
    BY <1>1, <2>3 DEF DueIs
  <2>5. ASSUME NEW op, \A o : DueIs(o)' <=> o = op PROVE request.op = op
    <3>1. DueIs(request.op)' <=> \E b \in Due' : ub'.buf[b].op = request.op
      BY <1>1 DEF DueIs
    <3>2. \A o : DueIs(o)' <=> \E b \in Due' : ub'.buf[b].op = o
      BY DEF DueIs
    <3> QED BY <2>4, <2>5, <3>2
  <2>6. /\ (\A o : DueIs(o)' <=> o = wire.op) => request.op = wire.op
        /\ (\A o : DueIs(o)' <=> o = Older.op) => request.op = Older.op
    BY <2>5
  <2> QED BY <1>5, <1>11, <2>1, <2>2, <2>4, <2>6
<1>14. InBuffers'
  <2> SUFFICES ASSUME AtFiles, MayAnswer'
               PROVE  /\ Left(request.op)'
                      /\ request.op \in {"BEGIN", "MD5"} => Latest'.file = request.file
    BY <1>1, <1>2 DEF InBuffers
  <2>1. request.op \in {"DATA", "MD5", "LEAVE", "END", "READ", "BEGIN"}
    BY DEF AtFiles, Running
  <2>2. CASE request.op = "DATA"
    BY <1>1, <1>13, <2>2 DEF Left, Before
  <2>3. CASE request.op = "READ"
    BY <1>1, <1>13, <2>3 DEF Left, Before
  <2>4. CASE request.op = "MD5"
    BY <1>1, <1>13, <2>4 DEF Left, Before
  <2>5. CASE request.op = "BEGIN"
    BY <1>1, <1>13, <2>5 DEF Left, Before
  <2>6. CASE request.op \in {"LEAVE", "END"}
    BY <1>1, <2>6 DEF Left
  <2> QED BY <2>1, <2>2, <2>3, <2>4, <2>5, <2>6
<1>15. InPlace'
  <2>1. AtFiles => answers = <<>> /\ MayAnswer
    BY <1>1, <1>11 DEF MayAnswer
  <2> QED BY <1>1, <1>2, <2>1 DEF InPlace, Within
<1>16. Finished'
  BY <1>1 DEF Finished
<1> QED BY <1>6, <1>7, <1>8, <1>9, <1>10, <1>12, <1>14, <1>15, <1>16

-------------------------------------------------------------------------------
(* The loader answers, the stub greets, a run starts and ends.                   *)

\* The loader answers, or the stub greets.
Greets(op) ==
    /\ chip \in {"rom", "starting"} /\ chip' \in {"rom", "starting", "stub"}
    /\ UNCHANGED <<verdict, request, got, wire, stub, flash, deceived>>
    /\ op # "BEGIN" /\ (op = "OHAI" => chip = "starting") /\ Grows(op)
    /\ chip = "starting" => op = "OHAI" /\ chip' = "stub"

LEMMA GreetsKeeps ==
    ASSUME Typed, Typed', DoneInv, NEW op, Greets(op)
    PROVE  DoneInv'
<1>1. /\ chip \in {"rom", "starting"} /\ chip' \in {"rom", "starting", "stub"}
      /\ verdict' = verdict /\ request' = request /\ got' = got /\ wire' = wire
      /\ ub' = ub /\ job' = job /\ fs' = fs
      /\ flash' = flash /\ deceived' = deceived
      /\ op # "BEGIN" /\ (op = "OHAI" => chip = "starting")
      /\ chip = "starting" => op = "OHAI" /\ chip' = "stub"
  BY DEF Greets, stub
<1>2. ub = NewUart /\ job = NewJob
  BY <1>1 DEF Typed, StubInOrder
<1>3. Due = {} /\ NoBegin /\ job.stage = "wait"
  BY <1>2, NewUartBuffers, NewUartFields DEF Due
<1>4. /\ Due' = {} /\ NoBegin' /\ (\A o : ~DueIs(o) /\ ~DueIs(o)')
      /\ \A ops : Running(ops)' <=> Running(ops)
      /\ AtFiles' <=> AtFiles
      /\ Latest' = Latest /\ Older' = Older
      /\ Before' = Before /\ FilesDone' = FilesDone
      /\ \A f : Written(f)' <=> Written(f)
  <2>1. Due' = Due /\ (NoBegin' <=> NoBegin) /\ (\A o : DueIs(o)' <=> DueIs(o)) /\ (\A o : ~DueIs(o))
    BY <1>1, <1>3 DEF Due, NoBegin, DueIs
  <2>2. /\ \A ops : Running(ops)' <=> Running(ops)
        /\ AtFiles' <=> AtFiles
        /\ Latest' = Latest /\ Older' = Older
        /\ Before' = Before /\ FilesDone' = FilesDone
        /\ \A f : Written(f)' <=> Written(f)
    BY <1>1 DEF Running, AtFiles, Latest, Older, Before, FilesDone, Written
  <2> QED BY <1>3, <2>1, <2>2
<1>5. /\ \A i \in DOMAIN answers' :
             \/ i \in DOMAIN answers /\ answers'[i] = answers[i]
             \/ i \notin DOMAIN answers /\ answers'[i].op = op
      /\ \A i \in DOMAIN answers : NoBeginAfter(i) => NoBeginAfter(i)'
      /\ \A i \in DOMAIN answers' \ DOMAIN answers : NoBeginAfter(i)'
      /\ \A i \in DOMAIN answers : SyncBefore(i)' => SyncBefore(i)
  BY <1>1, GrowsKeep DEF Greets, Typed
<1> USE DEF DoneInv
<1>6. Sent'
  BY <1>1 DEF Sent
<1>7. AfterSync'
  <2> SUFFICES ASSUME Running({"SYNC"}), NEW i \in DOMAIN answers', SyncBefore(i)', answers'[i].op # "SYNC"
               PROVE  NoBeginAfter(i)'
    BY <1>4 DEF AfterSync
  <2>1. CASE i \in DOMAIN answers /\ answers'[i] = answers[i]
    <3>1. NoBeginAfter(i) \/ i = Len(answers)
      BY <1>5, <2>1 DEF AfterSync
    <3>2. i = Len(answers) => NoBeginAfter(i)
      BY AnswersDomain DEF Typed, NoBeginAfter
    <3> QED BY <1>5, <2>1, <3>1, <3>2
  <2> QED BY <1>5, <2>1
<1>8. AfterRead'
  <2> SUFFICES ASSUME Running({"READ"}), request.file = 0, NEW i \in DOMAIN answers',
                      answers'[i].op = "READ"
               PROVE  NoBeginAfter(i)'
    BY <1>1, <1>4 DEF AfterRead
  <2> QED BY <1>5 DEF AfterRead
<1>9. AfterGreeting'
  <2> SUFFICES ASSUME Running({"SYNC", "MEM", "MEM_END", "OHAI"}) \/ (Running({"READ"}) /\ request.file = 0),
                      NEW i \in DOMAIN answers', answers'[i].op = "OHAI"
               PROVE  NoBeginAfter(i)'
    BY <1>1, <1>4 DEF AfterGreeting
  <2> QED BY <1>5 DEF AfterGreeting
<1>10. AfterBegin'
  <2> SUFFICES ASSUME Running({"BEGIN"}), request.file = 1
               PROVE  \A i \in DOMAIN answers' : answers'[i].op # "BEGIN"
    BY <1>1, <1>3, <1>4 DEF AfterBegin
  <2>1. \A i \in DOMAIN answers : answers[i].op # "BEGIN"
    BY <1>1 DEF AfterBegin
  <2> QED BY <1>1, <1>5, <2>1
<1>11. AtFiles => /\ chip = "starting" /\ wire = None
                  /\ \A i \in DOMAIN answers' : answers'[i].op # request.op
  <2> SUFFICES ASSUME AtFiles
               PROVE  /\ chip = "starting" /\ wire = None
                      /\ \A i \in DOMAIN answers' : answers'[i].op # request.op
    OBVIOUS
  <2>1. chip = "starting" /\ wire = None /\ \A i \in DOMAIN answers : answers[i].op # request.op
    BY <1>1 DEF OneThing
  <2>2. request.op # "OHAI"
    BY DEF AtFiles, Running
  <2> QED BY <1>1, <1>5, <2>1, <2>2
<1>12. OneThing'
  BY <1>1, <1>4, <1>11 DEF OneThing
<1>13. AtFiles => ~MayAnswer'
  <2>1. AtFiles => ~\E i \in DOMAIN answers' : answers'[i].op = request.op
    BY <1>11
  <2> QED BY <1>1, <1>4, <1>11, <2>1 DEF MayAnswer
<1>14. InBuffers' /\ InPlace'
  BY <1>4, <1>13 DEF InBuffers, InPlace
<1>15. Finished'
  BY <1>1 DEF Finished
<1> QED BY <1>6, <1>7, <1>8, <1>9, <1>10, <1>12, <1>14, <1>15

\* A run starts, connects anew or ends before it is done.
LEMMA EndsKeeps ==
    ASSUME \/ request'.op = "SYNC" /\ wire' = request' /\ verdict' = "running" /\ answers' = <<>> /\ got' = 0
           \/ verdict' \notin {"running", "done"}
    PROVE  DoneInv'
<1>1. Sent'
  BY DEF Sent
<1>2. AfterSync'
  <2>1. answers' = <<>> => DOMAIN answers' = {} /\ Len(answers') = 0
    OBVIOUS
  <2>2. answers' = <<>> /\ got' = 0 => ~SyncBefore(Len(answers) + 1)'
    <3>1. 1 .. (0 + 1) - 1 = {}
      OBVIOUS
    <3> QED BY <2>1, <3>1 DEF SyncBefore
  <2> QED BY <2>1, <2>2 DEF AfterSync, Running
<1>3. AfterRead' /\ AfterBegin' /\ ~AtFiles'
  BY DEF AfterRead, AfterBegin, AtFiles, Running
<1>4. AfterGreeting'
  <2>1. answers' = <<>> => DOMAIN answers' = {}
    OBVIOUS
  <2> QED BY <2>1 DEF AfterGreeting, Running
<1>5. OneThing' /\ InBuffers' /\ InPlace'
  BY <1>3 DEF OneThing, InBuffers, InPlace
<1>6. Finished'
  BY DEF Finished
<1> QED BY <1>1, <1>2, <1>3, <1>4, <1>5, <1>6 DEF DoneInv

\* The last answer of all.
LeavesChip ==
    /\ verdict = "running" /\ request.op = "END" /\ answers # <<>> /\ answers[1].op = "END"
    /\ verdict' = "done" /\ answers' = <<>> /\ chip' \in {"app", chip}
    /\ UNCHANGED <<wire, stub, flash, deceived>>

LEMMA LeavesKeeps ==
    ASSUME Typed, DoneInv, LeavesChip
    PROVE  DoneInv'
<1> USE DEF DoneInv, LeavesChip
<1>1. AtFiles /\ FilesDone = DOMAIN File
  BY DEF AtFiles, Running, FilesDone
<1>2. 1 \in DOMAIN answers
  <2>1. answers \in Seq(Answers) /\ Len(answers) # 0
    BY DEF Typed, AnswersTyped
  <2> QED BY <2>1
<1>3. wire = None /\ Due = {} /\ chip = "stub" /\ MayAnswer
  BY <1>1, <1>2 DEF OneThing, MayAnswer
<1>4. ~deceived => job.stage # "write" /\ \A f \in DOMAIN File : Written(f)
  BY <1>1, <1>3 DEF InPlace
<1>5. Finished'
  <2>1. Due' = Due /\ job' = job /\ (\A f : Written(f)' <=> Written(f))
    BY DEF Due, stub, Written
  <2> QED BY <1>3, <1>4, <2>1 DEF Finished
<1>6. /\ Sent' /\ AfterSync' /\ AfterRead' /\ AfterGreeting' /\ AfterBegin'
      /\ OneThing' /\ InBuffers' /\ InPlace'
  BY DEF Sent, AfterSync, AfterRead, AfterGreeting, AfterBegin, OneThing, InBuffers, InPlace, AtFiles, Running
<1> QED BY <1>5, <1>6

-------------------------------------------------------------------------------
(* esptool goes on to the next command.                                          *)

\* esptool has what it waited for, or goes on without, and the next thing is asked for.
Moves ==
    /\ verdict = "running" /\ request.op # "END"
    /\ request' = After(request) /\ got' = 0
    /\ UNCHANGED <<verdict, chip, stub, flash, deceived>>
    /\ wire' = IF request'.op = "OHAI" THEN wire ELSE request'
    /\ request'.op # "OHAI" => wire = None
    /\ answers' = <<>> \/ (answers # <<>> /\ answers' = Tail(answers))
    /\ request.op # "MEM_END" => answers # <<>>
    /\ request.op = "SYNC" => SyncBefore(2)
    /\ request.op \notin {"SYNC", "MEM_END"} => answers[1].op = request.op
    /\ request.op \notin {"SYNC", "MEM_END", "OHAI"} =>
         answers[1].ok /\ (request.op = "MD5" => answers[1].hash = Image(request.file))

LEMMA AfterTable ==
    ASSUME request \in Frames, request.op \notin {"none", "END"}
    PROVE  LET next == After(request) IN
           \/ request.op = "SYNC" /\ next.op = "READ" /\ next.file = 0
           \/ /\ request.op = "READ" /\ request.file = 0
              /\ (next.op = "BEGIN" /\ next.file = 1) \/ next.op = "MEM"
           \/ request.op = "MEM" /\ next.op = "MEM_END"
           \/ request.op = "MEM_END" /\ next.op = "OHAI"
           \/ request.op = "OHAI" /\ next.op = "BEGIN" /\ next.file = 1
           \/ /\ request.op = "BEGIN" /\ next.op = "DATA" /\ next.file = request.file /\ next.seq = 1
              /\ request.file \in DOMAIN File
           \/ /\ request.op = "DATA" /\ next.file = request.file /\ request.file \in DOMAIN File
              /\ (next.op = "DATA" /\ next.seq # 1) \/ next.op = "READ"
           \/ /\ request.op = "READ" /\ next.op = "MD5" /\ next.file = request.file
              /\ request.file # 0
           \/ /\ request.op = "MD5" /\ request.file \in DOMAIN File
              /\ \/ next.op = "BEGIN" /\ next.file = request.file + 1
                 \/ next.op = "LEAVE" /\ DOMAIN File = 1 .. request.file
           \/ request.op = "LEAVE" /\ next.op = "END"
<1>1. \A op, file, seq : /\ Frame(op, file, seq).op = op /\ Frame(op, file, seq).file = file
                         /\ Frame(op, file, seq).seq = seq
  BY DEF Frame
<1>2. /\ request.op \in Ops /\ request.seq \in Nat /\ request.file \in Nat
      /\ request.op \in {"BEGIN", "DATA", "MD5"} => request.file \in DOMAIN File
      /\ request.op = "DATA" => request.seq \in Blocks(request.file)
  BY FrameType
<1>3. CASE request.op = "DATA"
  <2>1. request.seq # 0
    BY <1>2, <1>3, FileType
  <2>2. request.seq + 1 # 1
    BY <1>2, <2>1
  <2> QED BY <1>1, <1>2, <1>3, <2>2 DEF After
<1>4. CASE request.op = "MD5"
  <2>1. request.file + 1 \notin DOMAIN File => DOMAIN File = 1 .. request.file
    BY <1>2, <1>4, FilesType
  <2>2. After(request) = IF request.file + 1 \in DOMAIN File THEN Frame("BEGIN", request.file + 1, 0)
                         ELSE Frame("LEAVE", 0, 0)
    BY <1>4 DEF After
  <2>3. CASE request.file + 1 \in DOMAIN File
    <3>1. After(request) = Frame("BEGIN", request.file + 1, 0)
      BY <2>2, <2>3
    <3> QED BY <1>1, <1>2, <1>4, <3>1
  <2>4. CASE request.file + 1 \notin DOMAIN File
    <3>1. After(request) = Frame("LEAVE", 0, 0)
      BY <2>2, <2>4
    <3> QED BY <1>1, <1>2, <1>4, <2>1, <2>4, <3>1
  <2> QED BY <2>3, <2>4
<1>5. CASE request.op \notin {"DATA", "MD5"}
  <2>1. CASE request.op = "READ" /\ request.file = 0
    <3>1. After(request) = IF detected THEN Frame("BEGIN", 1, 0) ELSE Frame("MEM", 0, 0)
      BY <2>1 DEF After
    <3> QED BY <1>1, <2>1, <3>1
  <2>2. CASE request.op = "READ" /\ request.file # 0
    <3>1. After(request) = Frame("MD5", request.file, 0)
      BY <2>2 DEF After
    <3> QED BY <1>1, <2>2, <3>1
  <2>3. CASE request.op = "BEGIN"
    <3>1. After(request) = Frame("DATA", request.file, 1)
      BY <2>3 DEF After
    <3> QED BY <1>1, <1>2, <2>3, <3>1
  <2>4. CASE request.op \in {"SYNC", "MEM", "MEM_END", "OHAI", "LEAVE"}
    <3>1. CASE request.op = "SYNC"
      BY <1>1, <3>1 DEF After
    <3>2. CASE request.op = "MEM"
      BY <1>1, <3>2 DEF After
    <3>3. CASE request.op = "MEM_END"
      BY <1>1, <3>3 DEF After
    <3>4. CASE request.op = "OHAI"
      BY <1>1, <3>4 DEF After
    <3>5. CASE request.op = "LEAVE"
      BY <1>1, <3>5 DEF After
    <3> QED BY <2>4, <3>1, <3>2, <3>3, <3>4, <3>5
  <2> QED BY <1>2, <1>5, <2>1, <2>2, <2>3, <2>4 DEF Ops
<1> QED BY <1>3, <1>4, <1>5

LEMMA MovesKeeps ==
    ASSUME Typed, Typed', DoneInv, Moves
    PROVE  DoneInv'
<1> DEFINE next == request'
<1>1. /\ verdict = "running" /\ verdict' = "running" /\ request.op # "END" /\ request.op # "none"
      /\ got' = 0 /\ chip' = chip /\ ub' = ub /\ job' = job /\ fs' = fs
      /\ flash' = flash /\ deceived' = deceived
      /\ wire' = (IF next.op = "OHAI" THEN wire ELSE next)
      /\ next.op # "OHAI" => wire = None
      /\ answers' = <<>> \/ (answers # <<>> /\ answers' = Tail(answers))
      /\ request.op # "MEM_END" => answers # <<>>
      /\ request.op = "SYNC" => SyncBefore(2)
      /\ request.op \notin {"SYNC", "MEM_END"} => answers[1].op = request.op
      /\ request.op \notin {"SYNC", "MEM_END", "OHAI"} =>
           answers[1].ok /\ (request.op = "MD5" => answers[1].hash = Image(request.file))
  BY DEF Moves, stub, Typed, ToolTyped
<1>2. /\ request \in Frames /\ next \in Frames /\ next = After(request) /\ next # None
  BY NoneTypes DEF Typed, ToolTyped, Moves
<1>3. \/ request.op = "SYNC" /\ next.op = "READ" /\ next.file = 0
      \/ /\ request.op = "READ" /\ request.file = 0
         /\ (next.op = "BEGIN" /\ next.file = 1) \/ next.op = "MEM"
      \/ request.op = "MEM" /\ next.op = "MEM_END"
      \/ request.op = "MEM_END" /\ next.op = "OHAI"
      \/ request.op = "OHAI" /\ next.op = "BEGIN" /\ next.file = 1
      \/ /\ request.op = "BEGIN" /\ next.op = "DATA" /\ next.file = request.file /\ next.seq = 1
         /\ request.file \in DOMAIN File
      \/ /\ request.op = "DATA" /\ next.file = request.file /\ request.file \in DOMAIN File
         /\ (next.op = "DATA" /\ next.seq # 1) \/ next.op = "READ"
      \/ /\ request.op = "READ" /\ next.op = "MD5" /\ next.file = request.file
         /\ request.file # 0
      \/ /\ request.op = "MD5" /\ request.file \in DOMAIN File
         /\ \/ next.op = "BEGIN" /\ next.file = request.file + 1
            \/ next.op = "LEAVE" /\ DOMAIN File = 1 .. request.file
      \/ request.op = "LEAVE" /\ next.op = "END"
  BY <1>1, <1>2, AfterTable
<1>4. /\ Due' = Due /\ (NoBegin' <=> NoBegin) /\ Latest' = Latest /\ Older' = Older
      /\ \A op : DueIs(op)' <=> DueIs(op)
      /\ \A f : Written(f)' <=> Written(f)
      /\ \A op : Left(op)' <=> Left(op)
  BY <1>1 DEF Due, NoBegin, DueIs, Latest, Older, Written, Left
<1>5. \A i \in DOMAIN answers' :
         /\ i + 1 \in DOMAIN answers /\ answers'[i] = answers[i + 1]
         /\ NoBeginAfter(i + 1) => NoBeginAfter(i)'
         /\ i + 1 = Len(answers) => NoBeginAfter(i)'
         /\ SyncBefore(2) => SyncBefore(i + 1)
         /\ NoBeginAfter(1) => answers'[i].op # "BEGIN"
  <2>1. CASE answers' = <<>>
    BY <2>1
  <2>2. CASE answers # <<>> /\ answers' = Tail(answers)
    <3> DEFINE m == Len(answers)
               n == Len(answers')
    <3>1. answers \in Seq(Answers) /\ m \in Nat /\ DOMAIN answers = 1 .. m /\ m # 0
      BY <2>2 DEF Typed, AnswersTyped
    <3>2. /\ answers' \in Seq(Answers) /\ n = m - 1 /\ DOMAIN answers' = 1 .. n
          /\ \A i \in 1 .. n : answers'[i] = answers[i + 1]
      BY <2>2, <3>1, HeadTailProperties
    <3>3. /\ \A i : NoBeginAfter(i) <=> \A j \in i + 1 .. m : answers[j].op # "BEGIN"
          /\ \A i : NoBeginAfter(i)' <=> \A j \in i + 1 .. n : answers'[j].op # "BEGIN"
          /\ \A i : SyncBefore(i) <=> got > 0 \/ \E j \in 1 .. i - 1 : answers[j].op = "SYNC"
      BY DEF NoBeginAfter, SyncBefore
    <3> SUFFICES ASSUME NEW i \in 1 .. n
                 PROVE  /\ i + 1 \in 1 .. m /\ answers'[i] = answers[i + 1]
                        /\ NoBeginAfter(i + 1) => NoBeginAfter(i)'
                        /\ i + 1 = m => NoBeginAfter(i)'
                        /\ SyncBefore(2) => SyncBefore(i + 1)
                        /\ NoBeginAfter(1) => answers'[i].op # "BEGIN"
      BY <3>1, <3>2
    <3> HIDE DEF m, n
    <3>4. i + 1 \in 1 .. m /\ i + 1 \in 2 .. m /\ answers'[i] = answers[i + 1]
      BY <3>1, <3>2
    <3>5. NoBeginAfter(i + 1) => NoBeginAfter(i)'
      <4>1. \A j \in i + 1 .. n : j + 1 \in (i + 1) + 1 .. m /\ answers'[j] = answers[j + 1]
        BY <3>1, <3>2
      <4> QED BY <3>3, <4>1
    <3>6. i + 1 = m => NoBeginAfter(i)'
      <4>1. i + 1 = m => i + 1 .. n = {}
        BY <3>1, <3>2
      <4> QED BY <3>3, <4>1
    <3>7. SyncBefore(2) => SyncBefore(i + 1)
      <4>1. \A j \in 1 .. 2 - 1 : j \in 1 .. (i + 1) - 1
        BY <3>1, <3>2
      <4> QED BY <3>3, <4>1
    <3>8. NoBeginAfter(1) => answers'[i].op # "BEGIN"
      <4>1. 1 + 1 .. m = 2 .. m
        OBVIOUS
      <4> QED BY <3>3, <3>4, <4>1
    <3> QED BY <3>4, <3>5, <3>6, <3>7, <3>8
  <2> QED BY <1>1, <2>1, <2>2
<1>6. request.op # "MEM_END" => 1 \in DOMAIN answers
  <2>1. answers # <<>> => Len(answers) # 0
    BY DEF Typed, AnswersTyped
  <2> QED BY <1>1, <2>1, AnswersDomain DEF Typed
<1> HIDE DEF next
<1> USE DEF DoneInv
<1>7. Sent'
  <2>1. next.op = "OHAI" => wire = None \/ wire.op = "MEM_END"
    BY <1>1, <1>3 DEF Sent
  <2> QED BY <1>1, <2>1 DEF Sent, next
<1>8. AfterSync'
  BY <1>3 DEF AfterSync, Running, next
<1>9. AfterRead'
  <2> SUFFICES ASSUME next.op = "READ", next.file = 0
               PROVE  /\ DueIs("READ") => NoBegin \/ Older.op # "BEGIN"
                      /\ \A i \in DOMAIN answers' : answers'[i].op = "READ" =>
                            /\ NoBeginAfter(i)'
                            /\ NoBegin \/ (Due = {} /\ Older.op # "BEGIN")
    BY <1>1, <1>2, <1>4 DEF AfterRead, Running, next
  <2>1. request.op = "SYNC" /\ wire = None /\ SyncBefore(2)
    BY <1>1, <1>3, FilesType
  <2>2. Running({"SYNC"}) /\ 1 \in DOMAIN answers
    BY <1>1, <1>6, <2>1 DEF Running
  <2>3. /\ SyncBefore(Len(answers) + 1) => (Due # {} /\ ~DueIs("SYNC") => NoBegin \/ Older.op # "BEGIN")
        /\ \A i \in DOMAIN answers :
              SyncBefore(i) /\ answers[i].op # "SYNC" =>
                  \/ NoBegin /\ NoBeginAfter(i)
                  \/ i = Len(answers) /\ Due = {} /\ Older.op # "BEGIN"
    BY <2>1, <2>2 DEF AfterSync
  <2>4. SyncBefore(Len(answers) + 1)
    <3>1. \A n \in Nat : 1 \in 1 .. n => \A j \in 1 .. 2 - 1 : j \in 1 .. (n + 1) - 1
      OBVIOUS
    <3> QED BY <2>1, <2>2, <3>1, AnswersDomain DEF SyncBefore, Typed
  <2>5. DueIs("READ") => Due # {} /\ ~DueIs("SYNC")
    BY DueIsOne DEF DueIs
  <2> QED BY <1>5, <2>1, <2>3, <2>4, <2>5
<1>10. AfterGreeting'
  <2> SUFFICES ASSUME next.op \in {"SYNC", "MEM", "MEM_END", "OHAI"} \/ (next.op = "READ" /\ next.file = 0),
                      NEW i \in DOMAIN answers', answers'[i].op = "OHAI"
               PROVE  NoBegin /\ NoBeginAfter(i)'
    BY <1>4 DEF AfterGreeting, Running, next
  <2>1. Running({"SYNC", "MEM", "MEM_END", "OHAI"}) \/ (Running({"READ"}) /\ request.file = 0)
    BY <1>1, <1>3, FilesType DEF Running
  <2> QED BY <1>5, <2>1 DEF AfterGreeting
<1>11. AfterBegin'
  <2> SUFFICES ASSUME next.op = "BEGIN", next.file = 1
               PROVE  (\A i \in DOMAIN answers' : answers'[i].op # "BEGIN") /\ ~DueIs("BEGIN")
    BY <1>1, <1>2, <1>4 DEF AfterBegin, Running, next
  <2>1. (request.op = "READ" /\ request.file = 0) \/ request.op = "OHAI"
    BY <1>3, FilesType
  <2>2. /\ NoBeginAfter(1)
        /\ NoBegin \/ ~DueIs("BEGIN") \/ Due = {}
    BY <1>1, <1>6, <2>1 DEF AfterRead, AfterGreeting, Running
  <2>3. ~DueIs("BEGIN")
    BY <2>2, DueIsOne DEF DueIs, NoBegin
  <2> QED BY <1>5, <2>2, <2>3
<1>12. request.op \in {"BEGIN", "DATA", "MD5", "LEAVE"} \/ (request.op = "READ" /\ request.file # 0) =>
         /\ answers' = <<>> /\ Due = {} /\ chip = "stub" /\ wire = None
         /\ Left(request.op)
         /\ (AtFiles /\ MayAnswer) \/ (request.op = "BEGIN" /\ request.file = 1)
  <2> SUFFICES ASSUME request.op \in {"BEGIN", "DATA", "MD5", "LEAVE"} \/ (request.op = "READ" /\ request.file # 0)
               PROVE  /\ answers' = <<>> /\ Due = {} /\ chip = "stub" /\ wire = None
                      /\ Left(request.op)
                      /\ (AtFiles /\ MayAnswer) \/ (request.op = "BEGIN" /\ request.file = 1)
    OBVIOUS
  <2>1. 1 \in DOMAIN answers /\ answers[1].op = request.op /\ wire = None /\ answers # <<>>
    BY <1>1, <1>3, <1>6
  <2>2. Len(answers) = 1 => answers' = <<>>
    <3>1. Len(answers) = 1 => DOMAIN answers' = {}
      <4>1. Len(answers) = 1 => \A i \in DOMAIN answers' : i + 1 \in 1 .. 1
        BY <1>5, AnswersDomain DEF Typed
      <4>2. answers' \in Seq(Answers)
        BY DEF Typed, AnswersTyped
      <4>3. DOMAIN answers' \subseteq Nat \ {0}
        BY <4>2
      <4>4. \A i \in Nat \ {0} : i + 1 \notin 1 .. 1
        OBVIOUS
      <4> QED BY <4>1, <4>3, <4>4
    <3>2. DOMAIN answers' = {} => answers' = <<>>
      BY DEF Typed, AnswersTyped
    <3> QED BY <3>1, <3>2
  <2>3. CASE request.op = "BEGIN" /\ request.file = 1
    <3>1. 1 = Len(answers) /\ Due = {} /\ chip = "stub" /\ Left("BEGIN")
      BY <1>1, <2>1, <2>3 DEF AfterBegin, Running
    <3> QED BY <2>1, <2>2, <2>3, <3>1
  <2>4. CASE ~(request.op = "BEGIN" /\ request.file = 1)
    <3>1. AtFiles /\ MayAnswer
      BY <1>1, <2>1, <2>4 DEF AtFiles, Running, MayAnswer
    <3>2. Len(answers) = 1 /\ chip = "stub" /\ Due = {}
      BY <2>1, <3>1 DEF OneThing
    <3>3. Left(request.op)
      BY <2>1, <3>1 DEF InBuffers
    <3> QED BY <2>1, <2>2, <3>1, <3>2, <3>3
  <2> QED BY <2>3, <2>4
<1>13. AtFiles' => /\ answers' = <<>> /\ Due = {} /\ chip = "stub" /\ wire = None
                   /\ Left(request.op) /\ Before' \in {request.op, "none"}
                   /\ (AtFiles /\ MayAnswer) \/ (request.op = "BEGIN" /\ request.file = 1)
                   /\ next.op # "OHAI"
  <2> SUFFICES ASSUME AtFiles'
               PROVE  /\ request.op \in {"BEGIN", "DATA", "MD5", "LEAVE"} \/ (request.op = "READ" /\ request.file # 0)
                      /\ Before' \in {request.op, "none"} /\ next.op # "OHAI"
    BY <1>12
  <2>1. \/ next.op \in {"DATA", "MD5", "LEAVE", "END"}
        \/ next.op = "READ" /\ next.file # 0
        \/ next.op = "BEGIN" /\ next.file # 1
    BY DEF AtFiles, Running, next
  <2>2. request.op \in {"BEGIN", "DATA", "MD5", "LEAVE"} \/ (request.op = "READ" /\ request.file # 0)
    BY <1>3, <2>1
  <2>3. Before' \in {request.op, "none"}
    BY <1>3, <2>1 DEF Before, next
  <2> QED BY <2>1, <2>2, <2>3
<1>14. OneThing'
  <2>1. answers' = <<>> => DOMAIN answers' = {}
    OBVIOUS
  <2> QED BY <1>1, <1>4, <1>13, <2>1 DEF OneThing
<1>15. InBuffers'
  <2>1. AtFiles' => wire' = next /\ wire' # None
    BY <1>1, <1>2, <1>13
  <2>2. AtFiles' => Left(Before)'
    <3>1. CASE Before' = "none"
      BY <3>1 DEF Left
    <3>2. CASE Before' = request.op
      BY <1>1, <1>4, <1>13, <3>2 DEF Left
    <3> QED BY <1>13, <3>1, <3>2
  <2> QED BY <2>1, <2>2 DEF InBuffers
<1>16. InPlace'
  <2> SUFFICES ASSUME AtFiles', ~deceived
               PROVE  /\ \A f \in FilesDone' : Written(f)
                      /\ next.op \in {"BEGIN", "LEAVE", "END"} => job.stage # "write"
                      /\ next.op \in {"DATA", "READ", "MD5"} /\ next.file # 1 =>
                            Within(fs, Sectors(next.file))
    <3>1. AtFiles' => DOMAIN answers' = {}
      BY <1>13
    <3> QED BY <1>1, <1>4, <3>1 DEF InPlace, Within, next
  <2>1. FilesDone' = IF next.op \in {"LEAVE", "END"} THEN DOMAIN File ELSE 1 .. next.file - 1
    BY DEF FilesDone, next
  <2>2. CASE request.op = "BEGIN" /\ request.file = 1
    <3>1. next.op = "DATA" /\ next.file = 1
      BY <1>3, <2>2
    <3>2. FilesDone' = {}
      BY <2>1, <3>1
    <3> QED BY <3>1, <3>2
  <2>3. CASE ~(request.op = "BEGIN" /\ request.file = 1)
    <3>1. AtFiles /\ MayAnswer
      BY <1>13, <2>3
    <3>2. request.op \in {"BEGIN", "DATA", "MD5", "LEAVE", "READ"}
      BY <1>1, <3>1 DEF AtFiles, Running
    <3>3. 1 \in DOMAIN answers /\ answers[1].op = request.op /\ answers[1].ok
          /\ (request.op = "MD5" => answers[1].hash = Image(request.file))
      BY <1>1, <1>6, <3>2
    <3>4. /\ \A f \in FilesDone : Written(f)
          /\ request.op \in {"BEGIN", "LEAVE", "END"} => job.stage # "write"
          /\ request.op \in {"DATA", "READ", "MD5"} /\ request.file # 1 => Within(fs, Sectors(request.file))
          /\ request.op = "BEGIN" => Within(fs, Sectors(request.file))
          /\ request.op = "MD5" => job.stage # "write" /\ Written(request.file)
      BY <3>1, <3>3 DEF InPlace
    <3>5. CASE request.op = "MD5"
      <4>1. FilesDone = 1 .. request.file - 1 /\ request.file \in Nat /\ request.file # 0
        BY <1>2, <3>5, FrameType, FilesType DEF FilesDone
      <4>2. FilesDone' = 1 .. request.file /\ next.op \in {"BEGIN", "LEAVE"}
        <5>1. \A n \in Nat : (n + 1) - 1 = n
          OBVIOUS
        <5> QED BY <1>3, <2>1, <3>5, <4>1, <5>1
      <4>3. \A f \in 1 .. request.file : f \in 1 .. request.file - 1 \/ f = request.file
        BY <4>1
      <4> QED BY <3>4, <3>5, <4>1, <4>2, <4>3
    <3>6. CASE request.op # "MD5"
      <4>1. /\ \/ next.op \in {"DATA", "READ", "MD5"} /\ next.file = request.file
                  /\ request.op \in {"BEGIN", "DATA", "READ"}
               \/ next.op = "END" /\ request.op = "LEAVE"
        <5>1. request.op = "READ" => request.file # 0
          BY <3>1 DEF AtFiles, Running
        <5> QED BY <1>3, <3>2, <3>6, <5>1
      <4>2. FilesDone' = FilesDone
        BY <2>1, <4>1 DEF FilesDone
      <4>3. request.op \in {"BEGIN", "DATA", "READ"} /\ request.file # 1 => Within(fs, Sectors(request.file))
        BY <3>4
      <4> QED BY <3>4, <4>1, <4>2, <4>3
    <3> QED BY <3>5, <3>6
  <2> QED BY <2>2, <2>3
<1>17. Finished'
  BY <1>1 DEF Finished
<1> QED BY <1>7, <1>8, <1>9, <1>10, <1>11, <1>14, <1>15, <1>16, <1>17

-------------------------------------------------------------------------------
(* Each action is one of those steps.                                            *)

\* What is left of the answers when esptool has skipped one or when one got damaged.
LEMMA SameThins ==
    ASSUME AnswersTyped, UNCHANGED <<answers, got, deceived>>
    PROVE  \E h : Thins(h)
<1> DEFINE h == [i \in 1 .. Len(answers) |-> i]
<1>1. Len(answers) \in Nat
  BY AnswersDomain
<1>2. answers' = answers /\ got' = got
  OBVIOUS
<1>3. \A i : SyncBefore(i)' <=> SyncBefore(i)
  BY <1>2 DEF SyncBefore
<1>4. SyncBefore(Len(answers) + 1)' => SyncBefore(Len(answers) + 1)
  BY <1>2 DEF SyncBefore
<1>5. /\ h \in [1 .. Len(answers') -> 1 .. Len(answers)]
      /\ \A i \in 1 .. Len(answers') : h[i] = i
  BY <1>1, <1>2
<1> HIDE DEF h
<1>6. Thins(h)
  BY <1>2, <1>3, <1>4, <1>5 DEF Thins
<1> QED BY <1>6

LEMMA TailThins ==
    ASSUME AnswersTyped, answers # <<>>, answers' = Tail(answers),
           got' > 0 => got > 0 \/ answers[1].op = "SYNC", UNCHANGED deceived
    PROVE  \E h : Thins(h)
<1> DEFINE m == Len(answers)
           n == Len(answers')
           h == [i \in 1 .. n |-> i + 1]
<1>1. answers \in Seq(Answers) /\ m \in Nat /\ m # 0
  BY DEF AnswersTyped
<1>2. n = m - 1 /\ n \in Nat /\ \A i \in 1 .. n : answers'[i] = answers[i + 1]
  BY <1>1, HeadTailProperties
<1>3. /\ \A i : SyncBefore(i) <=> got > 0 \/ \E j \in 1 .. i - 1 : answers[j].op = "SYNC"
      /\ \A i : SyncBefore(i)' <=> got' > 0 \/ \E j \in 1 .. i - 1 : answers'[j].op = "SYNC"
      /\ SyncBefore(m + 1)' <=> got' > 0 \/ \E j \in 1 .. (n + 1) - 1 : answers'[j].op = "SYNC"
  BY DEF SyncBefore
<1> HIDE DEF m, n
<1>4. ASSUME NEW i \in 1 .. n + 1,
             got' > 0 \/ \E j \in 1 .. i - 1 : answers'[j].op = "SYNC"
      PROVE  SyncBefore(i + 1)
  <2>1. 1 \in 1 .. (i + 1) - 1
    BY <1>2
  <2>2. CASE got' > 0
    BY <1>3, <2>1, <2>2
  <2>3. ASSUME NEW j \in 1 .. i - 1, answers'[j].op = "SYNC" PROVE SyncBefore(i + 1)
    <3>1. j \in 1 .. n /\ j + 1 \in 1 .. (i + 1) - 1
      BY <1>2
    <3> QED BY <1>2, <1>3, <2>3, <3>1
  <2> QED BY <1>4, <2>2, <2>3
<1>5. SyncBefore(m + 1)' => SyncBefore(m + 1)
  <2>1. n + 1 \in 1 .. n + 1 /\ (n + 1) + 1 = m + 1
    BY <1>1, <1>2
  <2> QED BY <1>3, <1>4, <2>1
<1>6. \A i \in 1 .. n : SyncBefore(i)' => SyncBefore(i + 1)
  <2> TAKE i \in 1 .. n
  <2>1. i \in 1 .. n + 1
    BY <1>2
  <2> QED BY <1>3, <1>4, <2>1
<1>7. /\ h \in [1 .. n -> 1 .. m]
      /\ \A i, j \in 1 .. n : i < j => h[i] < h[j]
      /\ \A i \in 1 .. n : h[i] = i + 1
  BY <1>1, <1>2
<1> HIDE DEF h
<1>8. Thins(h)
  BY <1>2, <1>5, <1>6, <1>7 DEF Thins, m, n
<1> QED BY <1>8

\* A sequence without its k-th element.
LEMMA Without ==
    ASSUME NEW S, NEW s \in Seq(S), NEW k \in 1 .. Len(s)
    PROVE  LET t == SubSeq(s, 1, k - 1) \o SubSeq(s, k + 1, Len(s))
           IN /\ Len(t) = Len(s) - 1
              /\ \A i \in 1 .. Len(t) : t[i] = IF i < k THEN s[i] ELSE s[i + 1]
<1> DEFINE m == Len(s)
           s1 == SubSeq(s, 1, k - 1)
           s2 == SubSeq(s, k + 1, m)
           t == s1 \o s2
<1>1. m \in Nat /\ k \in 1 .. m /\ k \in Int /\ \A i \in 1 .. m : s[i] \in S
  OBVIOUS
<1> HIDE DEF m
<1>2. s1 \in Seq(S) /\ Len(s1) = k - 1 /\ \A i \in 1 .. k - 1 : s1[i] = s[i]
  <2>1. \A i \in 1 .. k - 1 : s[i] \in S
    BY <1>1
  <2>2. k - 1 \in Int /\ 1 \in Int
    BY <1>1
  <2>3. /\ s1 \in Seq(S)
        /\ Len(s1) = IF 1 <= k - 1 THEN (k - 1) - 1 + 1 ELSE 0
        /\ \A i \in 1 .. (k - 1) - 1 + 1 : s1[i] = s[1 + i - 1]
    BY <2>1, <2>2, SubSeqProperties
  <2> HIDE DEF s1
  <2> QED BY <1>1, <2>3
<1>3. s2 \in Seq(S) /\ Len(s2) = m - k /\ \A i \in 1 .. m - k : s2[i] = s[k + i]
  <2>1. \A i \in k + 1 .. m : s[i] \in S
    BY <1>1
  <2>2. k + 1 \in Int /\ m \in Int
    BY <1>1
  <2>3. /\ s2 \in Seq(S)
        /\ Len(s2) = IF k + 1 <= m THEN m - (k + 1) + 1 ELSE 0
        /\ \A i \in 1 .. m - (k + 1) + 1 : s2[i] = s[k + 1 + i - 1]
    BY <2>1, <2>2, SubSeqProperties
  <2> HIDE DEF s2
  <2>4. Len(s2) = m - k
    BY <1>1, <2>3
  <2>5. \A i \in 1 .. m - k : i \in 1 .. m - (k + 1) + 1 /\ k + 1 + i - 1 = k + i
    BY <1>1
  <2> QED BY <2>3, <2>4, <2>5
<1> HIDE DEF s1, s2
<1>4. /\ Len(t) = Len(s1) + Len(s2)
      /\ \A i \in 1 .. Len(s1) + Len(s2) :
            t[i] = IF i <= Len(s1) THEN s1[i] ELSE s2[i - Len(s1)]
  BY <1>2, <1>3, ConcatProperties
<1> HIDE DEF t
<1>5. Len(t) = m - 1 /\ Len(s1) + Len(s2) = Len(t)
  BY <1>1, <1>2, <1>3, <1>4
<1>6. ASSUME NEW i \in 1 .. Len(t)
      PROVE  t[i] = IF i < k THEN s[i] ELSE s[i + 1]
  <2>1. i \in 1 .. m - 1 /\ i \in 1 .. Len(s1) + Len(s2)
    BY <1>5
  <2>2. CASE i < k
    <3>1. i \in 1 .. k - 1 /\ i <= Len(s1)
      BY <1>1, <1>2, <2>1, <2>2
    <3> QED BY <1>2, <1>4, <2>1, <2>2, <3>1
  <2>3. CASE ~(i < k)
    <3>1. ~(i <= k - 1) /\ i - (k - 1) \in 1 .. m - k /\ k + (i - (k - 1)) = i + 1
      BY <1>1, <2>1, <2>3
    <3> QED BY <1>2, <1>3, <1>4, <2>1, <2>3, <3>1
  <2> QED BY <2>2, <2>3
<1> QED BY <1>5, <1>6 DEF m, t, s1, s2

LEMMA LossThins ==
    ASSUME AnswersTyped, NEW k \in 1 .. Len(answers), UNCHANGED <<got, deceived>>,
           Len(answers') = Len(answers) - 1,
           \A i \in 1 .. Len(answers') :
              answers'[i] = IF i < k THEN answers[i] ELSE answers[i + 1]
    PROVE  \E h : Thins(h)
<1> DEFINE m == Len(answers)
           n == Len(answers')
           h == [i \in 1 .. n |-> IF i < k THEN i ELSE i + 1]
<1>1. /\ m \in Nat /\ k \in 1 .. m /\ n = m - 1 /\ n \in Nat
      /\ \A i \in 1 .. n : answers'[i] = IF i < k THEN answers[i] ELSE answers[i + 1]
  BY DEF AnswersTyped
<1>2. /\ \A i : SyncBefore(i) <=> got > 0 \/ \E j \in 1 .. i - 1 : answers[j].op = "SYNC"
      /\ \A i : SyncBefore(i)' <=> got > 0 \/ \E j \in 1 .. i - 1 : answers'[j].op = "SYNC"
      /\ SyncBefore(m + 1)' <=> got > 0 \/ \E j \in 1 .. (n + 1) - 1 : answers'[j].op = "SYNC"
  BY DEF SyncBefore
<1> HIDE DEF m, n
<1>3. /\ h \in [1 .. n -> 1 .. m]
      /\ \A i, j \in 1 .. n : i < j => h[i] < h[j]
      /\ \A i \in 1 .. n : answers'[i] = answers[h[i]]
  <2>1. \A i \in 1 .. n : (IF i < k THEN i ELSE i + 1) \in 1 .. m
    BY <1>1
  <2>2. h \in [1 .. n -> 1 .. m]
    BY <2>1
  <2>3. \A i \in 1 .. n : h[i] = IF i < k THEN i ELSE i + 1
    OBVIOUS
  <2> HIDE DEF h
  <2>4. ASSUME NEW i \in 1 .. n, NEW j \in 1 .. n, i < j PROVE h[i] < h[j]
    <3>1. k \in Int /\ i \in Int /\ j \in Int
      BY <1>1
    <3>2. (IF i < k THEN i ELSE i + 1) < (IF j < k THEN j ELSE j + 1)
      BY <2>4, <3>1
    <3> QED BY <2>3, <3>2
  <2>5. ASSUME NEW i \in 1 .. n PROVE answers'[i] = answers[h[i]]
    <3>1. CASE i < k
      BY <1>1, <2>3, <3>1
    <3>2. CASE ~(i < k)
      BY <1>1, <2>3, <3>2
    <3> QED BY <3>1, <3>2
  <2> QED BY <2>2, <2>4, <2>5
<1> HIDE DEF h
<1>4. SyncBefore(m + 1)' => SyncBefore(m + 1)
  <2>1. /\ \A j \in 1 .. (n + 1) - 1 : j \in 1 .. n
        /\ \A a \in 1 .. m : a \in 1 .. (m + 1) - 1
    BY <1>1
  <2>2. \A j \in 1 .. (n + 1) - 1 : h[j] \in 1 .. (m + 1) - 1 /\ answers'[j] = answers[h[j]]
    BY <1>3, <2>1
  <2> QED BY <1>2, <2>2
<1>5. ASSUME NEW i \in 1 .. n PROVE SyncBefore(i)' => SyncBefore(h[i])
  <2>1. \A j \in 1 .. i - 1 : j \in 1 .. n /\ j < i
    BY <1>1
  <2>2. \A a, b \in 1 .. m : a < b => a \in 1 .. b - 1
    BY <1>1
  <2>3. \A j \in 1 .. i - 1 : h[j] \in 1 .. m /\ h[i] \in 1 .. m /\ h[j] < h[i]
    BY <1>3, <2>1
  <2>4. \A j \in 1 .. i - 1 : h[j] \in 1 .. h[i] - 1 /\ answers'[j] = answers[h[j]]
    BY <1>3, <2>1, <2>2, <2>3
  <2>5. /\ SyncBefore(i)' <=> got > 0 \/ \E j \in 1 .. i - 1 : answers'[j].op = "SYNC"
        /\ SyncBefore(h[i]) <=> got > 0 \/ \E j \in 1 .. h[i] - 1 : answers[j].op = "SYNC"
    BY <1>2
  <2> QED BY <2>4, <2>5
<1>6. Thins(h)
  <2>1. \A i \in 1 .. n : answers'[i] = answers[h[i]]
    BY <1>3
  <2>2. deceived' = deceived
    OBVIOUS
  <2> QED BY <1>3, <1>4, <1>5, <2>1 DEF Thins, m, n
<1> QED BY <1>6

\* The answers stay as many and of what they are of.
LEMMA ChangeThins ==
    ASSUME AnswersTyped, Len(answers') = Len(answers), UNCHANGED got,
           \A i \in 1 .. Len(answers) :
              /\ answers'[i].op = answers[i].op /\ answers'[i].hash = answers[i].hash
              /\ answers'[i].op = "BEGIN" /\ answers'[i].ok /\ ~deceived' => answers[i].ok
    PROVE  \E h : Thins(h)
<1> DEFINE m == Len(answers)
           h == [i \in 1 .. m |-> i]
<1>1. m \in Nat
  BY AnswersDomain
<1>2. /\ \A i : SyncBefore(i) <=> got > 0 \/ \E j \in 1 .. i - 1 : answers[j].op = "SYNC"
      /\ \A i : SyncBefore(i)' <=> got > 0 \/ \E j \in 1 .. i - 1 : answers'[j].op = "SYNC"
      /\ SyncBefore(m + 1)' <=> got > 0 \/ \E j \in 1 .. (m + 1) - 1 : answers'[j].op = "SYNC"
  BY DEF SyncBefore
<1>3. /\ h \in [1 .. m -> 1 .. m]
      /\ \A i \in 1 .. m : h[i] = i
  BY <1>1
<1> HIDE DEF h
<1>4. \A i \in 1 .. m + 1 : \A j \in 1 .. i - 1 : j \in 1 .. m
  BY <1>1
<1>5. SyncBefore(m + 1)' => SyncBefore(m + 1)
  <2>1. m + 1 \in 1 .. m + 1
    BY <1>1
  <2> QED BY <1>2, <1>4, <2>1
<1>6. \A i \in 1 .. m : SyncBefore(i)' => SyncBefore(i)
  <2>1. \A i \in 1 .. m : i \in 1 .. m + 1
    BY <1>1
  <2> QED BY <1>2, <1>4, <2>1
<1>7. Thins(h)
  BY <1>1, <1>3, <1>5, <1>6 DEF Thins
<1> QED BY <1>7

\* One answer more, or many to a SYNC.
LEMMA OneGrows ==
    ASSUME AnswersTyped, NEW a \in Answers, answers' = Append(answers, a)
    PROVE  Grows(a.op) /\ answers'[Len(answers')] = a
<1>1. /\ Len(answers) \in Nat /\ Len(answers') = Len(answers) + 1
      /\ \A i \in 1 .. Len(answers) : answers'[i] = answers[i]
      /\ answers'[Len(answers) + 1] = a
  BY AppendProperties DEF AnswersTyped
<1>2. \A i \in Len(answers) + 1 .. Len(answers') : i = Len(answers) + 1
  BY <1>1
<1> QED BY <1>1, <1>2 DEF Grows

LEMMA ManyGrow ==
    ASSUME AnswersTyped, NEW a \in Answers, a.op = "SYNC", NEW n \in Nat, n > 0,
           answers' = answers \o [i \in 1 .. n |-> a]
    PROVE  Grows("SYNC")
<1> DEFINE many == [i \in 1 .. n |-> a]
<1>1. many \in Seq(Answers) /\ Len(many) = n /\ \A i \in 1 .. n : many[i] = a
  OBVIOUS
<1>2. answers' = answers \o many
  OBVIOUS
<1> HIDE DEF many
<1>3. /\ Len(answers') = Len(answers) + n
      /\ \A i \in 1 .. Len(answers) + n :
            answers'[i] = IF i <= Len(answers) THEN answers[i] ELSE many[i - Len(answers)]
  BY <1>1, <1>2, ConcatProperties DEF AnswersTyped
<1>4. Len(answers) \in Nat
  BY DEF AnswersTyped
<1>5. \A i \in 1 .. Len(answers) : answers'[i] = answers[i]
  BY <1>3, <1>4
<1>6. ASSUME NEW i \in Len(answers) + 1 .. Len(answers') PROVE answers'[i].op = "SYNC"
  <2>1. i - Len(answers) \in 1 .. n /\ ~(i <= Len(answers)) /\ i \in 1 .. Len(answers) + n
    BY <1>3, <1>4
  <2> QED BY <1>1, <1>3, <2>1
<1>7. Len(answers') > Len(answers)
  BY <1>3, <1>4
<1> QED BY <1>5, <1>6, <1>7 DEF Grows

LEMMA AnswerFields ==
    /\ \A op, ok, val, hash : LET a == Answer(op, ok, val, hash)
                              IN a.op = op /\ a.ok = ok /\ a.hash = hash
    /\ \A op \in Ops, ok \in BOOLEAN, val \in {"zero", "register"} :
          LET a == Answer(op, ok, val, <<>>) IN a \in Answers /\ a.op = op /\ a.ok = ok
<1>1. \A op, ok, val, hash : LET a == Answer(op, ok, val, hash)
                             IN a.op = op /\ a.ok = ok /\ a.hash = hash
  BY DEF Answer
<1> QED BY <1>1, PlainAnswerType

LEMMA HandlesWhat ==
    ASSUME Typed, NEW op, Handles(op)
    PROVE  /\ job.stage = "took" /\ Block.op = op
           /\ ub'.slip = ub.slip /\ ub'.reading = ub.reading /\ ub'.buf = ub.buf
           /\ ub'.command = None /\ flash' = flash /\ out' = out
<1>1. ub \in UbType
  BY DEF Typed, StubTyped
<1>2. ub' = [ub EXCEPT !.command = None]
  BY DEF Handles
<1>3. ub'.slip = ub.slip /\ ub'.reading = ub.reading /\ ub'.buf = ub.buf /\ ub'.command = None
  BY <1>1, <1>2 DEF UbType
<1> QED BY <1>3 DEF Handles

\* A BEGIN whose place has not changed.
LEMMA BeginsOf ==
    ASSUME StubTyped, StubBegins, Block.op = "BEGIN", Block.sound = "good"
    PROVE  fs' = Begun(File[Block.file].at, Size(Block.file))
<1> DEFINE f == Block.file
<1>1. fs' = [Begun(File[f].at, Size(f)) EXCEPT !.inflator = Fresh]
  BY DEF StubBegins, Named
<1>2. Begun(File[f].at, Size(f)).inflator = Fresh
  BY DEF Begun
<1> QED BY <1>1, <1>2 DEF Begun

\* Each command but MEM_END.
LEMMA WorksExecutes ==
    ASSUME Typed, AnswersTyped', chip = "stub",
           UNCHANGED <<verdict, request, got, wire, chip>>,
           deceived' = (deceived \/ Misled({"BEGIN", "MD5"})),
           \/ StubSyncs \/ StubReads \/ StubLoads \/ StubBegins \/ StubAcknowledges
           \/ StubHashes \/ StubEnds \/ StubRefuses
    PROVE  Executes
<1>1. AnswersTyped /\ job \in JobType /\ Block \in Frames
  BY BlockType DEF Typed, StubTyped
<1>2. /\ Block.op \in Ops /\ Block.sound \in {"good", "caught", "missed"}
      /\ Block.op = "MD5" => Block.file \in DOMAIN File
  BY <1>1, FrameType
<1>3. /\ Finishes => job'.stage = "wait"
      /\ deceived => deceived'
  BY <1>1 DEF Finishes, JobType
<1>4. ASSUME NEW ok \in BOOLEAN, Acknowledge(ok)
      PROVE  Grows(Block.op) /\ answers'[Len(answers')].ok = ok
  <2> DEFINE a == Answer(Block.op, ok, "zero", <<>>)
  <2>1. a \in Answers /\ a.op = Block.op /\ a.ok = ok
    BY <1>2, PlainAnswerType, AnswerFields
  <2>2. answers' = Append(answers, a)
    BY <1>4 DEF Acknowledge
  <2> HIDE DEF a
  <2> QED BY <1>1, <2>1, <2>2, OneGrows
<1>5. ASSUME NEW op \in Ops \ {"OHAI", "DATA", "BEGIN", "MD5"}, Handles(op), Finishes, Grows(op),
             op = "READ" => fs' = fs
      PROVE  Executes
  <2>1. /\ job.stage = "took" /\ Block.op = op
        /\ ub'.slip = ub.slip /\ ub'.reading = ub.reading /\ ub'.buf = ub.buf
        /\ ub'.command = None /\ flash' = flash
    BY <1>5, HandlesWhat
  <2> QED BY <1>3, <1>5, <2>1 DEF Executes
<1>6. CASE StubSyncs
  <2> DEFINE ok == Block.sound = "good"
             a == Answer("SYNC", ok, "zero", <<>>)
             n == IF ok THEN SyncAnswers ELSE 1
  <2>1. answers' = answers \o [i \in 1 .. n |-> a] /\ Handles("SYNC") /\ Finishes
    BY <1>6 DEF StubSyncs
  <2>2. a \in Answers /\ a.op = "SYNC"
    <3>1. ok \in BOOLEAN /\ "SYNC" \in Ops
      BY DEF Ops
    <3> HIDE DEF ok
    <3> QED BY <3>1, AnswerFields
  <2>3. n \in Nat /\ n > 0
    BY FilesType
  <2> HIDE DEF a, n
  <2>4. Grows("SYNC")
    BY <1>1, <2>1, <2>2, <2>3, ManyGrow
  <2> QED BY <1>5, <2>1, <2>4 DEF Ops
<1>7. CASE StubReads
  <2> DEFINE ok == Block.sound = "good"
             a == Answer("READ", ok, "register", <<>>)
  <2>1. answers' = Append(answers, a) /\ Handles("READ") /\ Finishes /\ fs' = fs
    BY <1>7 DEF StubReads
  <2>2. a \in Answers /\ a.op = "READ"
    <3>1. ok \in BOOLEAN /\ "READ" \in Ops
      BY DEF Ops
    <3> HIDE DEF ok
    <3> QED BY <3>1, AnswerFields
  <2> HIDE DEF a
  <2>3. Grows("READ")
    BY <1>1, <2>1, <2>2, OneGrows
  <2> QED BY <1>5, <2>1, <2>3 DEF Ops
<1>8. CASE StubLoads
  <2>1. Handles("MEM") /\ Finishes /\ Acknowledge(Block.sound = "good") /\ Block.op = "MEM"
    BY <1>8 DEF StubLoads, Handles
  <2>2. Grows("MEM")
    BY <1>4, <2>1
  <2> QED BY <1>5, <2>1, <2>2 DEF Ops
<1>9. CASE StubEnds
  <2> DEFINE may == fs.in_flash_mode /\ fs.remaining = 0
             ok == may /\ ~fs.last_error
  <2>1. Handles("END") /\ Finishes /\ Acknowledge(ok) /\ Block.op = "END"
    BY <1>9 DEF StubEnds, Handles
  <2>2. ok \in BOOLEAN
    BY DEF Typed, StubTyped, Good, FlashingState
  <2> HIDE DEF ok
  <2>3. Grows("END")
    BY <1>4, <2>1, <2>2
  <2> QED BY <1>5, <2>1, <2>3 DEF Ops
<1>10. CASE StubRefuses
  <2>1. Handles("none") /\ Finishes /\ Acknowledge(FALSE) /\ Block.op = "none"
    BY <1>10 DEF StubRefuses, Handles
  <2>2. Grows("none")
    BY <1>4, <2>1
  <2> QED BY <1>5, <2>1, <2>2 DEF Ops
<1>11. CASE StubBegins
  <2> DEFINE ok == Block.sound # "caught"
  <2>1. Finishes /\ Acknowledge(ok) /\ ok \in BOOLEAN
    BY <1>11 DEF StubBegins
  <2>2. \/ /\ Handles("BEGIN") /\ Block.op = "BEGIN"
           /\ ok /\ ~deceived' => fs' = Begun(File[Block.file].at, Size(Block.file))
        \/ Handles("LEAVE") /\ Block.op = "LEAVE"
    <3>1. (Handles("BEGIN") /\ Block.op = "BEGIN") \/ (Handles("LEAVE") /\ Block.op = "LEAVE")
      BY <1>11 DEF StubBegins, Handles
    <3>2. ASSUME Handles("BEGIN"), Block.op = "BEGIN", ok, ~deceived'
          PROVE  fs' = Begun(File[Block.file].at, Size(Block.file))
      <4>1. Block.sound # "missed" /\ Block.sound # "caught"
        BY <3>2 DEF Misled, Handles
      <4>2. Block.sound = "good"
        BY <1>2, <4>1
      <4> QED BY <1>11, <3>2, <4>2, BeginsOf DEF Typed
    <3> QED BY <3>1, <3>2
  <2> HIDE DEF ok
  <2>3. Grows(Block.op) /\ answers'[Len(answers')].ok = ok
    BY <1>4, <2>1
  <2>4. CASE Handles("LEAVE") /\ Block.op = "LEAVE"
    BY <1>5, <2>1, <2>3, <2>4 DEF Ops
  <2>5. CASE Handles("BEGIN") /\ Block.op = "BEGIN" /\ (ok /\ ~deceived' => fs' = Begun(File[Block.file].at, Size(Block.file)))
    <3>1. /\ job.stage = "took"
          /\ ub'.slip = ub.slip /\ ub'.reading = ub.reading /\ ub'.buf = ub.buf
          /\ ub'.command = None /\ flash' = flash
      BY <2>5, HandlesWhat
    <3> QED BY <1>3, <2>1, <2>3, <2>5, <3>1 DEF Executes
  <2> QED BY <2>2, <2>4, <2>5
<1>12. CASE StubAcknowledges
  <2> DEFINE ok == fs.in_flash_mode /\ ~fs.last_error /\ Block.sound # "caught"
  <2>1. /\ Handles("DATA") /\ Acknowledge(ok) /\ fs' = fs /\ Block.op = "DATA"
        /\ job' = [job EXCEPT !.stage = IF ok THEN "write" ELSE "wait",
                              !.next = First(Block.file, Block.seq)]
    BY <1>12 DEF StubAcknowledges, Handles
  <2>2. ok \in BOOLEAN
    BY DEF Typed, StubTyped, Good, FlashingState
  <2> HIDE DEF ok
  <2>3. Grows("DATA")
    BY <1>4, <2>1, <2>2
  <2>4. job'.stage # "took"
    BY <1>1, <2>1 DEF JobType
  <2>5. /\ job.stage = "took"
        /\ ub'.slip = ub.slip /\ ub'.reading = ub.reading /\ ub'.buf = ub.buf
        /\ ub'.command = None /\ flash' = flash
    BY <2>1, HandlesWhat
  <2> QED BY <2>1, <2>3, <2>4, <2>5 DEF Executes
<1>13. CASE StubHashes
  <2> DEFINE f == Block.file
             ok == Block.sound # "caught"
  <2>1. Handles("MD5") /\ Finishes /\ fs' = fs /\ Block.op = "MD5" /\ ok \in BOOLEAN
    BY <1>13 DEF StubHashes, Handles
  <2>2. PICK p \in Named :
           answers' = Append(answers, Answer("MD5", ok, "zero",
                                             [i \in 1 .. p.size |-> flash[p.at + i - 1]]))
    BY <1>13 DEF StubHashes
  <2> DEFINE hash == [i \in 1 .. p.size |-> flash[p.at + i - 1]]
             a == Answer("MD5", ok, "zero", hash)
  <2>3. answers' = Append(answers, a) /\ a.op = "MD5" /\ a.hash = hash
    BY <2>2, AnswerFields
  <2>4. ~deceived' => \A i \in 1 .. Size(f) : hash[i] = flash[File[f].at + i - 1]
    <3>1. ~deceived' => Block.sound # "missed"
      BY <2>1 DEF Misled, Handles
    <3>2. Block.sound # "missed" => p = [at |-> File[f].at, size |-> Size(f)]
      BY <2>1 DEF Named
    <3> QED BY <3>1, <3>2
  <2>5. a \in Answers
    <3>1. hash \in Seq(Content)
      BY <2>1, HashType DEF Typed
    <3> HIDE DEF hash, ok
    <3> QED BY <2>1, <3>1, AnswerType DEF Ops
  <2> HIDE DEF a, hash
  <2>6. Grows("MD5") /\ answers'[Len(answers')] = a
    BY <1>1, <2>3, <2>5, OneGrows
  <2>7. /\ job.stage = "took"
        /\ ub'.slip = ub.slip /\ ub'.reading = ub.reading /\ ub'.buf = ub.buf
        /\ ub'.command = None /\ flash' = flash
    BY <2>1, HandlesWhat
  <2> QED BY <1>3, <2>1, <2>3, <2>4, <2>6, <2>7 DEF Executes
<1> QED BY <1>6, <1>7, <1>8, <1>9, <1>10, <1>11, <1>12, <1>13

\* MEM_END starts the stub anew, unless it came damaged.
LEMMA JumpsExecutes ==
    ASSUME Typed, StubRestarts
    PROVE  Executes
<1>1. AnswersTyped /\ job \in JobType /\ ub \in UbType
  BY DEF Typed, StubTyped
<1>2. /\ chip = "stub" /\ job.stage = "took" /\ Block.op = "MEM_END"
      /\ Acknowledge(Block.sound = "good")
      /\ UNCHANGED <<verdict, request, got, wire, flash, deceived>>
  BY DEF StubRestarts, StubJumps, tool, NoFault, history
<1>3. Grows("MEM_END")
  <2> DEFINE ok == Block.sound = "good"
             a == Answer(Block.op, ok, "zero", <<>>)
  <2>1. a \in Answers /\ a.op = "MEM_END"
    <3>1. ok \in BOOLEAN /\ Block.op \in Ops
      BY <1>2 DEF Ops
    <3> HIDE DEF ok
    <3> QED BY <1>2, <3>1, AnswerFields
  <2>2. answers' = Append(answers, a)
    BY <1>2 DEF Acknowledge
  <2> HIDE DEF a
  <2> QED BY <1>1, <2>1, <2>2, OneGrows
<1>4. CASE Block.sound = "good"
  <2>1. ub' = NewUart /\ job' = NewJob /\ chip' = "starting"
    BY <1>4 DEF StubRestarts, StubJumps, Restarts
  <2>2. job'.stage = "wait" /\ ub'.command = None
    BY <2>1 DEF NewUart, NewJob
  <2> QED BY <1>2, <1>3, <2>1, <2>2 DEF Executes
<1>5. CASE Block.sound # "good"
  <2>1. ub' = [ub EXCEPT !.command = None] /\ Finishes /\ chip' = "stub"
    BY <1>5 DEF StubRestarts, StubJumps
  <2>2. /\ job'.stage = "wait" /\ ub'.command = None
        /\ ub'.slip = ub.slip /\ ub'.reading = ub.reading /\ ub'.buf = ub.buf
    BY <1>1, <2>1 DEF Finishes, JobType, UbType
  <2> QED BY <1>2, <1>3, <2>1, <2>2 DEF Executes
<1> QED BY <1>4, <1>5

LEMMA FrameOf ==
    \A op, file, seq : LET r == Frame(op, file, seq) IN r.op = op /\ r.file = file /\ r.seq = seq
BY DEF Frame

LEMMA NoAnswers == AnswersTyped => (answers # <<>> => Head(answers) = answers[1])
BY DEF AnswersTyped

\* esptool connects ...
LEMMA ConnectsKeeps ==
    ASSUME ToolStarts \/ ToolTriesAgain
    PROVE  DoneInv'
<1>1. PICK n : Connects(n)
  <2>1. CASE ToolStarts
    BY <2>1 DEF ToolStarts
  <2>2. CASE ToolTriesAgain
    BY <2>2 DEF ToolTriesAgain
  <2> QED BY <2>1, <2>2
<1>2. request'.op = "SYNC" /\ wire' = request' /\ verdict' = "running" /\ answers' = <<>> /\ got' = 0
  BY <1>1, FrameOf DEF Connects
<1> QED BY <1>2, EndsKeeps

\* ... ends without success, skips an answer ...
LEMMA FailsKeeps ==
    ASSUME Ends("failed")
    PROVE  DoneInv'
BY EndsKeeps DEF Ends

LEMMA SkipsKeeps ==
    ASSUME Typed, Typed', DoneInv, answers # <<>>, answers' = Tail(answers),
           got' > 0 => got > 0 \/ answers[1].op = "SYNC",
           UNCHANGED <<verdict, request, wire, chip, stub, flash, deceived>>
    PROVE  DoneInv'
<1>1. \E h : Thins(h)
  BY TailThins DEF Typed
<1>2. QuietStep
  BY <1>1 DEF QuietStep
<1> QED BY <1>2, QuietKeeps DEF Typed

\* ... or goes on.
LEMMA GoesOnMoves ==
    ASSUME Typed, verdict = "running", request.op \notin {"END", "SYNC"},
           NEW others, GoesOn(others), others = <<>> \/ (answers # <<>> /\ others = Tail(answers)),
           UNCHANGED <<chip, stub, flash, deceived>>,
           request.op # "MEM_END" =>
              /\ answers # <<>> /\ answers[1].op = request.op
              /\ request.op # "OHAI" =>
                    answers[1].ok /\ (request.op = "MD5" => answers[1].hash = Image(request.file))
    PROVE  Moves
<1>1. /\ request' = After(request) /\ got' = 0 /\ verdict' = verdict
      /\ wire' = IF request'.op = "OHAI" THEN wire ELSE request'
      /\ request'.op # "OHAI" => wire = None
      /\ answers' = <<>> \/ (answers # <<>> /\ answers' = Tail(answers))
  BY DEF GoesOn
<1> QED BY <1>1 DEF Moves

LEMMA ReadsSyncKeeps ==
    ASSUME Typed, Typed', DoneInv, ToolReadsSync
    PROVE  DoneInv'
<1> DEFINE a == Head(answers)
           taken == a.op # "OHAI" /\ (got > 0 \/ Mine(a))
<1>1. /\ verdict = "running" /\ answers # <<>> /\ request.op = "SYNC" /\ a = answers[1]
      /\ UNCHANGED <<verdict, chip, stub, flash, deceived>>
      /\ got \in Nat
  BY NoAnswers, FilesType DEF ToolReadsSync, Reads, device, NoFault, history, Typed, Skips, tool, ToolTyped
<1>2. IF ~taken THEN Skips
      ELSE /\ answers' = Tail(answers)
           /\ IF AllAnswered(got + 1)
              THEN /\ request' = After(request)
                   /\ wire = None /\ wire' = request'
                   /\ got' = 0
              ELSE got' = got + 1 /\ UNCHANGED <<request, wire>>
  BY DEF ToolReadsSync
<1>3. taken => got > 0 \/ answers[1].op = "SYNC"
  BY <1>1 DEF Mine
<1> HIDE DEF taken
<1>4. CASE ~taken
  <2>1. answers' = Tail(answers) /\ got' = got /\ UNCHANGED <<request, wire>>
    BY <1>2, <1>4 DEF Skips, tool
  <2> QED BY <1>1, <2>1, SkipsKeeps
<1>5. CASE taken /\ ~AllAnswered(got + 1)
  BY <1>1, <1>2, <1>3, <1>5, SkipsKeeps
<1>6. CASE taken /\ AllAnswered(got + 1)
  <2>1. SyncBefore(2)
    <3>1. 1 \in 1 .. 2 - 1
      OBVIOUS
    <3> QED BY <1>3, <1>6, <3>1 DEF SyncBefore
  <2>2. After(request).op = "READ"
    BY <1>1, FrameOf DEF After
  <2>3. Moves
    BY <1>1, <1>2, <1>6, <2>1, <2>2 DEF Moves
  <2> QED BY <2>3, MovesKeeps
<1> QED BY <1>4, <1>5, <1>6

LEMMA ReadsKeep ==
    ASSUME Typed, Typed', DoneInv, ToolReadsGreeting \/ ToolReads
    PROVE  DoneInv'
<1>1. /\ verdict = "running" /\ answers # <<>> /\ Head(answers) = answers[1]
      /\ request.op # "SYNC"
      /\ UNCHANGED <<stub, flash, deceived>>
      /\ \A a : Mine(a) <=> a.op = request.op
  BY NoAnswers DEF ToolReadsGreeting, ToolReads, Reads, NoFault, history, Typed, Mine
<1>2. CASE ToolReadsGreeting
  <2>1. request.op = "OHAI" /\ UNCHANGED chip
        /\ IF Mine(Head(answers)) THEN GoesOn(Tail(answers)) ELSE Ends("failed")
    BY <1>2 DEF ToolReadsGreeting, device
  <2>2. CASE Mine(Head(answers))
    <3>1. Moves
      BY <1>1, <2>1, <2>2, GoesOnMoves
    <3> QED BY <3>1, MovesKeeps
  <2> QED BY <2>1, <2>2, FailsKeeps
<1>3. CASE ToolReads
  <2>1. request.op # "OHAI"
        /\ \/ ~Mine(answers[1]) /\ Skips /\ UNCHANGED chip
           \/ Ends("failed")
           \/ /\ Mine(answers[1]) /\ (request.op = "MEM_END" \/ (Right(answers[1]) /\ request.op # "END"))
              /\ GoesOn(Tail(answers)) /\ UNCHANGED chip
           \/ Mine(answers[1]) /\ request.op = "END" /\ Leaves
    BY <1>1, <1>3 DEF ToolReads, device
  <2>2. CASE Skips /\ UNCHANGED chip
    BY <1>1, <2>2, SkipsKeeps DEF Skips, tool
  <2>3. CASE Ends("failed")
    BY <2>3, FailsKeeps
  <2>4. CASE /\ Mine(answers[1]) /\ (request.op = "MEM_END" \/ (Right(answers[1]) /\ request.op # "END"))
             /\ GoesOn(Tail(answers)) /\ UNCHANGED chip
    <3>1. request.op # "MEM_END" =>
             /\ answers[1].op = request.op /\ answers[1].ok
             /\ request.op = "MD5" => answers[1].hash = Image(request.file)
      BY <1>1, <2>4 DEF Right
    <3>2. request.op # "END"
      BY <2>4
    <3>3. Moves
      BY <1>1, <2>4, <3>1, <3>2, GoesOnMoves
    <3> QED BY <3>3, MovesKeeps
  <2>5. CASE Mine(answers[1]) /\ request.op = "END" /\ Leaves
    <3>1. LeavesChip
      BY <1>1, <2>5 DEF LeavesChip, Leaves, Ends
    <3> QED BY <3>1, LeavesKeeps
  <2> QED BY <2>1, <2>2, <2>3, <2>4, <2>5
<1> QED BY <1>2, <1>3

LEMMA GivesUpKeeps ==
    ASSUME Typed, Typed', DoneInv, ToolGivesUp
    PROVE  DoneInv'
<1>1. /\ verdict = "running" /\ UNCHANGED <<chip, stub, flash, deceived>>
      /\ IF request.op = "MEM_END" THEN GoesOn(<<>>) ELSE Ends("failed")
  BY DEF ToolGivesUp, TimesOut, device
<1>2. CASE request.op = "MEM_END"
  <2>1. Moves
    BY <1>1, <1>2, GoesOnMoves
  <2> QED BY <2>1, MovesKeeps
<1> QED BY <1>1, <1>2, FailsKeeps

\* What happens on the line.
LEMMA ReceptionKeeps ==
    ASSUME Typed, Typed', DoneInv, StubReceives
    PROVE  DoneInv'
<1>1. /\ chip = "stub" /\ wire # None /\ wire' = None
      /\ UNCHANGED <<verdict, request, got, chip, job, fs, flash, answers, deceived>>
      /\ ub' \in Damaged(ub) \union {Received(ub)}
  BY DEF StubReceives, tool, device
<1>2. ub \in UbType /\ wire \in Frames
  BY <1>1 DEF Typed, StubTyped, ToolTyped
<1>3. \/ Silent(ub') \/ PartOf(ub') \/ OldIn(ub')
      \/ \E frame \in Frames : /\ frame.op = wire.op /\ frame.file = wire.file
                               /\ NewIn(ub', frame)
  BY <1>1, <1>2, Reception
<1>4. Receives
  BY <1>1, <1>3 DEF Receives
<1> QED BY <1>4, ReceivesKeeps

LEMMA LostKeeps ==
    ASSUME Typed, Typed', DoneInv, RomReceives \/ NobodyAnswers
    PROVE  DoneInv'
<1>1. /\ wire' = None /\ UNCHANGED <<verdict, request, got, chip, stub, flash, answers, deceived>>
  BY DEF RomReceives, NobodyAnswers, tool, device, NoFault, history
<1>2. QuietStep
  BY <1>1, SameThins DEF QuietStep, Typed
<1> QED BY <1>2, QuietKeeps DEF Typed

LEMMA DamageKeeps ==
    ASSUME Typed, Typed', DoneInv, AnswerDamaged
    PROVE  DoneInv'
<1>1. /\ UNCHANGED <<verdict, request, got, wire, chip, stub, flash>>
      /\ answers \in Seq(Answers) /\ DOMAIN answers = 1 .. Len(answers) /\ Len(answers) \in Nat
  BY DEF AnswerDamaged, tool, device, Typed, AnswersTyped
<1>2. PICK k \in 1 .. Len(answers) :
         \/ answers' = SubSeq(answers, 1, k - 1) \o SubSeq(answers, k + 1, Len(answers)) /\ UNCHANGED deceived
         \/ /\ answers' = [answers EXCEPT ![k].ok = ~@]
            /\ deceived' = (deceived \/ (answers[k].op = "BEGIN" /\ ~answers[k].ok))
         \/ answers' = [answers EXCEPT ![k].val = "register"] /\ UNCHANGED deceived
  BY <1>1 DEF AnswerDamaged
<1>3. CASE answers' = SubSeq(answers, 1, k - 1) \o SubSeq(answers, k + 1, Len(answers)) /\ UNCHANGED deceived
  <2> DEFINE t == SubSeq(answers, 1, k - 1) \o SubSeq(answers, k + 1, Len(answers))
  <2>1. /\ Len(t) = Len(answers) - 1
        /\ \A i \in 1 .. Len(t) : t[i] = IF i < k THEN answers[i] ELSE answers[i + 1]
    BY <1>1, Without
  <2>2. answers' = t
    BY <1>3
  <2> HIDE DEF t
  <2>3. \E h : Thins(h)
    BY <1>1, <1>3, <2>1, <2>2, LossThins DEF Typed
  <2>4. QuietStep
    BY <1>1, <1>3, <2>3 DEF QuietStep
  <2> QED BY <2>4, QuietKeeps DEF Typed
<1>4. \A i \in 1 .. Len(answers) : answers[i] \in [op : Ops, ok : BOOLEAN, val : {"zero", "register"}, hash : Seq(Content)]
  <2>1. \A i \in 1 .. Len(answers) : answers[i] \in Answers
    BY <1>1
  <2> QED BY <2>1 DEF Answers
<1>5. CASE /\ answers' = [answers EXCEPT ![k].ok = ~@]
           /\ deceived' = (deceived \/ (answers[k].op = "BEGIN" /\ ~answers[k].ok))
  <2>1. /\ Len(answers') = Len(answers)
        /\ \A i \in 1 .. Len(answers) : i # k => answers'[i] = answers[i]
        /\ answers'[k] = [answers[k] EXCEPT !.ok = ~@]
    BY <1>1, <1>5
  <2>2. answers'[k].op = answers[k].op /\ answers'[k].hash = answers[k].hash
    BY <1>4, <2>1
  <2>3. answers[k].op = "BEGIN" /\ ~deceived' => answers[k].ok
    BY <1>5
  <2>4. \A i \in 1 .. Len(answers) :
           /\ answers'[i].op = answers[i].op /\ answers'[i].hash = answers[i].hash
           /\ answers'[i].op = "BEGIN" /\ answers'[i].ok /\ ~deceived' => answers[i].ok
    BY <2>1, <2>2, <2>3
  <2>5. \E h : Thins(h)
    BY <1>1, <2>1, <2>4, ChangeThins DEF Typed
  <2>6. deceived => deceived'
    BY <1>5
  <2>7. QuietStep
    BY <1>1, <2>5, <2>6 DEF QuietStep
  <2> QED BY <2>7, QuietKeeps DEF Typed
<1>6. CASE answers' = [answers EXCEPT ![k].val = "register"] /\ UNCHANGED deceived
  <2>1. /\ Len(answers') = Len(answers)
        /\ \A i \in 1 .. Len(answers) : i # k => answers'[i] = answers[i]
        /\ answers'[k] = [answers[k] EXCEPT !.val = "register"]
    BY <1>1, <1>6
  <2>2. answers'[k].op = answers[k].op /\ answers'[k].hash = answers[k].hash
        /\ answers'[k].ok = answers[k].ok
    BY <1>4, <2>1
  <2>3. \A i \in 1 .. Len(answers) :
           /\ answers'[i].op = answers[i].op /\ answers'[i].hash = answers[i].hash
           /\ answers'[i].op = "BEGIN" /\ answers'[i].ok /\ ~deceived' => answers[i].ok
    BY <2>1, <2>2
  <2>4. \E h : Thins(h)
    BY <1>1, <2>1, <2>3, ChangeThins DEF Typed
  <2>5. QuietStep
    BY <1>1, <1>6, <2>4 DEF QuietStep
  <2> QED BY <2>5, QuietKeeps DEF Typed
<1> QED BY <1>2, <1>3, <1>5, <1>6

LEMMA RomKeeps ==
    ASSUME Typed, Typed', LineTyped, DoneInv, RomAnswers
    PROVE  DoneInv'
<1> DEFINE op == Head(loader).op
           a == Answer(op, TRUE, "register", <<>>)
<1>1. /\ chip = "rom" /\ UNCHANGED <<verdict, request, got, wire, stub, flash, deceived>>
      /\ chip' \in {"rom", "starting"}
      /\ op \in {"SYNC", "READ", "MEM", "MEM_END"}
      /\ \/ op = "SYNC" /\ answers' = answers \o [i \in 1 .. SyncAnswers |-> a]
         \/ answers' = Append(answers, a)
  BY DEF RomAnswers, tool, NoFault, history
<1>2. a \in Answers /\ a.op = op
  <2>1. op \in Ops
    BY <1>1 DEF Ops
  <2> HIDE DEF op
  <2> QED BY <2>1, AnswerFields
<1> HIDE DEF a
<1>3. Grows(op)
  BY <1>1, <1>2, FilesType, OneGrows, ManyGrow DEF Typed
<1> HIDE DEF op
<1>4. Greets(op)
  BY <1>1, <1>3 DEF Greets
<1> QED BY <1>4, GreetsKeeps

LEMMA StartsKeeps ==
    ASSUME Typed, Typed', DoneInv, StubStarts
    PROVE  DoneInv'
<1> DEFINE a == Answer("OHAI", TRUE, "zero", <<>>)
<1>1. /\ chip = "starting" /\ chip' = "stub" /\ answers' = Append(answers, a)
      /\ UNCHANGED <<verdict, request, got, wire, stub, flash, deceived>>
  BY DEF StubStarts, tool, NoFault, history
<1>2. a \in Answers /\ a.op = "OHAI"
  BY AnswerFields DEF Ops
<1> HIDE DEF a
<1>3. Grows("OHAI")
  BY <1>1, <1>2, OneGrows DEF Typed
<1>4. Greets("OHAI")
  BY <1>1, <1>3 DEF Greets
<1> QED BY <1>4, GreetsKeeps

\* The stub at work.
LEMMA RunsKeeps ==
    ASSUME Typed, Typed', DoneInv, StubRuns
    PROVE  DoneInv'
<1>1. /\ chip = "stub" /\ UNCHANGED <<verdict, request, got, wire, chip>>
      /\ deceived' = (deceived \/ Misled({"BEGIN", "MD5"}))
  BY DEF StubRuns, tool, device
<1>2. CASE \/ StubSyncs \/ StubReads \/ StubLoads \/ StubBegins \/ StubAcknowledges
           \/ StubHashes \/ StubEnds \/ StubRefuses
  <2>1. Executes
    BY <1>1, <1>2, WorksExecutes DEF Typed
  <2> QED BY <2>1, ExecutesKeeps
<1>3. CASE \/ StubTakes \/ StubHasTooMuch \/ StubInflates(TRUE) \/ StubInflates(FALSE)
           \/ StubInflatesGarbage(FALSE)
  <2>1. UNCHANGED <<ub, answers>> /\ job.stage # "took"
    BY <1>3 DEF StubTakes, StubHasTooMuch, StubInflates, StubInflatesGarbage
  <2>2. deceived' <=> deceived
    BY <1>1, <2>1 DEF Misled
  <2>3. Idles
    BY <1>1, <1>3, <2>1, <2>2 DEF Idles
  <2> QED BY <2>3, IdlesKeeps
<1> QED BY <1>2, <1>3 DEF StubRuns, StubWorks

LEMMA StillKeeps ==
    ASSUME Typed, Typed', DoneInv, UNCHANGED vars
    PROVE  DoneInv'
<1>1. UNCHANGED <<verdict, request, got, wire, chip, stub, flash, answers, deceived>>
  BY DEF vars, tool, device, history
<1>2. QuietStep
  BY <1>1, SameThins DEF QuietStep, Typed
<1> QED BY <1>2, QuietKeeps DEF Typed

LEMMA DoneKept ==
    Typed /\ LineTyped /\ DoneInv /\ [Next]_vars /\ Typed' => DoneInv'
<1> SUFFICES ASSUME Typed, LineTyped, DoneInv, [Next]_vars, Typed' PROVE DoneInv'
  OBVIOUS
<1>1. CASE ToolStarts \/ ToolTriesAgain
  BY <1>1, ConnectsKeeps
<1>2. CASE ToolReadsSync
  BY <1>2, ReadsSyncKeeps
<1>3. CASE ToolReadsGreeting \/ ToolReads
  BY <1>3, ReadsKeep
<1>4. CASE ToolGivesUp
  BY <1>4, GivesUpKeeps
<1>5. CASE StubReceives
  BY <1>5, ReceptionKeeps
<1>6. CASE RomReceives \/ NobodyAnswers
  BY <1>6, LostKeeps
<1>7. CASE RomAnswers
  BY <1>7, RomKeeps
<1>8. CASE StubStarts
  BY <1>8, StartsKeeps
<1>9. CASE AnswerDamaged
  BY <1>9, DamageKeeps
<1>10. CASE StubRuns
  BY <1>10, RunsKeeps
<1>11. CASE StubRestarts
  BY <1>11, JumpsExecutes, ExecutesKeeps
<1>12. CASE UNCHANGED vars
  BY <1>12, StillKeeps
<1> QED
  BY <1>1, <1>2, <1>3, <1>4, <1>5, <1>6, <1>7, <1>8, <1>9, <1>10, <1>11, <1>12 DEF Next

LEMMA InitDone == Init => DoneInv
<1> SUFFICES ASSUME Init PROVE DoneInv
  OBVIOUS
<1>1. verdict = "none"
  BY DEF Init
<1> QED
  BY <1>1
  DEF DoneInv, Sent, AfterSync, AfterRead, AfterGreeting, AfterBegin, OneThing, InBuffers,
      InPlace, Finished, AtFiles, Running

\* Whatever is lost or damaged on the line, however often esptool is run and whether
\* its resets work: the stub's buffers and states are what its code takes them to
\* be, what it has still to erase and to write lies in a file it was told of, and
\* from the first BEGIN's answer on esptool and the stub do one thing at a time, so
\* each file that esptool is past is in the flash.
THEOREM FlashToolInvariance == Spec => []IInv
<1>1. StepInv => Typed /\ LineTyped
  BY StepInvParts DEF Typed, Parts
<1>2. Init => IInv
  BY InitInvariant, InitDone DEF IInv
<1>3. IInv /\ [Next]_vars => IInv'
  <2>1. StepInv /\ DoneInv /\ [Next]_vars => (StepInv /\ DoneInv)'
    BY <1>1, NextInvariant, DoneKept, PTL
  <2>2. IInv <=> StepInv /\ DoneInv
    BY DEF IInv
  <2> QED BY <2>1, <2>2, PTL
<1> QED BY <1>2, <1>3, PTL DEF Spec

\* When write_flash has checked the last hash, every file is in the flash, unless a
\* BEGIN that the stub refused was made a success on the line: also the files before
\* the last, which a command of an earlier run or one repeated from a buffer might
\* have erased since they were hashed.
THEOREM DoneIsTrue == Spec => []DoneIsWritten
<1>1. IInv => DoneIsWritten
  BY DEF IInv, DoneInv, Finished, DoneIsWritten
<1> QED BY <1>1, FlashToolInvariance, PTL
===============================================================================
