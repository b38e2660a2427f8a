---------------------------- MODULE WsParserProofs -----------------------------
(* Proofs about WsParser, for every set of frames whose length fits in two bytes, *)
(* and every way to cut them into segments.                                       *)
EXTENDS WsParser, WellFoundedInduction, SequenceTheorems, TLAPS

-------------------------------------------------------------------------------
(* The frame.                                                                  *)

\* A frame's parts, as FramesAssumption has them.
LEMMA FrameParts ==
    ASSUME NEW f \in Frames
    PROVE  /\ f.length \in Nat /\ f.length < 256 * 256
           /\ f.ext \in {0, 2, 8} /\ f.masked \in BOOLEAN
           /\ f.ext = 0 => f.length < 126
           /\ MaskLen(f) = IF f.masked THEN 4 ELSE 0
           /\ BodyAt(f) = 2 + f.ext + MaskLen(f)
           /\ BodyAt(f) \in 2 .. 14
           /\ Size(f) = BodyAt(f) + f.length
           /\ Size(f) \in Nat
<1>1. /\ f.length \in Nat /\ f.length < 256 * 256
      /\ f.ext \in {0, 2, 8} /\ f.masked \in BOOLEAN
      /\ f.ext = 0 => f.length < 126
  BY FramesAssumption DEF FramesAssumption
<1> QED BY <1>1 DEF MaskLen, BodyAt, Size

-------------------------------------------------------------------------------
(* The extended length.                                                        *)

LEMMA TwoBytes ==
    ASSUME NEW n \in Nat
    PROVE  n \div 256 \in Nat /\ n = ((n \div 256) * 256) + (n % 256)
OBVIOUS

\* One more of its bytes.
LEMMA ShiftOne ==
    ASSUME frame \in Frames, frame.ext # 0, NEW left \in 1 .. frame.ext
    PROVE  LengthSoFar(left) * 256 + ExtByte(frame, (2 + frame.ext) - left)
             = LengthSoFar(left - 1)
<1>1. /\ frame.length \in Nat /\ frame.length < 256 * 256 /\ frame.ext \in {2, 8}
  BY FrameParts
<1>2. frame.length \div 256 \in Nat
  BY <1>1, TwoBytes
<1>3. frame.length = ((frame.length \div 256) * 256) + (frame.length % 256)
  BY <1>1, TwoBytes
<1>4. CASE left = 1
  <2>1. LengthSoFar(left) = frame.length \div 256 /\ LengthSoFar(left - 1) = frame.length
    BY <1>4 DEF LengthSoFar
  <2>2. ExtByte(frame, (2 + frame.ext) - left) = frame.length % 256
    BY <1>1, <1>4 DEF ExtByte
  <2> QED BY <1>1, <1>3, <2>1, <2>2
<1>5. CASE left = 2
  <2>1. LengthSoFar(left) = 0 /\ LengthSoFar(left - 1) = frame.length \div 256
    BY <1>5 DEF LengthSoFar
  <2>2. ExtByte(frame, (2 + frame.ext) - left) = frame.length \div 256
    BY <1>1, <1>5 DEF ExtByte
  <2> QED BY <1>1, <1>2, <2>1, <2>2
<1>6. CASE left > 2
  BY <1>1, <1>6 DEF LengthSoFar, ExtByte
<1> QED BY <1>1, <1>4, <1>5, <1>6

-------------------------------------------------------------------------------
(* Induction over the natural numbers, for sets: the library's theorem takes an  *)
(* operator as its parameter.                                                    *)
LEMMA NatSetInduction ==
    ASSUME NEW S, 0 \in S, \A n \in Nat : n \in S => n + 1 \in S
    PROVE  Nat \subseteq S
<1> SUFFICES ASSUME Nat \ S # {} PROVE FALSE
  OBVIOUS
<1> DEFINE T == Nat \ S
           R == OpToRel(<, Nat)
<1>1. IsWellFoundedOn(R, Nat)
  BY NatLessThanWellFounded
<1>2. T \subseteq Nat /\ T # {}
  OBVIOUS
<1>3. \E x \in T : \A y \in T : ~ (<<y, x>> \in R)
  <2> HIDE DEF T, R
  <2> QED BY <1>1, <1>2, WFMin
<1>4. PICK x \in T : \A y \in T : ~ (<<y, x>> \in R)
  BY <1>3
<1>5. x # 0
  BY <1>4
<1>6. x - 1 \in T
  <2> HIDE DEF R
  <2> QED BY <1>5
<1>7. <<x - 1, x>> \in R
  BY <1>6 DEF OpToRel
<1> QED BY <1>4, <1>6, <1>7

\* However many of the bytes there are at once, they make what all those up to them
\* say of the length.
LEMMA ShiftSome ==
    ASSUME frame \in Frames, frame.ext # 0, NEW left \in 1 .. frame.ext, NEW n \in 0 .. left
    PROVE  Shifted(LengthSoFar(left), (2 + frame.ext) - left, n) = LengthSoFar(left - n)
<1> DEFINE length == LengthSoFar(left)
           q == (2 + frame.ext) - left
           Loop(f) == f = [k \in 0 .. n |->
                             IF k = 0 THEN length
                             ELSE f[k - 1] * 256 + ExtByte(frame, (q + k) - 1)]
           after == CHOOSE f : Loop(f)
           S == {m \in Nat : m <= n => after[m] = LengthSoFar(left - m)}
<1>1. frame.ext \in {2, 8}
  BY FrameParts
<1>2. ASSUME NEW k \in 1 .. n
      PROVE  LengthSoFar(left - (k - 1)) * 256 + ExtByte(frame, (q + k) - 1)
               = LengthSoFar(left - k)
  <2>1. left - (k - 1) \in 1 .. frame.ext
    BY <1>1
  <2>2. (left - (k - 1)) - 1 = left - k /\ (2 + frame.ext) - (left - (k - 1)) = (q + k) - 1
    BY <1>1
  <2> HIDE DEF q
  <2> QED BY <1>1, <2>1, <2>2, ShiftOne
<1>3. Loop([k \in 0 .. n |-> LengthSoFar(left - k)])
  <2> DEFINE f == [k \in 0 .. n |-> LengthSoFar(left - k)]
  <2>1. ASSUME NEW k \in 0 .. n
        PROVE  f[k] = IF k = 0 THEN length
                      ELSE f[k - 1] * 256 + ExtByte(frame, (q + k) - 1)
    <3>1. CASE k = 0
      BY <3>1
    <3>2. CASE k # 0
      <4>1. k \in 1 .. n /\ f[k - 1] = LengthSoFar(left - (k - 1))
        BY <3>2
      <4> HIDE DEF q
      <4> QED BY <1>2, <3>2, <4>1
    <3> QED BY <3>1, <3>2
  <2> HIDE DEF q, length
  <2> QED BY <2>1
<1>4. Loop(after)
  <2>1. \E f : Loop(f)
    <3> HIDE DEF Loop
    <3> QED BY <1>3
  <2> QED BY <2>1, Zenon
<1>5. 0 \in S
  <2>1. after[0] = length
    <3> HIDE DEF after, length, q
    <3> QED BY <1>4
  <2>2. left - 0 = left
    BY <1>1
  <2> HIDE DEF after
  <2> QED BY <2>1, <2>2
<1>6. ASSUME NEW m \in Nat, m \in S PROVE m + 1 \in S
  <2> SUFFICES ASSUME m + 1 <= n PROVE after[m + 1] = LengthSoFar(left - (m + 1))
    OBVIOUS
  <2>1. after[m + 1] = after[m] * 256 + ExtByte(frame, (q + (m + 1)) - 1)
    <3> HIDE DEF after, q, length
    <3> QED BY <1>4
  <2>2. after[m] = LengthSoFar(left - ((m + 1) - 1))
    BY <1>6
  <2> HIDE DEF after, q, length
  <2> QED BY <1>2, <2>1, <2>2
<1>7. n \in S
  <2> HIDE DEF S
  <2> QED BY <1>5, <1>6, NatSetInduction
<1>8. Shifted(length, q, n) = after[n]
  BY Zenon DEF Shifted
<1> QED BY <1>7, <1>8


-------------------------------------------------------------------------------
(* The body.                                                                   *)

Read(n) == [i \in 1 .. n |-> i]

\* What comes next goes to the end.
LEMMA ReadMore ==
    ASSUME NEW k \in Nat, NEW n \in Nat
    PROVE  Read(k) \o [j \in 1 .. n |-> k + j] = Read(k + n)
<1> DEFINE s == Read(k)
           t == [j \in 1 .. n |-> k + j]
<1>1. s \in Seq(Nat) /\ Len(s) = k /\ t \in Seq(Nat) /\ Len(t) = n
  BY DEF Read
<1>2. \A i \in 1 .. k : s[i] = i
  BY DEF Read
<1>3. \A j \in 1 .. n : t[j] = k + j
  OBVIOUS
<1> HIDE DEF s, t
<1>4. /\ s \o t \in Seq(Nat) /\ Len(s \o t) = k + n
      /\ \A i \in 1 .. k + n : (s \o t)[i] = IF i <= k THEN s[i] ELSE t[i - k]
  BY <1>1, ConcatProperties
<1>5. \A i \in 1 .. k + n : (s \o t)[i] = i
  <2> SUFFICES ASSUME NEW i \in 1 .. k + n PROVE (s \o t)[i] = i
    OBVIOUS
  <2>1. CASE i <= k
    BY <1>2, <1>4, <2>1
  <2>2. CASE ~(i <= k)
    <3>1. i - k \in 1 .. n
      BY <2>2
    <3> QED BY <1>3, <1>4, <2>2, <3>1
  <2> QED BY <2>1, <2>2
<1>6. s \o t = Read(k + n)
  <2>1. \A q \in Seq(Nat) : q = [i \in 1 .. Len(q) |-> q[i]]
    OBVIOUS
  <2>2. s \o t = [i \in 1 .. k + n |-> (s \o t)[i]]
    BY <1>4, <2>1
  <2> QED BY <1>5, <2>2 DEF Read
<1> QED BY <1>6 DEF s, t

\* With the mask read and the offset right, every byte of the body is decoded with
\* the byte of the mask that the client took for it.
LEMMA DecodedRight ==
    ASSUME IInv, parser.state = "body", NEW n \in Nat
    PROVE  Decoded(frame, n, (p - BodyAt(frame)) + 1)
             = [j \in 1 .. n |-> (p - BodyAt(frame)) + j]
<1> DEFINE k == p - BodyAt(frame)
<1>1. /\ k \in Nat /\ frame.masked \in BOOLEAN
      /\ frame.masked => /\ parser.mask_offset = k % 4
                         /\ \A i \in 0 .. 3 : parser.mask[i] = i + 1
  <2>1. frame \in Frames /\ p \in Nat
    BY DEF IInv, InStep, TypeOK
  <2> QED BY <2>1, FrameParts DEF IInv, KeptBody, MaskRead
<1> HIDE DEF k
<1>2. ASSUME NEW j \in 1 .. n
      PROVE  (IF ~frame.masked THEN (k + 1) + j - 1
              ELSE IF parser.mask[(j - 1 + parser.mask_offset) % 4] = (((k + 1) + j - 2) % 4) + 1
                   THEN (k + 1) + j - 1
                   ELSE Garbled) = k + j
  <2>1. (k + 1) + j - 1 = k + j
    BY <1>1
  <2>2. \A x, y \in Nat : y > 0 =>
           /\ ((y - 1) + (x % 4)) % 4 = ((x + 1) + y - 2) % 4
           /\ ((y - 1) + (x % 4)) % 4 \in 0 .. 3
    OBVIOUS
  <2>3. frame.masked => parser.mask[(j - 1 + parser.mask_offset) % 4] = (((k + 1) + j - 2) % 4) + 1
    BY <1>1, <2>2
  <2> QED BY <2>1, <2>3
<1> QED BY <1>2 DEF Decoded, k

-------------------------------------------------------------------------------
(* The head.                                                                   *)

\* Segments end within the frame, and the parser stays within the segment.
Within == /\ frame \in Frames /\ frame' = frame
          /\ p' \in 0 .. end /\ end \in 0 .. Size(frame) /\ end' = end

\* What is known when the whole head has been read.
HeadKnown(ps) ==
    /\ ps \in Parsers
    /\ ps.masked = frame.masked /\ ps.length = frame.length /\ ps.mask_offset = 0

LEMMA NewParserType == NewParser \in Parsers
BY DEF NewParser, Parsers

\* A frame that has been read to its end leaves a new parser.
LEMMA EndKeeps ==
    ASSUME Within, p' = Size(frame), body' = Read(frame.length), EndFrame
    PROVE  IInv'
<1>1. /\ frame.length \in Nat /\ BodyAt(frame) \in Nat
      /\ Size(frame) = BodyAt(frame) + frame.length
  BY FrameParts DEF Within
<1>2. parser' = NewParser /\ NewParser \in Parsers
  BY NewParserType DEF EndFrame
<1>3. TypeOK'
  <2>1. body' \in Seq(Nat)
    BY <1>1 DEF Read
  <2> QED BY <1>1, <1>2, <2>1 DEF TypeOK, Within, NewParser
<1>4. InStep' /\ KeptHead'
  BY <1>1, <1>2, <1>3 DEF InStep, KeptHead, NewParser, Within
<1>5. KeptBody'
  BY <1>1, <1>2 DEF KeptBody, BodyRead, NewParser, Read, Within
<1> QED BY <1>3, <1>4, <1>5 DEF IInv

LEMMA AfterHeadKeeps ==
    ASSUME Within, p' = BodyAt(frame), body' = Read(0), NEW ps, HeadKnown(ps),
           frame.masked => \A i \in 0 .. 3 : ps.mask[i] = i + 1,
           AfterHead(ps)
    PROVE  IInv'
<1>1. /\ frame.length \in Nat /\ BodyAt(frame) \in Nat
      /\ Size(frame) = BodyAt(frame) + frame.length
  BY FrameParts DEF Within
<1>2. CASE ps.length > 0
  <2>1. parser' = [ps EXCEPT !.state = "body", !.require = ps.length]
    BY <1>2 DEF AfterHead
  <2>2. /\ parser' \in Parsers /\ parser'.state = "body"
        /\ parser'.require = frame.length /\ parser'.length = frame.length
        /\ parser'.masked = frame.masked /\ parser'.mask_offset = 0
        /\ frame.masked => \A i \in 0 .. 3 : parser'.mask[i] = i + 1
    BY <1>1, <2>1 DEF HeadKnown, Parsers
  <2>3. TypeOK'
    BY <1>1, <2>2 DEF TypeOK, Within, Read
  <2>4. InStep' /\ KeptHead'
    BY <1>1, <1>2, <2>2, <2>3 DEF InStep, KeptHead, Within, HeadKnown
  <2>5. KeptBody'
    BY <1>1, <2>2 DEF KeptBody, BodyRead, MaskRead, Read, Within
  <2> QED BY <2>3, <2>4, <2>5 DEF IInv
<1>3. CASE ~(ps.length > 0)
  <2>1. EndFrame
    BY <1>3 DEF AfterHead
  <2>2. frame.length = 0
    BY <1>1, <1>3 DEF HeadKnown
  <2> QED BY <1>1, <2>1, <2>2, EndKeeps
<1> QED BY <1>2, <1>3

LEMMA ExpectsKeeps ==
    ASSUME Within, p' = 2 + frame.ext, body' = Read(0), NEW ps, HeadKnown(ps),
           Expects(ps)
    PROVE  IInv'
<1>1. /\ frame.length \in Nat /\ frame.ext \in {0, 2, 8} /\ frame.masked \in BOOLEAN
      /\ BodyAt(frame) = (2 + frame.ext) + (IF frame.masked THEN 4 ELSE 0)
      /\ Size(frame) = BodyAt(frame) + frame.length
  BY FrameParts DEF Within
<1>2. CASE frame.masked
  <2>1. parser' = [ps EXCEPT !.state = "mask", !.require = 4]
    BY <1>2 DEF Expects, HeadKnown
  <2>2. /\ parser' \in Parsers /\ parser'.state = "mask"
        /\ parser'.require = 4 /\ parser'.length = frame.length
        /\ parser'.masked = frame.masked /\ parser'.mask_offset = 0
    BY <1>1, <2>1 DEF HeadKnown, Parsers
  <2>3. TypeOK'
    BY <1>1, <1>2, <2>2 DEF TypeOK, Within, Read
  <2>4. InStep' /\ KeptHead'
    BY <1>1, <1>2, <2>2, <2>3 DEF InStep, KeptHead, MaskRead, Within
  <2>5. KeptBody'
    BY <1>1, <1>2, <2>2 DEF KeptBody, BodyRead, Read, Within
  <2> QED BY <2>3, <2>4, <2>5 DEF IInv
<1>3. CASE ~frame.masked
  <2>1. AfterHead(ps)
    BY <1>3 DEF Expects, HeadKnown
  <2> QED BY <1>1, <1>3, <2>1, AfterHeadKeeps
<1> QED BY <1>2, <1>3

-------------------------------------------------------------------------------
(* The steps.                                                                  *)

LEMMA InitIInv == Init => IInv
<1> SUFFICES ASSUME Init PROVE IInv
  OBVIOUS
<1>1. /\ frame \in Frames /\ p = 0 /\ end = 0 /\ parser = NewParser /\ body = <<>>
  BY DEF Init
<1>2. /\ frame.length \in Nat /\ BodyAt(frame) \in 2 .. 14
      /\ Size(frame) = BodyAt(frame) + frame.length
  BY <1>1, FrameParts
<1>3. TypeOK
  BY <1>1, <1>2, NewParserType DEF TypeOK, NewParser
<1>4. InStep /\ KeptHead
  BY <1>1, <1>2, <1>3 DEF InStep, KeptHead, NewParser
<1>5. KeptBody
  BY <1>1, <1>2 DEF KeptBody, BodyRead, NewParser
<1> QED BY <1>3, <1>4, <1>5 DEF IInv

\* While the parser reads, its position is in the segment and in the frame.
LEMMA Facts ==
    ASSUME IInv
    PROVE  /\ frame \in Frames /\ parser \in Parsers
           /\ p \in Nat /\ end \in Nat /\ p <= end /\ end <= Size(frame)
           /\ frame.length \in Nat /\ frame.ext \in {0, 2, 8} /\ frame.masked \in BOOLEAN
           /\ BodyAt(frame) = (2 + frame.ext) + (IF frame.masked THEN 4 ELSE 0)
           /\ Size(frame) = BodyAt(frame) + frame.length
           /\ parser.require \in Nat
<1>1. /\ frame \in Frames /\ parser \in Parsers /\ p \in 0 .. end /\ end \in 0 .. Size(frame)
  BY DEF IInv, InStep, TypeOK
<1>2. Size(frame) \in Nat
  BY <1>1, FrameParts
<1>3. parser.require \in Nat
  BY <1>1 DEF Parsers
<1> QED BY <1>1, <1>2, <1>3, FrameParts

\* Nothing of the body has come with the head.
LEMMA NoBodyYet ==
    ASSUME IInv, p <= BodyAt(frame)
    PROVE  body = Read(0)
<1>1. BodyRead = 0
  BY Facts DEF BodyRead
<1> QED BY <1>1 DEF IInv, KeptBody, Read

LEMMA ReadStartKeeps == IInv /\ ReadStart => IInv'
<1> SUFFICES ASSUME IInv, ReadStart PROVE IInv'
  OBVIOUS
<1>1. p = 0 /\ parser = NewParser /\ p < end
  BY Facts DEF IInv, InStep, KeptHead, ReadStart, Reads
<1>2. Within /\ p' = 1 /\ body' = body
  BY <1>1, Facts DEF Within, ReadStart
<1>3. parser' = [parser EXCEPT !.state = "head", !.length = 0, !.mask_offset = 0,
                              !.masked = FALSE]
  BY DEF ReadStart
<1>4. /\ parser' \in Parsers /\ parser'.state = "head" /\ parser'.length = 0
      /\ parser'.require = 0 /\ parser'.mask_offset = 0
  <2>1. parser \in Parsers /\ parser.require = 0
    BY <1>1, NewParserType DEF NewParser
  <2>2. parser'.state = "head" /\ parser'.length = 0
    BY <1>3, <2>1 DEF Parsers
  <2>3. parser'.mask_offset = 0
    BY <1>3, <2>1 DEF Parsers
  <2>4. parser'.require = parser.require
    BY <1>3, <2>1 DEF Parsers
  <2>5. parser' \in Parsers
    BY <1>3, <2>1, "head" \in {"start", "head", "length", "mask", "body"}, 0 \in 0 .. 3,
       0 \in Nat, FALSE \in BOOLEAN, Zenon DEF Parsers
  <2> QED BY <2>1, <2>2, <2>3, <2>4, <2>5
<1>5. body' = Read(0)
  BY <1>1, <1>2, Facts, NoBodyYet
<1>6. TypeOK'
  BY <1>1, <1>2, <1>4, <1>5, Facts DEF TypeOK, Within, Read
<1>7. InStep' /\ KeptHead'
  BY <1>2, <1>3, <1>4, <1>6 DEF InStep, KeptHead
<1>8. KeptBody'
  BY <1>2, <1>4, <1>5, Facts DEF KeptBody, BodyRead, Read, Within
<1> QED BY <1>6, <1>7, <1>8 DEF IInv

LEMMA ReadHeadKeeps == IInv /\ ReadHead => IInv'
<1> SUFFICES ASSUME IInv, ReadHead PROVE IInv'
  OBVIOUS
<1> DEFINE ps == [parser EXCEPT !.masked = frame.masked]
           q == [ps EXCEPT !.length = Len7(frame)]
<1>1. p = 1 /\ p < end /\ parser.mask_offset = 0
  BY DEF IInv, InStep, KeptBody, ReadHead, Reads
<1>2. Within /\ p' = 2 /\ body' = body
  BY <1>1, Facts DEF Within, ReadHead
<1>3. body' = Read(0)
  BY <1>1, <1>2, Facts, NoBodyYet
<1>4. /\ ps \in Parsers /\ ps.masked = frame.masked /\ ps.mask_offset = 0
  BY <1>1, Facts DEF Parsers
<1>5. CASE frame.ext = 0
  <2>1. Len7(frame) = frame.length /\ frame.length < 126
    BY <1>5, Facts, FrameParts DEF Len7
  <2>2. Expects(q)
    BY <2>1, Facts DEF ReadHead
  <2>3. HeadKnown(q)
    BY <1>4, <2>1, Facts DEF HeadKnown, Parsers
  <2> QED BY <1>2, <1>3, <1>5, <2>2, <2>3, ExpectsKeeps
<1>6. CASE frame.ext # 0
  <2>1. Len7(frame) = IF frame.ext = 2 THEN 126 ELSE 127
    BY <1>6, Facts DEF Len7
  <2>2. parser' = [ps EXCEPT !.state = "length", !.length = 0, !.require = frame.ext]
    <3>1. Len7(frame) >= 126 /\ (IF Len7(frame) = 127 THEN 8 ELSE 2) = frame.ext
      BY <1>6, <2>1, Facts
    <3> QED BY <3>1 DEF ReadHead
  <2>3. /\ parser' \in Parsers /\ parser'.state = "length" /\ parser'.length = 0
        /\ parser'.require = frame.ext /\ parser'.masked = frame.masked
        /\ parser'.mask_offset = 0
    <3> DEFINE a == [ps EXCEPT !.state = "length", !.length = 0]
    <3>1. a \in Parsers /\ a.state = "length" /\ a.length = 0
          /\ a.masked = frame.masked /\ a.mask_offset = 0
      BY <1>4 DEF Parsers
    <3>2. parser' = [a EXCEPT !.require = frame.ext]
      BY <1>4, <2>2 DEF Parsers
    <3> HIDE DEF a
    <3> QED BY <3>1, <3>2, Facts DEF Parsers
  <2>4. TypeOK'
    BY <1>1, <1>2, <1>3, <2>3, Facts DEF TypeOK, Within, Read
  <2>5. InStep' /\ KeptHead'
    BY <1>2, <1>6, <2>3, <2>4, Facts DEF InStep, KeptHead, LengthSoFar, Within
  <2>6. KeptBody'
    BY <1>2, <1>3, <2>3, Facts DEF KeptBody, BodyRead, Read, Within
  <2> QED BY <2>4, <2>5, <2>6 DEF IInv
<1> QED BY <1>5, <1>6

\* What a loop over the bytes takes: at least one, and no more than are required.
LEMMA Takes ==
    ASSUME IInv, p < end, parser.require > 0
    PROVE  /\ Available \in 1 .. parser.require
           /\ p + Available <= end
           /\ Available < parser.require => p + Available = end
BY Facts DEF Available, Least

\* A parser that has read more of the length, of the mask, or of the body.
WithLength(r, l, m) == [r EXCEPT !.length = l, !.require = m]
WithMask(r, l, m) == [r EXCEPT !.mask = l, !.require = m]
WithOffset(r, m, o) == [r EXCEPT !.require = m, !.mask_offset = o]

LEMMA WithLengthType ==
    ASSUME NEW r \in Parsers, NEW l \in Nat, NEW m \in Nat
    PROVE  LET q == WithLength(r, l, m)
           IN /\ q \in Parsers /\ q.state = r.state /\ q.masked = r.masked
              /\ q.length = l /\ q.require = m /\ q.mask_offset = r.mask_offset
BY DEF Parsers, WithLength

LEMMA WithMaskType ==
    ASSUME NEW r \in Parsers, NEW l \in [0 .. 3 -> Nat], NEW m \in Nat
    PROVE  LET q == WithMask(r, l, m)
           IN /\ q \in Parsers /\ q.state = r.state /\ q.masked = r.masked
              /\ q.length = r.length /\ q.require = m /\ q.mask_offset = r.mask_offset
              /\ q.mask = l
BY DEF Parsers, WithMask

LEMMA WithOffsetType ==
    ASSUME NEW r \in Parsers, NEW m \in Nat, NEW o \in 0 .. 3
    PROVE  LET q == WithOffset(r, m, o)
           IN /\ q \in Parsers /\ q.state = r.state /\ q.masked = r.masked
              /\ q.length = r.length /\ q.require = m /\ q.mask_offset = o
              /\ q.mask = r.mask
BY DEF Parsers, WithOffset

\* In the middle of the length or of the mask, when a segment ends.
LEMMA MoreOfHead ==
    ASSUME IInv, Within, parser.state \in {"length", "mask"}, body' = Read(0),
           NEW ps \in Parsers, parser' = ps, ps.state = parser.state,
           ps.masked = frame.masked, ps.mask_offset = 0,
           ps.require \in 1 .. parser.require, p' + ps.require = p + parser.require,
           parser.state = "length" => ps.length = LengthSoFar(ps.require),
           parser.state = "mask" => /\ ps.length = frame.length
                                    /\ \A i \in 0 .. (4 - ps.require) - 1 : ps.mask[i] = i + 1
    PROVE  IInv'
<1>1. /\ parser.state = "length" => p + parser.require = 2 + frame.ext /\ parser.require <= frame.ext
      /\ parser.state = "mask" => /\ p + parser.require = BodyAt(frame)
                                  /\ parser.require <= 4 /\ frame.masked
  BY DEF IInv, InStep, KeptHead
<1>2. p' \in Nat /\ p' < BodyAt(frame) /\ ps.require \in Nat
  BY <1>1, Facts DEF Within
<1>3. ps.length <= frame.length
  <2>1. \A m \in Nat : m \div 256 <= m
    OBVIOUS
  <2>2. frame.length \div 256 <= frame.length
    BY <2>1, Facts
  <2> QED BY <2>2, Facts DEF LengthSoFar
<1>4. TypeOK'
  <2>1. ps.require <= Size(frame)
    BY <1>1, <1>2, Facts DEF Within
  <2>2. body' \in Seq(Nat)
    BY DEF Read
  <2> QED BY <1>3, <2>1, <2>2 DEF TypeOK, Within
<1>5. InStep'
  BY <1>1, <1>4, Facts DEF InStep, Within
<1>6. KeptHead'
  <2>1. LengthSoFar(ps.require)' = LengthSoFar(ps.require)
    BY DEF LengthSoFar, Within
  <2>2. parser.state = "mask" => MaskRead(4 - ps.require)'
    BY DEF MaskRead
  <2>3. ps.require > 0 /\ frame' = frame
    BY DEF Within
  <2> QED BY <1>1, <1>2, <2>1, <2>2, <2>3, Facts DEF KeptHead
<1>7. KeptBody'
  BY <1>2 DEF KeptBody, BodyRead, Read, Within
<1> QED BY <1>5, <1>6, <1>7 DEF IInv

LEMMA ReadLengthKeeps == IInv /\ ReadLength => IInv'
<1> SUFFICES ASSUME IInv, ReadLength PROVE IInv'
  OBVIOUS
<1> DEFINE n == Available
           left == parser.require
           ps == [parser EXCEPT !.length = Shifted(@, p, n), !.require = @ - n]
<1>1. /\ parser.state = "length" /\ p < end /\ left \in 1 .. frame.ext
      /\ p = (2 + frame.ext) - left /\ parser.masked = frame.masked
      /\ parser.length = LengthSoFar(left) /\ parser.mask_offset = 0
  BY Facts DEF IInv, InStep, KeptHead, KeptBody, ReadLength, Reads
<1>2. n \in 1 .. left /\ p + n <= end
  BY <1>1, Takes
<1>3. Within /\ p' = p + n /\ body' = Read(0)
  <2>1. p <= BodyAt(frame) /\ body' = body /\ p' = p + n /\ frame' = frame /\ end' = end
    BY <1>1, Facts DEF ReadLength
  <2>2. body = Read(0)
    BY <2>1, NoBodyYet
  <2> QED BY <1>2, <2>1, <2>2, Facts DEF Within
<1>4. Shifted(parser.length, p, n) = LengthSoFar(left - n)
  <2>1. frame \in Frames /\ frame.ext # 0 /\ n \in 0 .. left
    BY <1>1, <1>2, Facts
  <2> HIDE DEF n, left
  <2> QED BY <1>1, <2>1, ShiftSome
<1>5. LengthSoFar(left - n) \in 0 .. frame.length
  <2>1. frame.length \div 256 \in 0 .. frame.length
    <3>1. \A m \in Nat : m \div 256 \in 0 .. m
      OBVIOUS
    <3> QED BY <3>1, Facts
  <2> QED BY <2>1, Facts DEF LengthSoFar
<1>6. /\ ps \in Parsers /\ ps.state = "length" /\ ps.masked = frame.masked
      /\ ps.length = LengthSoFar(left - n) /\ ps.require = left - n /\ ps.mask_offset = 0
  <2>1. Shifted(parser.length, p, n) \in Nat /\ left - n \in Nat
    BY <1>2, <1>4, <1>5, Facts
  <2>2. /\ parser \in Parsers
        /\ ps = WithLength(parser, Shifted(parser.length, p, n), left - n)
    BY Facts DEF WithLength
  <2> HIDE DEF n, ps
  <2>3. /\ ps \in Parsers /\ ps.state = parser.state /\ ps.masked = parser.masked
        /\ ps.length = Shifted(parser.length, p, n) /\ ps.require = left - n
        /\ ps.mask_offset = parser.mask_offset
    BY <2>1, <2>2, WithLengthType, Zenon
  <2> QED BY <1>1, <1>4, <2>3, Zenon
<1>7. IF ps.require = 0 THEN Expects(ps) ELSE parser' = ps
  BY DEF ReadLength
<1> HIDE DEF ps, n
<1>8. CASE left = n
  <2>1. HeadKnown(ps) /\ Expects(ps)
    BY <1>1, <1>2, <1>6, <1>7, <1>8 DEF HeadKnown, LengthSoFar
  <2>2. p' = 2 + frame.ext
    BY <1>1, <1>2, <1>3, <1>8, Facts
  <2> QED BY <1>3, <2>1, <2>2, ExpectsKeeps
<1>9. CASE left # n
  <2>1. parser' = ps /\ left - n \in 1 .. left /\ p' + (left - n) = p + left
    <3>1. left - n \in 1 .. left
      BY <1>1, <1>2, <1>9
    <3>2. parser' = ps
      BY <1>6, <1>7, <3>1
    <3> QED BY <1>1, <1>2, <1>3, <3>1, <3>2, Facts
  <2> QED BY <1>1, <1>3, <1>6, <2>1, MoreOfHead
<1> QED BY <1>8, <1>9

LEMMA ReadMaskKeeps == IInv /\ ReadMask => IInv'
<1> SUFFICES ASSUME IInv, ReadMask PROVE IInv'
  OBVIOUS
<1> DEFINE n == Available
           left == parser.require
           mask == [i \in 0 .. 3 |->
                      IF i \in 4 - left .. 4 - left + n - 1
                      THEN p + (i - (4 - left)) - (2 + frame.ext) + 1
                      ELSE parser.mask[i]]
           ps == [parser EXCEPT !.mask = mask, !.require = left - n]
<1>1. /\ parser.state = "mask" /\ p < end /\ left \in 1 .. 4 /\ frame.masked
      /\ p = BodyAt(frame) - left /\ parser.masked = frame.masked
      /\ parser.length = frame.length /\ parser.mask_offset = 0
      /\ \A i \in 0 .. (4 - left) - 1 : parser.mask[i] = i + 1
  BY Facts DEF IInv, InStep, KeptHead, KeptBody, ReadMask, Reads, MaskRead
<1>2. n \in 1 .. left /\ p + n <= end
  BY <1>1, Takes
<1>3. Within /\ p' = p + n /\ body' = Read(0)
  <2>1. p <= BodyAt(frame) /\ body' = body /\ p' = p + n /\ frame' = frame /\ end' = end
    BY <1>1, Facts DEF ReadMask
  <2>2. body = Read(0)
    BY <2>1, NoBodyYet
  <2> QED BY <1>2, <2>1, <2>2, Facts DEF Within
<1>4. /\ mask \in [0 .. 3 -> Nat]
      /\ \A i \in 0 .. (4 - (left - n)) - 1 : mask[i] = i + 1
  <2>1. parser.mask \in [0 .. 3 -> Nat]
    BY Facts DEF Parsers
  <2>2. p = (2 + frame.ext) + (4 - left)
    BY <1>1, Facts
  <2>3. ASSUME NEW i \in 0 .. 3
        PROVE  /\ mask[i] \in Nat
               /\ i < 4 - (left - n) => mask[i] = i + 1
    <3>1. CASE i \in 4 - left .. 4 - left + n - 1
      <4>1. p + (i - (4 - left)) - (2 + frame.ext) + 1 = i + 1
        BY <1>1, <2>2, <3>1, Facts
      <4> QED BY <3>1, <4>1
    <3>2. CASE i \notin 4 - left .. 4 - left + n - 1
      <4>1. mask[i] = parser.mask[i]
        BY <3>2
      <4>2. i < 4 - (left - n) => i \in 0 .. (4 - left) - 1
        BY <1>1, <1>2, <3>2
      <4> QED BY <1>1, <2>1, <4>1, <4>2
    <3> QED BY <3>1, <3>2
  <2> HIDE DEF n, left
  <2> QED BY <1>1, <1>2, <2>3
<1>5. /\ ps \in Parsers /\ ps.state = "mask" /\ ps.masked = frame.masked
      /\ ps.length = frame.length /\ ps.require = left - n /\ ps.mask_offset = 0
      /\ ps.mask = mask
  <2>1. left - n \in Nat
    BY <1>2, Facts
  <2>2. /\ parser \in Parsers
        /\ ps = WithMask(parser, mask, left - n)
    BY Facts DEF WithMask
  <2> HIDE DEF mask, n, ps
  <2>3. /\ ps \in Parsers /\ ps.state = parser.state /\ ps.masked = parser.masked
        /\ ps.length = parser.length /\ ps.require = left - n
        /\ ps.mask_offset = parser.mask_offset /\ ps.mask = mask
    BY <1>4, <2>1, <2>2, WithMaskType, Zenon
  <2> QED BY <1>1, <2>3, Zenon
<1>6. IF ps.require = 0 THEN AfterHead(ps) ELSE parser' = ps
  BY DEF ReadMask
<1> HIDE DEF ps, n, mask
<1>7. CASE left = n
  <2>1. HeadKnown(ps) /\ AfterHead(ps)
    BY <1>1, <1>2, <1>5, <1>6, <1>7 DEF HeadKnown
  <2>2. p' = BodyAt(frame)
    BY <1>1, <1>2, <1>3, <1>7, Facts
  <2>3. \A i \in 0 .. 3 : ps.mask[i] = i + 1
    BY <1>1, <1>2, <1>4, <1>5, <1>7
  <2> QED BY <1>3, <2>1, <2>2, <2>3, AfterHeadKeeps
<1>8. CASE left # n
  <2>1. parser' = ps /\ left - n \in 1 .. left /\ p' + (left - n) = p + left
    <3>1. left - n \in 1 .. left
      BY <1>1, <1>2, <1>8
    <3>2. parser' = ps
      BY <1>5, <1>6, <3>1
    <3> QED BY <1>1, <1>2, <1>3, <3>1, <3>2, Facts
  <2> QED BY <1>1, <1>3, <1>4, <1>5, <2>1, MoreOfHead
<1> QED BY <1>7, <1>8

LEMMA ReadBodyKeeps == IInv /\ ReadBody => IInv'
<1> SUFFICES ASSUME IInv, ReadBody PROVE IInv'
  OBVIOUS
<1> DEFINE n == Available
           left == parser.require
           k == p - BodyAt(frame)
<1>1. /\ parser.state = "body" /\ p < end /\ left > 0 /\ k \in Nat
      /\ p + left = Size(frame) /\ parser.masked = frame.masked
      /\ parser.length = frame.length /\ k + left = frame.length
      /\ frame.masked => /\ parser.mask_offset = k % 4
                         /\ \A i \in 0 .. 3 : parser.mask[i] = i + 1
  <2>1. /\ parser.state = "body" /\ p < end /\ left > 0 /\ p >= BodyAt(frame)
        /\ p + left = Size(frame) /\ parser.masked = frame.masked
        /\ parser.length = frame.length
        /\ frame.masked => /\ parser.mask_offset = k % 4
                           /\ \A i \in 0 .. 3 : parser.mask[i] = i + 1
    BY DEF IInv, InStep, KeptHead, KeptBody, ReadBody, Reads, MaskRead
  <2> QED BY <2>1, Facts
<1>2. n \in 1 .. left /\ p + n <= end
  BY <1>1, Takes
<1>3. body' = Read(k + n)
  <2>1. body = Read(k)
    <3>1. BodyRead = k
      BY <1>1, Facts DEF BodyRead
    <3> QED BY <3>1 DEF IInv, KeptBody, Read
  <2>2. Decoded(frame, n, k + 1) = [j \in 1 .. n |-> k + j]
    BY <1>1, <1>2, DecodedRight
  <2>3. body' = body \o Decoded(frame, n, k + 1)
    BY Facts DEF ReadBody
  <2>4. n \in Nat /\ k \in Nat
    BY <1>1, <1>2, Facts
  <2> HIDE DEF k, n
  <2>5. Read(k) \o [j \in 1 .. n |-> k + j] = Read(k + n)
    BY <2>4, ReadMore
  <2> QED BY <2>1, <2>2, <2>3, <2>5, Zenon
<1>4. Within /\ p' = p + n
  BY <1>2, Facts DEF ReadBody, Within
<1>5. CASE n = left
  <2>1. EndFrame
    BY <1>5 DEF ReadBody
  <2>2. p' = Size(frame) /\ k + n = frame.length
    BY <1>1, <1>4, <1>5
  <2> HIDE DEF k, n
  <2> QED BY <1>3, <1>4, <2>1, <2>2, EndKeeps
<1>6. CASE n # left
  <2> DEFINE offset == IF parser.masked THEN OffsetAfter(n) ELSE parser.mask_offset
             ps == WithOffset(parser, left - n, offset)
  <2>1. parser' = ps
    BY <1>6 DEF ReadBody, WithOffset
  <2>2. offset \in 0 .. 3 /\ (frame.masked => offset = (k + n) % 4)
    <3>1. parser.mask_offset \in 0 .. 3
      BY Facts DEF Parsers
    <3>2. \A x, y \in Nat : (y + (x % 4)) % 4 = (x + y) % 4 /\ (x + y) % 4 \in 0 .. 3
      OBVIOUS
    <3>3. frame.masked => OffsetAfter(n) = (k + n) % 4 /\ (k + n) % 4 \in 0 .. 3
      <4> HIDE DEF k, n
      <4> QED BY <1>1, <1>2, <3>2 DEF OffsetAfter
    <3> HIDE DEF k, n
    <3> QED BY <1>1, <3>1, <3>3
  <2>3. left - n \in 1 .. left
    <3>1. left \in Nat
      BY Facts
    <3> HIDE DEF n, left
    <3> QED BY <1>2, <1>6, <3>1
  <2>4. /\ ps \in Parsers /\ ps.state = parser.state /\ ps.masked = parser.masked
        /\ ps.length = parser.length /\ ps.require = left - n
        /\ ps.mask_offset = offset /\ ps.mask = parser.mask
    <3>1. left - n \in Nat /\ parser \in Parsers
      BY <2>3, Facts
    <3> HIDE DEF offset, n, left
    <3> QED BY <2>2, <3>1, WithOffsetType, Zenon
  <2> HIDE DEF ps, offset, n
  <2>5. /\ p' \in Nat /\ p' >= BodyAt(frame) /\ p' < Size(frame)
        /\ p' + (left - n) = Size(frame) /\ p' - BodyAt(frame) = k + n
        /\ k + n \in Nat
    BY <1>1, <1>2, <1>4, <2>3, Facts
  <2>6. TypeOK'
    <3>1. ps.require <= Size(frame) /\ ps.length <= frame.length
      BY <1>1, <1>4, <2>3, <2>4, <2>5, Facts
    <3>2. body' \in Seq(Nat)
      BY <1>3, <2>5 DEF Read
    <3> QED BY <1>4, <2>1, <2>4, <3>1, <3>2 DEF TypeOK, Within
  <2>7. InStep'
    BY <1>1, <1>4, <2>1, <2>4, <2>5, <2>6 DEF InStep, Within
  <2>8. KeptHead'
    BY <1>1, <1>4, <2>1, <2>3, <2>4 DEF KeptHead, Within
  <2>9. KeptBody'
    <3>1. MaskRead(4)' <=> \A i \in 0 .. 3 : ps.mask[i] = i + 1
      BY <2>1 DEF MaskRead
    <3>2. BodyRead' = k + n
      BY <1>4, <2>5, Facts DEF BodyRead, Within
    <3>3. body' = [i \in 1 .. BodyRead' |-> i]
      BY <1>3, <3>2 DEF Read
    <3>4. BodyAt(frame)' = BodyAt(frame) /\ frame' = frame
      BY <1>4 DEF Within
    <3> HIDE DEF k, left
    <3> QED BY <1>1, <2>1, <2>2, <2>4, <2>5, <3>1, <3>3, <3>4 DEF KeptBody
  <2> QED BY <2>7, <2>8, <2>9 DEF IInv
<1> QED BY <1>5, <1>6

\* The next segment, and the next frame.
LEMMA ClientKeeps == IInv /\ (Segment \/ Send) => IInv'
<1> SUFFICES ASSUME IInv, Segment \/ Send PROVE IInv'
  OBVIOUS
<1>1. CASE Segment
  <2>1. /\ frame' = frame /\ p' = p /\ parser' = parser /\ body' = body
        /\ end' \in end + 1 .. Size(frame)
    BY <1>1 DEF Segment
  <2>2. TypeOK'
    BY <2>1, Facts DEF IInv, InStep, TypeOK
  <2>3. InStep'
    BY <2>1, <2>2 DEF IInv, InStep
  <2>4. KeptHead' /\ KeptBody'
    <3>1. LengthSoFar(parser.require)' = LengthSoFar(parser.require)
      BY <2>1 DEF LengthSoFar
    <3>2. /\ MaskRead(4)' <=> MaskRead(4)
          /\ MaskRead(4 - parser.require)' <=> MaskRead(4 - parser.require)
          /\ BodyRead' = BodyRead
      BY <2>1 DEF MaskRead, BodyRead
    <3>3. KeptHead'
      BY <2>1, <3>1, <3>2 DEF IInv, KeptHead
    <3>4. KeptBody'
      BY <2>1, <3>2 DEF IInv, KeptBody
    <3> QED BY <3>3, <3>4
  <2> QED BY <2>3, <2>4 DEF IInv
<1>2. CASE Send
  <2>1. /\ p = Size(frame) /\ frame' \in Frames /\ p' = 0 /\ end' = 0 /\ body' = <<>>
        /\ parser' = parser
    BY <1>2 DEF Send
  <2>2. parser = NewParser
    <3>1. parser.state \in {"start", "head", "length", "mask", "body"}
      BY Facts DEF Parsers
    <3>2. /\ parser.state = "head" => p = 1
          /\ parser.state = "length" => p + parser.require = 2 + frame.ext
          /\ parser.state = "mask" => p + parser.require = BodyAt(frame)
          /\ parser.state = "body" => p + parser.require = Size(frame)
      BY DEF IInv, InStep
    <3>3. parser.state \in {"length", "mask", "body"} => parser.require > 0
      BY DEF IInv, KeptHead
    <3>4. parser.state = "start"
      <4>1. /\ 2 <= BodyAt(frame) /\ 2 + frame.ext <= BodyAt(frame)
            /\ BodyAt(frame) <= Size(frame) /\ BodyAt(frame) \in Nat /\ frame.ext \in Nat
            /\ Size(frame) \in Nat
        BY Facts
      <4>2. p \in Nat /\ parser.require \in Nat
        BY Facts
      <4>3. parser.state # "head"
        BY <2>1, <3>2, <4>1, <4>2
      <4>4. parser.state \notin {"length", "mask", "body"}
        BY <2>1, <3>2, <3>3, <4>1, <4>2
      <4> QED BY <3>1, <4>3, <4>4
    <3> QED BY <3>4 DEF IInv, KeptHead
  <2>3. Init'
    BY <2>1, <2>2 DEF Init, NewParser
  <2>4. (Init => IInv)'
    BY InitIInv, PTL
  <2> QED BY <2>3, <2>4
<1> QED BY <1>1, <1>2

LEMMA NextIInv == IInv /\ [Next]_vars => IInv'
<1>1. IInv /\ UNCHANGED vars => IInv'
  <2> SUFFICES ASSUME IInv, UNCHANGED vars PROVE IInv'
    OBVIOUS
  <2>1. frame' = frame /\ p' = p /\ end' = end /\ parser' = parser /\ body' = body
    BY DEF vars
  <2> QED BY <2>1 DEF IInv, InStep, TypeOK, KeptHead, KeptBody, BodyRead, MaskRead, LengthSoFar
<1> QED BY <1>1, ReadStartKeeps, ReadHeadKeeps, ReadLengthKeeps, ReadMaskKeeps,
           ReadBodyKeeps, ClientKeeps DEF Next

-------------------------------------------------------------------------------
(* The results.                                                                *)

\* Wherever the segments are cut, the parser has kept of the head and handed on of
\* the body exactly what has come of them.
THEOREM WsInvariance == Spec => []IInv
BY InitIInv, NextIInv, PTL DEF Spec

\* What websocket_parser_execute still requires is what still comes.
THEOREM StaysInStep == Spec => []InStep
<1>1. IInv => InStep
  BY DEF IInv
<1> QED BY <1>1, WsInvariance, PTL

\* websocket_frame_body is given the frame's payload, unmasked and in order, and at
\* the frame's end all of it.
THEOREM BodiesHandedOn == Spec => []BodyDelivered
<1>1. IInv => BodyDelivered
  <2> SUFFICES ASSUME IInv PROVE BodyDelivered
    OBVIOUS
  <2>1. /\ BodyRead \in 0 .. frame.length /\ frame.length \in Nat
        /\ p = Size(frame) => BodyRead = frame.length
    BY Facts DEF BodyRead
  <2>2. body = Read(BodyRead) /\ Payload(frame) = Read(frame.length)
    BY DEF IInv, KeptBody, Read, Payload
  <2>3. Len(body) = BodyRead
    BY <2>1, <2>2 DEF Read
  <2>4. SubSeq(Read(frame.length), 1, BodyRead) = Read(BodyRead)
    <3> DEFINE whole == Read(frame.length)
               k == BodyRead
    <3>1. \A i \in 1 .. k : whole[i] = i
      BY <2>1 DEF Read
    <3> HIDE DEF whole, k
    <3>2. k \in Nat
      BY <2>1 DEF k
    <3>3. /\ SubSeq(whole, 1, k) \in Seq(Nat) /\ Len(SubSeq(whole, 1, k)) = k
          /\ \A i \in 1 .. k : SubSeq(whole, 1, k)[i] = i
      BY <3>1, <3>2, SubSeqProperties
    <3>4. SubSeq(whole, 1, k) = Read(k)
      <4>1. \A q \in Seq(Nat) : q = [i \in 1 .. Len(q) |-> q[i]]
        OBVIOUS
      <4>2. SubSeq(whole, 1, k) = [i \in 1 .. k |-> SubSeq(whole, 1, k)[i]]
        BY <3>3, <4>1
      <4> QED BY <3>3, <4>2 DEF Read
    <3> QED BY <3>4 DEF whole, k
  <2> QED BY <2>1, <2>2, <2>3, <2>4 DEF BodyDelivered
<1> QED BY <1>1, WsInvariance, PTL
===============================================================================
