------------------------------- MODULE WsParser --------------------------------
(* websocket_parser_execute: frames in, however TCP cuts them into segments,     *)
(* their decoded bodies out to websocket_frame_body.  The client (the update     *)
(* page) sends a frame when the answer to the one before has come, so a segment  *)
(* is never the end of one frame and the beginning of another.                   *)
EXTENDS Naturals, Sequences

CONSTANT Frames   \* frames a client sends: [length, ext, masked]

\* ext: how many bytes of extended length follow the head.  A frame of the update
\* page is a chunk of 2048 bytes at most; two bytes of length are enough for it.
ASSUME FramesAssumption ==
    \A f \in Frames : /\ f.length \in Nat /\ f.ext \in {0, 2, 8} /\ f.masked \in BOOLEAN
                      /\ f.ext = 0 => f.length < 126
                      /\ f.length < 256 * 256

VARIABLES
    frame,     \* the frame the client is sending
    p,         \* the parser's position in it
    end,       \* the end of the segment
    parser,    \* sess->ws_parser
    body       \* what websocket_frame_body was given of this frame, decoded

vars == <<frame, p, end, parser, body>>

-------------------------------------------------------------------------------
(* A frame on the wire.  Masks are told apart by the index of their bytes.      *)

MaskLen(f) == IF f.masked THEN 4 ELSE 0
BodyAt(f) == 2 + f.ext + MaskLen(f)
Size(f) == BodyAt(f) + f.length

Len7(f) == CASE f.ext = 0 -> f.length [] f.ext = 2 -> 126 [] f.ext = 8 -> 127

\* The extended length's byte at position q, most significant first.
ExtByte(f, q) == IF q = 1 + f.ext THEN f.length % 256
                 ELSE IF q = f.ext THEN f.length \div 256 ELSE 0

\* The payload's byte i, when it is right; a byte decoded with a wrong mask byte.
Payload(f) == [i \in 1 .. f.length |-> i]
Garbled == 0

-------------------------------------------------------------------------------
NewParser == [state |-> "start", masked |-> FALSE, length |-> 0, require |-> 0,
              mask |-> [i \in 0 .. 3 |-> 0], mask_offset |-> 0]

\* websocket_parser_decode of n body bytes that begin with byte "from" (1, ..).
Decoded(f, n, from) ==
    [j \in 1 .. n |->
        IF ~f.masked THEN from + j - 1
        ELSE IF parser.mask[(j - 1 + parser.mask_offset) % 4] = ((from + j - 2) % 4) + 1
             THEN from + j - 1
             ELSE Garbled]

\* Fault: each segment's body is decoded from the first byte of the mask.
Restarted(n) == n % 4

OffsetAfter(n) == (n + parser.mask_offset) % 4

\* websocket_frame_end frees the parser that the loop is using and makes a new one.
\* It returns no value, so the loop may stop here or go on, with the freed parser;
\* the segment is at its end, and both are the same.
EndFrame == parser' = NewParser

\* Fault: a frame without a body is not told apart.
AlwaysBody(ps) == parser' = [ps EXCEPT !.state = "body", !.require = ps.length]

\* The head is read: what follows it.
AfterHead(ps) ==
    IF ps.length > 0
    THEN parser' = [ps EXCEPT !.state = "body", !.require = ps.length]
    ELSE EndFrame

\* Fault: the mask is forgotten.
Unmasked(ps) == AfterHead(ps)

Expects(ps) ==
    IF ps.masked
    THEN parser' = [ps EXCEPT !.state = "mask", !.require = 4]
    ELSE AfterHead(ps)

Least(a, b) == IF a < b THEN a ELSE b
Available == Least(end - p, parser.require)

-------------------------------------------------------------------------------
(* One round of websocket_parser_execute's loop.                                *)

Reads(state) == p < end /\ parser.state = state

ReadStart ==
    /\ Reads("start")
    /\ parser' = [parser EXCEPT !.state = "head", !.length = 0, !.mask_offset = 0,
                                !.masked = FALSE]
    /\ p' = p + 1
    /\ UNCHANGED <<frame, end, body>>

ReadHead ==
    /\ Reads("head")
    /\ LET length == Len7(frame)
           ps == [parser EXCEPT !.masked = frame.masked] IN
       IF length >= 126
       THEN /\ parser' = [ps EXCEPT !.state = "length", !.length = 0,
                                    !.require = IF length = 127 THEN 8 ELSE 2]
       ELSE Expects([ps EXCEPT !.length = length])
    /\ p' = p + 1
    /\ UNCHANGED <<frame, end, body>>

\* As many bytes as are needed and there.
Shifted(length, q, n) ==
    LET after[k \in 0 .. n] ==
            IF k = 0 THEN length ELSE after[k - 1] * 256 + ExtByte(frame, (q + k) - 1)
    IN after[n]

ReadLength ==
    /\ Reads("length")
    /\ LET n == Available
           ps == [parser EXCEPT !.length = Shifted(@, p, n), !.require = @ - n] IN
       /\ p' = p + n
       /\ IF ps.require = 0 THEN Expects(ps) ELSE parser' = ps
    /\ UNCHANGED <<frame, end, body>>

ReadMask ==
    /\ Reads("mask")
    /\ LET n == Available
           ps == [parser EXCEPT
                    !.mask = [i \in 0 .. 3 |->
                                IF i \in 4 - parser.require .. 4 - parser.require + n - 1
                                THEN p + (i - (4 - parser.require)) - (2 + frame.ext) + 1
                                ELSE @[i]],
                    !.require = @ - n] IN
       /\ p' = p + n
       /\ IF ps.require = 0 THEN AfterHead(ps) ELSE parser' = ps
    /\ UNCHANGED <<frame, end, body>>

ReadBody ==
    /\ Reads("body")
    /\ LET n == Available IN
       /\ body' = body \o Decoded(frame, n, p - BodyAt(frame) + 1)
       /\ p' = p + n
       /\ IF n = parser.require
          THEN EndFrame
          ELSE /\ parser' = [parser EXCEPT !.require = @ - n,
                                           !.mask_offset =
                                               IF parser.masked THEN OffsetAfter(n) ELSE @]
    /\ UNCHANGED <<frame, end>>

\* The next segment of the frame: websocket_parser_execute is called with the
\* session's parser.
Segment ==
    /\ p = end /\ end < Size(frame)
    /\ end' \in end + 1 .. Size(frame)
    /\ UNCHANGED <<frame, p, parser, body>>

\* The next frame.
Send ==
    /\ p = end /\ end = Size(frame)
    /\ frame' \in Frames
    /\ p' = 0 /\ end' = 0 /\ body' = <<>>
    /\ UNCHANGED parser

Init ==
    /\ frame \in Frames
    /\ p = 0 /\ end = 0
    /\ parser = NewParser
    /\ body = <<>>

Next == ReadStart \/ ReadHead \/ ReadLength \/ ReadMask \/ ReadBody \/ Segment \/ Send

Spec == Init /\ [][Next]_vars

LiveSpec == Spec /\ WF_vars(Next)
-------------------------------------------------------------------------------
(* Properties.                                                                 *)

Parsers == [state : {"start", "head", "length", "mask", "body"}, masked : BOOLEAN,
            length : Nat, require : Nat, mask : [0 .. 3 -> Nat], mask_offset : 0 .. 3]

TypeOK ==
    /\ frame \in Frames
    /\ p \in 0 .. end /\ end \in 0 .. Size(frame)
    /\ parser \in Parsers
    /\ parser.length <= frame.length /\ parser.require <= Size(frame)
    /\ body \in Seq(Nat)

\* The parser keeps step with the frame: wherever TCP cuts it, what it still
\* requires is what still comes.
InStep ==
    /\ TypeOK
    /\ parser.state = "start" => p \in {0, Size(frame)}
    /\ parser.state = "head" => p = 1
    /\ parser.state = "length" => p + parser.require = 2 + frame.ext
    /\ parser.state = "mask" => p + parser.require = BodyAt(frame)
    /\ parser.state = "body" => p + parser.require = Size(frame)

\* What the parser has kept of the head: the length as far as its bytes have come,
\* and the mask's bytes as far as they have.
LengthSoFar(left) == IF left = 0 THEN frame.length
                     ELSE IF left = 1 THEN frame.length \div 256 ELSE 0
MaskRead(n) == \A i \in 0 .. n - 1 : parser.mask[i] = i + 1

KeptHead ==
    /\ parser.state = "start" => parser = NewParser
    /\ parser.state \in {"length", "mask", "body"} =>
          parser.require > 0 /\ parser.masked = frame.masked
    /\ parser.state = "length" =>
          /\ parser.require <= frame.ext
          /\ parser.length = LengthSoFar(parser.require)
    /\ parser.state = "mask" =>
          /\ frame.masked /\ parser.require <= 4 /\ MaskRead(4 - parser.require)
    /\ parser.state \in {"mask", "body"} => parser.length = frame.length

\* And of the body: nothing before it has come, then as much as has, all of it at
\* the frame's end; the offset is that of the mask's byte for the next one.
BodyRead == IF p < BodyAt(frame) THEN 0 ELSE p - BodyAt(frame)

KeptBody ==
    /\ body = [i \in 1 .. BodyRead |-> i]
    /\ parser.state \in {"head", "length", "mask"} => parser.mask_offset = 0
    /\ parser.state = "body" =>
          /\ p >= BodyAt(frame)
          /\ frame.masked => /\ MaskRead(4)
                             /\ parser.mask_offset = (p - BodyAt(frame)) % 4

IInv == InStep /\ KeptHead /\ KeptBody

\* The bodies handed on are the frame's payload, unmasked, in order, and nothing
\* else; when the frame has been read, all of it.
BodyDelivered ==
    /\ body = SubSeq(Payload(frame), 1, Len(body))
    /\ p = Size(frame) => body = Payload(frame)

\* Every frame, one without a body too, is read to its end and leaves a parser
\* that is ready for the next one.
FramesEnd == []<>(p = Size(frame) /\ parser.state = "start")
===============================================================================
