----------------------------- MODULE FlasherStub -------------------------------
(* The flasher stub that esptool runs on the chip (tools/esptool/flasher_stub): *)
(* an interrupt puts what comes over the serial line into one of two buffers    *)
(* while the main loop executes the command in the other.  A block of data is   *)
(* acknowledged first, then inflated and written.                               *)
EXTENDS NorFlash, Sequences

CONSTANTS File,             \* the files to write, their sectors disjoint
          SectorUnits,      \* units of a sector
          SectorsPerBlock,  \* sectors that are erased in one operation
          OutUnits,         \* out_buf, in units
          SyncAnswers,      \* answers to one SYNC: 8
          Misplaced,        \* places that a damaged header may name
          None

\* A file is its first unit and, for each of its compressed blocks, how many units
\* of it have been inflated at the block's end.
Size(f) == File[f].ends[Len(File[f].ends)]
Blocks(f) == DOMAIN File[f].ends
First(f, k) == IF k = 1 THEN 1 ELSE File[f].ends[k - 1] + 1
Image(f) == [i \in 1 .. Size(f) |-> <<f, i>>]
Place(f) == File[f].at .. File[f].at + Size(f) - 1
Sector(u) == u \div SectorUnits
Sectors(f) == {Sector(u) : u \in Place(f)}
FileSectors == UNION {Sectors(f) : f \in DOMAIN File}

\* Each block gives at least a unit; what is not of any file lies in other sectors.
ASSUME FilesAssumption ==
    /\ SectorUnits \in Nat \ {0} /\ SectorsPerBlock \in Nat \ {0}
    /\ OutUnits \in Nat \ {0} /\ SyncAnswers \in Nat \ {0}
    /\ File \in Seq([at : Nat, ends : Seq(Nat \ {0})]) /\ File # <<>>
    /\ \A f \in DOMAIN File :
          /\ Blocks(f) # {}
          /\ \A j, k \in Blocks(f) : j < k => File[f].ends[j] < File[f].ends[k]
          /\ Place(f) \subseteq Unit
          /\ \A i \in 1 .. Size(f) : <<f, i>> \in Data
    /\ \A f, g \in DOMAIN File : f # g => Sectors(f) \intersect Sectors(g) = {}
    /\ Misplaced # {}
    /\ Misplaced \subseteq {p \in [at : Nat, size : Nat] : p.at + p.size <= NUnits}

VARIABLES
    ub,       \* uart_buf_t: the two buffers, the one being read into, the SLIP
              \* state ("body": the frame has bytes) and the latest command
    job,      \* cmd_loop: the buffer it works on, and for a block of data the
              \* next unit of it to inflate
    fs,       \* the flashing state; inflator is the next unit of which file
    out,      \* out_buf up to next_out
    flash,
    answers   \* what has been sent and esptool has not read

stub == <<ub, job, fs, out>>

-------------------------------------------------------------------------------
(* The interrupt.                                                              *)

\* Fault: one buffer for all.
SameBuffer(b) == b

OtherBuffer(b) == 3 - b

\* A delimiter opens a frame or ends it; an empty one repeats the buffer's command.
Delimiter(u) ==
    IF u.slip = "none" THEN [u EXCEPT !.slip = "open"]
    ELSE [u EXCEPT !.slip = "none", !.command = u.reading,
                   !.reading = OtherBuffer(u.reading)]

\* Outside of a frame bytes are dropped; what follows a command is not looked at.
Bytes(u, frame) ==
    IF u.slip = "open" THEN [u EXCEPT !.slip = "body", !.buf[u.reading] = frame] ELSE u

-------------------------------------------------------------------------------
(* Flashing.                                                                   *)

Fresh == [file |-> 0, next |-> 1]
Broken == [file |-> 0, next |-> 0]

\* Fault: a sector too many, when the last one is full.
SectorsInclusive(offset, size) == ((offset % SectorUnits) + size) \div SectorUnits + 1

\* Fault: the last sector is forgotten, when it is not full.
SectorsWhole(offset, size) == ((offset % SectorUnits) + size) \div SectorUnits

SectorsToErase(offset, size) ==
    ((offset % SectorUnits) + size + SectorUnits - 1) \div SectorUnits

Begun(offset, size) ==
    [in_flash_mode |-> TRUE, next_write |-> offset, remaining |-> size,
     next_erase_sector |-> Sector(offset),
     remaining_erase_sector |-> SectorsToErase(offset, size),
     last_error |-> FALSE, inflator |-> Fresh]

Idle == [in_flash_mode |-> FALSE, next_write |-> 0, remaining |-> 0,
         next_erase_sector |-> 0, remaining_erase_sector |-> 0,
         last_error |-> FALSE, inflator |-> Fresh]

\* start_next_erase, when something is left to erase.
EraseNext(s) ==
    LET n == IF /\ s.remaining_erase_sector >= SectorsPerBlock
                /\ s.next_erase_sector % SectorsPerBlock = 0
             THEN SectorsPerBlock ELSE 1
    IN [s EXCEPT !.next_erase_sector = @ + n, !.remaining_erase_sector = @ - n]

\* With r of the sectors left.
LeftToErase(s, r) ==
    [s EXCEPT !.next_erase_sector = (@ + s.remaining_erase_sector) - r,
              !.remaining_erase_sector = r]

\* One operation after the other, as far as the sector of the write's end: how many
\* sectors are left in the end, with r left now.
StopsAt(s, last) ==
    LET stop[r \in 0 .. s.remaining_erase_sector] ==
            IF r = 0 \/ LeftToErase(s, r).next_erase_sector > last THEN r
            ELSE stop[EraseNext(LeftToErase(s, r)).remaining_erase_sector]
    IN stop

EraseUpTo(s, last) == LeftToErase(s, StopsAt(s, last)[s.remaining_erase_sector])

Erasure(mem, s, t) ==
    EraseUnits(mem, {u \in Unit : Sector(u) \in s.next_erase_sector .. t.next_erase_sector - 1})

\* handle_flash_data: the new state and the new flash.  SPIWrite may fail.
Stored(s, mem, data, fails) ==
    LET n == IF Len(data) > s.remaining THEN s.remaining ELSE Len(data)
        t == EraseUpTo(s, Sector(s.next_write + n))
        clean == Erasure(mem, s, t)
        range == s.next_write .. s.next_write + n - 1
    IN IF n = 0 THEN <<s, mem>>
       ELSE <<[t EXCEPT !.next_write = @ + n, !.remaining = @ - n,
                        !.last_error = @ \/ fails],
              IF fails THEN clean
              ELSE ProgramUnits(clean, range,
                                [u \in range |-> data[u - s.next_write + 1]])>>

\* One round of handle_flash_deflated_data's loop: an erasure beside it or not,
\* the units that tinfl_decompress gave and its status, and where in the block it
\* came to.  At the loop's end an error is kept for the next block's answer.
Round(units, status, inflator, next, last, fails) ==
    \E early \in BOOLEAN :
        LET s == IF early /\ fs.remaining_erase_sector > 0 THEN EraseNext(fs) ELSE fs
            full == status = "done" \/ Len(out \o units) = OutUnits
            st == IF full THEN Stored(s, Erasure(flash, fs, s), out \o units, fails)
                  ELSE <<s, Erasure(flash, fs, s)>>
            left == st[1].remaining
            ends == next > last \/ left = 0 \/ status # "more"
        IN /\ flash' = st[2]
           /\ out' = IF full THEN <<>> ELSE out \o units
           /\ fs' = [st[1] EXCEPT !.inflator = inflator,
                                  !.last_error = @ \/ (ends /\ \/ status = "error"
                                                               \/ (status = "done") # (left = 0))]
           /\ job' = IF ends THEN [job EXCEPT !.stage = "wait"] ELSE [job EXCEPT !.next = next]

\* The block that is being written, if its buffer still holds one.
Block == ub.buf[job.buf]

\* It goes on where the inflator is.
Continues ==
    /\ Block.op = "DATA" /\ Block.sound = "good"
    /\ job.next = fs.inflator.next
    /\ job.next \in First(Block.file, Block.seq) .. File[Block.file].ends[Block.seq]
    /\ Block.file = fs.inflator.file \/ fs.inflator = Fresh

StubInflates(fails) ==
    /\ job.stage = "write"
    /\ fs.remaining > 0
    /\ Continues
    /\ LET f == Block.file
           room == OutUnits - Len(out)
           end == File[f].ends[Block.seq]
           next == IF job.next + room <= end THEN job.next + room ELSE end + 1
       IN Round([i \in 1 .. next - job.next |-> <<f, job.next + i - 1>>],
                IF next > Size(f) THEN "done" ELSE "more",
                [file |-> f, next |-> next], next, end, fails)
    /\ UNCHANGED <<ub, answers>>

\* Anything else is an error at once, or gives garbage.
StubInflatesGarbage(fails) ==
    /\ job.stage = "write"
    /\ fs.remaining > 0
    /\ ~Continues
    /\ \/ Round(<<>>, "error", Broken, 1, 0, fails)
       \/ Round(<<Garbage>>, "more", Broken, 1, 0, fails)
    /\ UNCHANGED <<ub, answers>>

\* Nothing is left to write: the loop is not entered.
StubHasTooMuch ==
    /\ job.stage = "write"
    /\ fs.remaining = 0
    /\ job' = [job EXCEPT !.stage = "wait"]
    /\ fs' = [fs EXCEPT !.last_error = TRUE]
    /\ UNCHANGED <<ub, out, flash, answers>>

-------------------------------------------------------------------------------
(* Commands.                                                                   *)

\* val is what the answer's value is of: 0, or a register.
Answer(op, ok, val, hash) == [op |-> op, ok |-> ok, val |-> val, hash |-> hash]
Acknowledge(ok) == answers' = Append(answers, Answer(Block.op, ok, "zero", <<>>))

\* cmd_loop reads the pointer, and then clears it.
StubTakes ==
    /\ job.stage = "wait"
    /\ ub.command # None
    /\ job' = [job EXCEPT !.stage = "took", !.buf = ub.command]
    /\ UNCHANGED <<ub, fs, out, flash, answers>>

Handles(op) ==
    /\ job.stage = "took"
    /\ Block.op = op
    /\ ub' = [ub EXCEPT !.command = None]
    /\ UNCHANGED <<out, flash>>

Finishes == job' = [job EXCEPT !.stage = "wait"]

StubSyncs ==
    /\ Handles("SYNC")
    /\ LET ok == Block.sound = "good"
       IN answers' = answers \o [i \in 1 .. (IF ok THEN SyncAnswers ELSE 1) |->
                                    Answer("SYNC", ok, "zero", <<>>)]
    /\ Finishes
    /\ UNCHANGED fs

StubReads ==
    /\ Handles("READ")
    /\ answers' = Append(answers, Answer("READ", Block.sound = "good", "register", <<>>))
    /\ Finishes
    /\ UNCHANGED fs

\* A stub is loaded over the one that runs: the same one.
StubLoads ==
    /\ Handles("MEM")
    /\ Acknowledge(Block.sound = "good")
    /\ Finishes
    /\ UNCHANGED fs

\* The place that a command names.  Nothing checks it: when its bits have changed, or
\* it is what an older command has left in the buffer, it may be any other.
Named ==
    IF Block.sound = "missed" THEN Misplaced
    ELSE {IF Block.op = "LEAVE" THEN [at |-> 0, size |-> 0]
          ELSE [at |-> File[Block.file].at, size |-> Size(Block.file)]}

\* FLASH_DEFL_BEGIN, and FLASH_BEGIN of nothing at 0.  Only the length is checked.
StubBegins ==
    /\ Handles("BEGIN") \/ Handles("LEAVE")
    /\ \E p \in Named :
          fs' = IF Block.sound = "caught" THEN fs
                ELSE [Begun(p.at, p.size) EXCEPT
                        !.inflator = IF Block.op = "LEAVE" THEN fs.inflator ELSE Fresh]
    /\ Acknowledge(Block.sound # "caught")
    /\ Finishes

\* A block's answer tells of the blocks before it.
StubAcknowledges ==
    /\ Handles("DATA")
    /\ LET ok == fs.in_flash_mode /\ ~fs.last_error /\ Block.sound # "caught"
       IN /\ Acknowledge(ok)
          /\ job' = [job EXCEPT !.stage = IF ok THEN "write" ELSE "wait",
                                !.next = First(Block.file, Block.seq)]
    /\ UNCHANGED fs

StubHashes ==
    /\ Handles("MD5")
    /\ \E p \in Named :
          answers' = Append(answers, Answer("MD5", Block.sound # "caught", "zero",
                                            [i \in 1 .. p.size |-> flash[p.at + i - 1]]))
    /\ Finishes
    /\ UNCHANGED fs

\* Nothing of an END is checked.
StubEnds ==
    /\ Handles("END")
    /\ LET may == fs.in_flash_mode /\ fs.remaining = 0
       IN /\ fs' = IF may THEN [fs EXCEPT !.in_flash_mode = FALSE] ELSE fs
          /\ Acknowledge(may /\ ~fs.last_error)
    /\ Finishes

\* A buffer that has held no command yet.
StubRefuses ==
    /\ Handles("none")
    /\ Acknowledge(FALSE)
    /\ Finishes
    /\ UNCHANGED fs

StubWorks == StubTakes \/ StubSyncs \/ StubReads \/ StubLoads \/ StubBegins \/ StubAcknowledges
               \/ StubHashes \/ StubEnds \/ StubRefuses \/ StubHasTooMuch

Frame(op, file, seq) == [op |-> op, file |-> file, seq |-> seq, sound |-> "good"]

\* stub_main, as far as the greeting.
NewUart == [slip |-> "none", reading |-> 1, command |-> None,
            buf |-> [b \in 1 .. 2 |-> Frame("none", 0, 0)]]
NewJob == [stage |-> "wait", buf |-> 1, next |-> 1]

Restarts == ub' = NewUart /\ job' = NewJob /\ fs' = Idle /\ out' = <<>>

\* It is started from memory by a command of its own too.
StubJumps ==
    /\ job.stage = "took"
    /\ Block.op = "MEM_END"
    /\ Acknowledge(Block.sound = "good")
    /\ IF Block.sound = "good" THEN Restarts
       ELSE Finishes /\ ub' = [ub EXCEPT !.command = None] /\ UNCHANGED <<fs, out>>
    /\ UNCHANGED flash
===============================================================================
