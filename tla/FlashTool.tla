------------------------------ MODULE FlashTool --------------------------------
(* esptool's write_flash, as "make flash" and "make uploadfs" run it: it resets *)
(* the chip into its ROM's loader, which starts the flasher stub, and has the   *)
(* stub write and hash file after file.  It sends one command at a time over a  *)
(* serial line on which anything gets lost, and takes the next answer to that   *)
(* command for its own.  A run that fails leaves the chip as it is for the next *)
(* one, whose reset may not work: the stub may then be running still.           *)
EXTENDS FlasherStub, FiniteSets

CONSTANTS Old,        \* what the flash holds where nothing was written
          Tries,      \* attempts to connect
          Syncs,      \* SYNCs of an attempt: 5
          MaxFaults   \* bound: what goes wrong on the line and in the flash

ASSUME ToolAssumption ==
    /\ Old \in Data
    /\ Tries \in Nat \ {0} /\ Syncs \in Nat \ {0} /\ MaxFaults \in Nat

VARIABLES
    verdict,   \* of the run: "none" before the first
    request,   \* the command that esptool waits for
    got,       \* how many of the answers to a SYNC it has read
    try,       \* SYNCs sent
    detected,  \* sync_stub_detected
    wire,      \* the frame on its way to the chip
    chip,      \* "app", the "rom" loader or the "stub"
    loader,    \* the frames the ROM's loader has not answered yet
    faults,
    clean,     \* history: the last reset worked and nothing has gone wrong since
    deceived,  \* history: in this run the stub was told another place for a file than
               \* esptool meant, or a BEGIN that failed was answered as if it had not
    strayed    \* history: the stub was once told another place to write to

device == <<chip, loader>>
tool == <<verdict, request, got, try, detected>>
history == <<faults, clean, deceived, strayed>>
vars == <<tool, wire, device, history, stub, flash, answers>>

FaultIsLeft == faults < MaxFaults
Fault == FaultIsLeft /\ faults' = faults + 1 /\ clean' = FALSE
NoFault == UNCHANGED history

-------------------------------------------------------------------------------
(* What esptool asks for, one thing after the other.                           *)

After(r) ==
    CASE r.op = "SYNC" -> Frame("READ", 0, 0)
      [] r.op = "READ" /\ r.file = 0 ->
            IF detected THEN Frame("BEGIN", 1, 0) ELSE Frame("MEM", 0, 0)
      [] r.op = "MEM" -> Frame("MEM_END", 0, 0)
      [] r.op = "MEM_END" -> Frame("OHAI", 0, 0)
      [] r.op = "OHAI" -> Frame("BEGIN", 1, 0)
      [] r.op = "BEGIN" -> Frame("DATA", r.file, 1)
      [] r.op = "DATA" ->
            IF r.seq + 1 \in Blocks(r.file) THEN Frame("DATA", r.file, r.seq + 1)
            ELSE Frame("READ", r.file, 0)
      [] r.op = "READ" /\ r.file # 0 -> Frame("MD5", r.file, 0)
      [] r.op = "MD5" ->
            IF r.file + 1 \in DOMAIN File THEN Frame("BEGIN", r.file + 1, 0)
            ELSE Frame("LEAVE", 0, 0)
      [] r.op = "LEAVE" -> Frame("END", 0, 0)

Ends(v) ==
    /\ verdict' = v
    /\ request' = Frame("none", 0, 0)
    /\ got' = 0
    /\ answers' = <<>>
    /\ UNCHANGED <<try, detected, wire>>

\* The next command is sent, or for the stub's greeting only awaited.  A change of
\* the speed, before the first file, ends in flush_input.
GoesOn(others) ==
    /\ request' = After(request)
    /\ IF request'.op = "OHAI" THEN UNCHANGED wire ELSE wire = None /\ wire' = request'
    /\ answers' \in {others} \union {none \in {<<>>} : request' = Frame("BEGIN", 1, 0)}
    /\ got' = 0
    /\ UNCHANGED <<verdict, try, detected>>

Skips == UNCHANGED <<tool, wire>> /\ answers' = Tail(answers)

\* hard_reset after the last answer: the application starts, if it works.
Leaves ==
    /\ Ends("done")
    /\ \/ chip' = "app"
       \/ UNCHANGED chip
    /\ UNCHANGED loader

-------------------------------------------------------------------------------
(* Answers.                                                                    *)

Reads == verdict = "running" /\ answers # <<>>

Mine(a) == a.op = request.op

\* Fault: the hash is not looked at.
HasStatus(a) == a.ok

Right(a) == a.ok /\ (a.op = "MD5" => a.hash = Image(request.file))

\* Fault: sync() leaves the other answers on the line.
FirstOnly(n) == TRUE

\* Fault: it waits for one more than come.
OneMore(n) == n > SyncAnswers

AllAnswered(n) == n = SyncAnswers

\* sync() waits for an answer to SYNC, and takes the next ones as they come.
ToolReadsSync ==
    /\ Reads
    /\ request.op = "SYNC"
    /\ LET a == Head(answers)
           taken == a.op # "OHAI" /\ (got > 0 \/ Mine(a))
       IN IF ~taken THEN Skips
          ELSE /\ answers' = Tail(answers)
               /\ detected' = ((got > 0 => detected) /\ a.val = "zero")
               /\ IF AllAnswered(got + 1)
                  THEN /\ request' = After(request)
                       /\ wire = None /\ wire' = request'
                       /\ got' = 0
                  ELSE got' = got + 1 /\ UNCHANGED <<request, wire>>
               /\ UNCHANGED <<verdict, try>>
    /\ NoFault
    /\ UNCHANGED <<device, stub, flash>>

\* The greeting must be the very next thing that comes.
ToolReadsGreeting ==
    /\ Reads
    /\ request.op = "OHAI"
    /\ IF Mine(Head(answers)) THEN GoesOn(Tail(answers)) ELSE Ends("failed")
    /\ NoFault
    /\ UNCHANGED <<device, stub, flash>>

\* command() skips what answers another command.
ToolReads ==
    /\ Reads
    /\ request.op \notin {"SYNC", "OHAI"}
    /\ LET a == Head(answers)
       IN \/ ~Mine(a) /\ Skips /\ UNCHANGED device
          \/ Mine(a) /\ ~Right(a) /\ request.op # "MEM_END" /\ Ends("failed")
               /\ UNCHANGED device
          \/ Mine(a) /\ (request.op = "MEM_END" \/ (Right(a) /\ request.op # "END"))
               /\ GoesOn(Tail(answers)) /\ UNCHANGED device
          \/ Mine(a) /\ Right(a) /\ request.op = "END" /\ Leaves
    /\ NoFault
    /\ UNCHANGED <<stub, flash>>

-------------------------------------------------------------------------------
(* Connecting, and what ends a wait.                                            *)

\* A reset that works starts the ROM's loader.
Reset ==
    \/ chip' = "rom" /\ loader' = <<>> /\ Restarts /\ clean' = TRUE
    \/ UNCHANGED <<device, stub>> /\ clean' = FALSE

\* _connect_attempt: a reset, and then flush_input and SYNC for each try.
Connects(n) ==
    /\ try' = n
    /\ request' = Frame("SYNC", 0, 0)
    /\ wire' = Frame("SYNC", 0, 0)
    /\ answers' = <<>>
    /\ got' = 0
    /\ verdict' = "running"
    /\ UNCHANGED detected

ToolStarts ==
    /\ verdict # "running"
    /\ wire = None
    /\ Connects(1)
    /\ Reset
    /\ deceived' = FALSE
    /\ UNCHANGED <<faults, strayed, flash>>

\* Nothing comes because nothing is left that could answer; or the answer is late,
\* the stub being busy or the loader slow.
Quiet ==
    /\ answers = <<>> /\ wire = None /\ chip # "starting"
    /\ chip = "rom" => loader = <<>>
    /\ chip = "stub" => job.stage = "wait" /\ ub.command = None

TimesOut == verdict = "running" /\ answers = <<>> /\ wire = None

ToolTriesAgain ==
    /\ TimesOut
    /\ request.op = "SYNC"
    /\ try < Tries * Syncs
    /\ Connects(try + 1)
    /\ IF Quiet THEN UNCHANGED faults ELSE FaultIsLeft /\ faults' = faults + 1
    /\ \/ try % Syncs = 0 /\ Reset
       \/ try % Syncs # 0 /\ UNCHANGED <<device, stub>> /\ clean' = (clean /\ Quiet)
    /\ UNCHANGED <<deceived, strayed, flash>>

\* Fault: connecting goes on for ever, as with --connect-attempts 0.
ToolGivesUpLater ==
    /\ TimesOut
    /\ \/ request.op = "SYNC" /\ try = Tries * Syncs /\ Connects(1)
       \/ request.op = "MEM_END" /\ GoesOn(<<>>)
       \/ request.op \notin {"SYNC", "MEM_END"} /\ Ends("failed")
    /\ IF Quiet THEN NoFault ELSE Fault
    /\ UNCHANGED <<deceived, strayed, device, stub, flash>>

\* mem_finish goes on without an answer: the loader may not have sent it.
ToolGivesUp ==
    /\ TimesOut
    /\ request.op = "SYNC" => try = Tries * Syncs
    /\ IF request.op = "MEM_END" THEN GoesOn(<<>>) ELSE Ends("failed")
    /\ IF Quiet THEN NoFault ELSE Fault
    /\ UNCHANGED <<deceived, strayed, device, stub, flash>>

-------------------------------------------------------------------------------
(* The line and the ROM's loader.                                              *)

Received(u) == Delimiter(Bytes(Delimiter(u), wire))

\* Damage: a delimiter or the bytes are lost, a delimiter is made of noise, bits
\* change.  The checksum of a block of data catches that or not, and the length of
\* another command; a place has no checksum.
Unnoticed == IF wire.op \in {"BEGIN", "DATA", "MD5", "LEAVE"} THEN {"caught", "missed"}
             ELSE {"caught"}

\* A delimiter in the middle ends the frame, the rest of its buffer being what was in
\* it before, and the delimiter at its end opens one.  (What follows that in the
\* middle is no command by chance.)
Damaged(u) ==
    {u, Delimiter(Bytes(u, wire)), Delimiter(Delimiter(u)), Bytes(Delimiter(u), wire),
     Delimiter(Bytes(Delimiter(Delimiter(u)), wire))}
      \union {Delimiter(Bytes(Delimiter(u), [wire EXCEPT !.sound = s])) : s \in Unnoticed}
      \union {Delimiter(Delimiter(Bytes(Delimiter(u), [wire EXCEPT !.sound = s]))) :
                s \in IF u.slip = "none" THEN Unnoticed \union {"good"} ELSE {}}

StubReceives ==
    /\ chip = "stub" /\ wire # None
    /\ wire' = None
    /\ \/ ub' = Received(ub) /\ NoFault
       \/ ub' \in Damaged(ub) /\ Fault
    /\ UNCHANGED <<deceived, strayed, tool, device, job, fs, out, flash, answers>>

\* The loader takes its time.  It answers SYNC many times, and never with a 0.
RomReceives ==
    /\ chip = "rom" /\ wire # None
    /\ wire' = None
    /\ loader' = Append(loader, wire)
    /\ NoFault
    /\ UNCHANGED <<tool, chip, stub, flash, answers>>

RomAnswers ==
    /\ chip = "rom" /\ loader # <<>>
    /\ LET op == Head(loader).op
           a == Answer(op, TRUE, "register", <<>>)
       IN /\ \/ op = "SYNC" /\ answers' = answers \o [i \in 1 .. SyncAnswers |-> a]
             \/ op \in {"READ", "MEM"} /\ answers' = Append(answers, a)
             \/ op = "MEM_END" /\ answers' = Append(answers, a)
          /\ chip' = IF op = "MEM_END" THEN "starting" ELSE "rom"
    /\ loader' = Tail(loader)
    /\ NoFault
    /\ UNCHANGED <<tool, wire, stub, flash>>

\* stub_main greets.
StubStarts ==
    /\ chip = "starting"
    /\ chip' = "stub"
    /\ answers' = Append(answers, Answer("OHAI", TRUE, "zero", <<>>))
    /\ NoFault
    /\ UNCHANGED <<tool, wire, loader, stub, flash>>

\* The application does not answer, nor does a loader that got no whole frame.
NobodyAnswers ==
    /\ wire # None
    /\ wire' = None
    /\ \/ chip \in {"app", "starting"} /\ NoFault
       \/ chip = "rom" /\ Fault
    /\ UNCHANGED <<deceived, strayed, tool, device, stub, flash, answers>>

\* An answer is lost, or its status is changed, or its value, which has no checksum.
AnswerDamaged ==
    /\ \E i \in DOMAIN answers :
          \/ answers' = SubSeq(answers, 1, i - 1) \o SubSeq(answers, i + 1, Len(answers)) /\ UNCHANGED deceived
          \/ /\ answers' = [answers EXCEPT ![i].ok = ~@]
             /\ deceived' = (deceived \/ (answers[i].op = "BEGIN" /\ ~answers[i].ok))
          \/ answers' = [answers EXCEPT ![i].val = "register"] /\ UNCHANGED deceived
    /\ Fault
    /\ UNCHANGED <<strayed, tool, wire, device, stub, flash>>

\* What the stub executes names another place.
Misled(ops) == job.stage = "took" /\ Block.op \in ops /\ Block.sound = "missed"

\* The stub at work; the flash may fail.
StubRuns ==
    /\ chip = "stub"
    /\ \/ StubWorks /\ UNCHANGED <<faults, clean>>
       \/ StubInflates(FALSE) /\ UNCHANGED <<faults, clean>>
       \/ StubInflatesGarbage(FALSE) /\ UNCHANGED <<faults, clean>>
       \/ StubInflates(TRUE) /\ Fault
    /\ deceived' = (deceived \/ Misled({"BEGIN", "MD5"}))
    /\ strayed' = (strayed \/ Misled({"BEGIN", "LEAVE"}))
    /\ UNCHANGED <<tool, wire, device>>

\* It greets anew when it is started.
StubRestarts ==
    /\ chip = "stub"
    /\ StubJumps
    /\ chip' = IF Block.sound = "good" THEN "starting" ELSE "stub"
    /\ NoFault
    /\ UNCHANGED <<tool, wire, loader>>

-------------------------------------------------------------------------------
Init ==
    /\ verdict = "none"
    /\ request = Frame("none", 0, 0)
    /\ got = 0 /\ try = 0
    /\ detected = FALSE
    /\ wire = None
    /\ chip = "app" /\ loader = <<>>
    /\ ub = NewUart /\ job = NewJob /\ fs = Idle /\ out = <<>>
    /\ flash \in [Unit -> {Old}]
    /\ answers = <<>>
    /\ faults = 0 /\ clean = FALSE
    /\ deceived = FALSE /\ strayed = FALSE

Next == ToolStarts \/ ToolReadsSync \/ ToolReadsGreeting \/ ToolReads \/ ToolTriesAgain
          \/ ToolGivesUp \/ StubReceives \/ RomReceives \/ RomAnswers \/ StubStarts
          \/ NobodyAnswers \/ AnswerDamaged \/ StubRuns \/ StubRestarts

Spec == Init /\ [][Next]_vars

\* esptool reads what comes and waits no longer than its timeouts; the chip works.
Progress == \/ ToolReadsSync \/ ToolReadsGreeting \/ ToolReads
            \/ Quiet /\ (ToolTriesAgain \/ ToolGivesUp)
LiveSpec == Spec /\ WF_vars(Progress) /\ WF_vars(StubReceives) /\ WF_vars(RomReceives)
              /\ WF_vars(RomAnswers) /\ WF_vars(StubStarts) /\ WF_vars(StubRuns)
              /\ WF_vars(StubRestarts)
              /\ WF_vars(NobodyAnswers /\ chip # "rom")
-------------------------------------------------------------------------------
(* Properties.                                                                 *)

Ops == {"none", "SYNC", "READ", "MEM", "MEM_END", "OHAI", "BEGIN", "DATA", "MD5",
        "LEAVE", "END"}
Frames ==
    {frame \in [op : Ops, file : 0 .. Len(File), seq : Nat, sound : {"good", "caught", "missed"}] :
        /\ frame.op \in {"BEGIN", "DATA", "MD5"} => frame.file # 0
        /\ frame.op = "DATA" => frame.seq \in Blocks(frame.file)}

ASSUME NoneAssumption == None \notin {1, 2} \union Frames

Answers == [op : Ops, ok : BOOLEAN, val : {"zero", "register"}, hash : Seq(Content)]

\* Neither of the counts of a flashing state goes below zero.
FlashingState ==
    [in_flash_mode : BOOLEAN, next_write : Nat, remaining : Nat, next_erase_sector : Nat,
     remaining_erase_sector : Nat, last_error : BOOLEAN, inflator : [file : Nat, next : Nat]]

TypeOK ==
    /\ verdict \in {"none", "running", "done", "failed"}
    /\ request \in Frames /\ wire \in Frames \union {None}
    /\ got \in 0 .. SyncAnswers - 1 /\ try \in 0 .. Tries * Syncs
    /\ detected \in BOOLEAN /\ clean \in BOOLEAN
    /\ deceived \in BOOLEAN /\ strayed \in BOOLEAN
    /\ chip \in {"app", "rom", "starting", "stub"}
    /\ loader \in Seq(Frames)
    /\ ub \in [slip : {"none", "open", "body"}, reading : 1 .. 2, command : {1, 2, None},
              buf : [1 .. 2 -> Frames]]
    /\ job \in [stage : {"wait", "took", "write"}, buf : 1 .. 2, next : Nat]
    /\ fs \in FlashingState /\ fs.next_write + fs.remaining \in 0 .. NUnits
    /\ out \in Seq(Content) /\ Len(out) < OutUnits
    /\ flash \in [Unit -> Content]
    /\ answers \in Seq(Answers)
    /\ faults \in 0 .. MaxFaults

\* Nothing outside the files' sectors is erased or written, as long as no place that
\* the stub is told has changed on the line: the settings and the file system of the
\* device survive a new firmware.
OthersKept == ~strayed => \A u \in Unit : Sector(u) \notin FileSectors => flash[u] = Old

\* What the stub has still to write and to erase is in these sectors.
Within(s, sectors) ==
    /\ \A u \in s.next_write .. s.next_write + s.remaining - 1 : Sector(u) \in sectors
    /\ \A e \in s.next_erase_sector .. s.next_erase_sector + s.remaining_erase_sector - 1 :
          e \in sectors

\* Whichever blocks come, of whichever file, they go to the files' places.
InFiles == ~strayed => Within(fs, FileSectors)

\* An answer to each of these operations, in this order.
AnswersTo(some, ops) == Len(some) = Len(ops) /\ \A i \in DOMAIN ops : some[i].op = ops[i]

\* A stub that has not greeted has done nothing yet, and the command the stub is at
\* or has to take up lies in the buffer that is not being read into.
StubInOrder ==
    /\ chip \in {"rom", "starting"} => ub = NewUart /\ job = NewJob /\ fs = Idle /\ out = <<>>
    /\ ub.command # None => ub.command = OtherBuffer(ub.reading)
    /\ job.stage = "took" => ub.command # None

\* While nothing goes wrong: the command is on its way to the loader or with it, or
\* its answers are on theirs ...
LoaderInStep ==
    /\ request \in {Frame(op, 0, 0) : op \in {"SYNC", "READ", "MEM", "MEM_END"}}
    /\ got > 0 \/ request.op = "READ" => ~detected
    /\ \/ /\ chip = "rom" /\ answers = <<>> /\ got = 0
          /\ \/ wire = request /\ loader = <<>>
             \/ wire = None /\ loader = <<request>>
       \/ /\ request.op # "MEM_END"
          /\ chip = "rom" /\ wire = None /\ loader = <<>>
          /\ Len(answers) = IF request.op = "SYNC" THEN SyncAnswers - got ELSE 1
          /\ \A i \in DOMAIN answers : answers[i].op = request.op /\ answers[i].val = "register"

\* ... or the loader's answer to MEM_END, the stub's greeting or both are ...
StubGreets ==
    /\ wire = None /\ loader = <<>> /\ ub = NewUart /\ job = NewJob
    /\ \/ request.op = "MEM_END" /\ chip = "starting" /\ AnswersTo(answers, <<"MEM_END">>)
       \/ request.op = "MEM_END" /\ chip = "stub" /\ AnswersTo(answers, <<"MEM_END", "OHAI">>)
       \/ request.op = "OHAI" /\ chip = "starting" /\ AnswersTo(answers, <<>>)
       \/ request.op = "OHAI" /\ chip = "stub" /\ AnswersTo(answers, <<"OHAI">>)

\* ... or it is on its way to the stub or the stub's latest, or its answer is on the
\* way; the block that is being written is not in the way of what comes.
StubInStep ==
    /\ request.op \in {"BEGIN", "DATA", "READ", "MD5", "LEAVE", "END"}
    /\ request.op = "READ" => request.file # 0
    /\ chip = "stub" /\ loader = <<>> /\ ub.slip = "none"
    /\ job.stage = "took" => job.buf = ub.command
    /\ job.stage = "write" /\ ub.command = None => job.buf = OtherBuffer(ub.reading)
    /\ \/ wire = request /\ ub.command = None /\ AnswersTo(answers, <<>>)
       \/ wire = None /\ ub.command # None /\ ub.buf[ub.command] = request /\ AnswersTo(answers, <<>>)
       \/ wire = None /\ ub.command = None /\ AnswersTo(answers, <<request.op>>)

InStep ==
    clean => IF verdict = "running" THEN LoaderInStep \/ StubGreets \/ StubInStep
             ELSE wire = None

\* The inductive invariant of OthersKept, OneAtATime and BlocksStay.
StepInv ==
    /\ TypeOK
    /\ verdict = "running" => request.op # "none"
    /\ InFiles
    /\ OthersKept
    /\ StubInOrder
    /\ InStep

-------------------------------------------------------------------------------
(* Why what is called written is: whatever went wrong.                          *)

\* The buffer whose command the stub executes next, if any.
Due == IF job.stage = "took" THEN {job.buf} ELSE {ub.command} \ {None}
DueIs(op) == \E b \in Due : ub.buf[b].op = op

\* The two buffers: what was read last, and what is repeated by an empty frame.
Latest == ub.buf[OtherBuffer(ub.reading)]
Older == ub.buf[ub.reading]

Running(ops) == verdict = "running" /\ request.op \in ops

\* Nothing is on its way to the chip but the command that esptool waits for, or
\* MEM_END, which it need not wait for.
Sent ==
    verdict = "running" /\ wire # None =>
        wire = request \/ (request.op = "OHAI" /\ wire.op = "MEM_END")

\* A BEGIN of an earlier run may be in a buffer still, and is executed when an empty
\* frame repeats it; but not so late that its answer could be taken for the first
\* file's while more is to come.
NoBegin == \A b \in 1 .. 2 : ub.buf[b].op # "BEGIN"
NoBeginAfter(i) == \A j \in i + 1 .. Len(answers) : answers[j].op # "BEGIN"

\* A SYNC of this run has been executed, before the i-th answer.
SyncBefore(i) == got > 0 \/ \E h \in 1 .. i - 1 : answers[h].op = "SYNC"

AfterSync ==
    Running({"SYNC"}) =>
        /\ SyncBefore(Len(answers) + 1) =>
              /\ wire # None =>
                    NoBegin \/ (Due = {} /\ \E b \in 1 .. 2 : ub.buf[b].op = "SYNC")
              /\ wire = None /\ Due # {} /\ ~DueIs("SYNC") => NoBegin \/ Older.op # "BEGIN"
        /\ \A i \in DOMAIN answers :
              SyncBefore(i) /\ answers[i].op # "SYNC" =>
                  \/ NoBegin /\ NoBeginAfter(i)
                  \/ i = Len(answers) /\ wire = None /\ Due = {} /\ Older.op # "BEGIN"

AfterRead ==
    Running({"READ"}) /\ request.file = 0 =>
        /\ wire # None /\ DueIs("READ") => NoBegin \/ Older.op # "BEGIN"
        /\ \A i \in DOMAIN answers : answers[i].op = "READ" =>
              /\ NoBeginAfter(i)
              /\ \/ NoBegin
                 \/ wire = None /\ ~DueIs("BEGIN")
                 \/ Due = {} /\ Older.op # "BEGIN"

AfterGreeting ==
    Running({"SYNC", "MEM", "MEM_END", "OHAI"}) \/ (Running({"READ"}) /\ request.file = 0) =>
        \A i \in DOMAIN answers : answers[i].op = "OHAI" => NoBegin /\ NoBeginAfter(i)

\* What the buffers hold when the stub has taken up a command.
Left(op) ==
    CASE op = "BEGIN" -> Latest.op = "BEGIN" \/ (ub.slip = "body" /\ Older.op = "BEGIN")
      [] op = "DATA" -> /\ Latest.op = "DATA"
                        /\ Older.op \in {"BEGIN", "DATA"} \/ ub.slip = "none"
      [] op = "READ" -> /\ Latest.op = "READ"
                        /\ Older.op = "DATA" \/ (Older.op = "BEGIN" /\ ub.slip = "none")
      [] op = "MD5" -> Latest.op = "MD5" /\ Older.op \in {"READ", "DATA"} /\ ub.slip # "body"
      [] OTHER -> TRUE

\* The first BEGIN that is answered is the last thing that the stub had to do.
AfterBegin ==
    Running({"BEGIN"}) /\ request.file = 1 =>
        /\ wire # None => (\A i \in DOMAIN answers : answers[i].op # "BEGIN") /\ ~DueIs("BEGIN")
        /\ wire = None /\ job.stage = "took" /\ Block.op = "BEGIN" =>
              job.buf # ub.reading \/ ub.slip = "body"
        /\ \A i \in DOMAIN answers : answers[i].op = "BEGIN" =>
              i = Len(answers) /\ wire = None /\ Due = {} /\ chip = "stub" /\ Left("BEGIN")

\* From then on one thing is done at a time, even when things go wrong.
AtFiles ==
    \/ Running({"DATA", "MD5", "LEAVE", "END"})
    \/ Running({"READ"}) /\ request.file # 0
    \/ Running({"BEGIN"}) /\ request.file # 1

OneThing ==
    AtFiles =>
        /\ chip \in {"stub", "starting"}
        /\ wire # None => chip = "stub" /\ Due = {} /\ answers = <<>>
        /\ Due # {} => answers = <<>> /\ Due = {ub.command}
        /\ \A i \in DOMAIN answers :
              answers[i].op = request.op => Len(answers) = 1 /\ chip = "stub"

\* The command may be answered yet: then it, or an old one like it, has been executed
\* or will be, and no command but a block can have been executed in its place.
MayAnswer ==
    wire # None \/ DueIs(request.op) \/ \E i \in DOMAIN answers : answers[i].op = request.op

Before ==
    CASE request.op = "DATA" -> IF request.seq = 1 THEN "BEGIN" ELSE "DATA"
      [] request.op = "READ" -> "DATA"
      [] request.op = "MD5" -> "READ"
      [] request.op \in {"BEGIN", "LEAVE"} -> "MD5"
      [] OTHER -> "none"

InBuffers ==
    AtFiles /\ MayAnswer =>
        /\ wire # None => Left(Before)
        /\ wire = None => Left(request.op)
        /\ wire = None /\ request.op \in {"BEGIN", "MD5"} => Latest.file = request.file

Written(f) == \A i \in 1 .. Size(f) : flash[File[f].at + i - 1] = <<f, i>>
FilesDone == IF request.op \in {"LEAVE", "END"} THEN DOMAIN File ELSE 1 .. request.file - 1

\* The stub writes and erases in the place of the file at hand, so the files before
\* it stay, and each is written when it has been hashed.
InPlace ==
    AtFiles /\ MayAnswer /\ ~deceived =>
        /\ \A f \in FilesDone : Written(f)
        /\ request.op \in {"BEGIN", "LEAVE", "END"} => job.stage # "write"
        /\ request.op \in {"DATA", "READ", "MD5"} /\ request.file # 1 =>
              Within(fs, Sectors(request.file))
        /\ \A i \in DOMAIN answers : answers[i].op = request.op =>
              /\ request.op = "BEGIN" /\ answers[i].ok => Within(fs, Sectors(request.file))
              /\ request.op = "MD5" =>
                    /\ job.stage # "write"
                    /\ answers[i].hash = Image(request.file) => Written(request.file)

\* When all of them are written the stub has nothing left to do.
Finished ==
    verdict = "done" =>
        /\ wire = None /\ Due = {} /\ answers = <<>> /\ chip \in {"app", "stub"}
        /\ ~deceived => job.stage # "write" /\ \A f \in DOMAIN File : Written(f)

DoneInv ==
    /\ Sent /\ AfterSync /\ AfterRead /\ AfterGreeting /\ AfterBegin
    /\ OneThing /\ InBuffers /\ InPlace /\ Finished

\* And with that of DoneIsWritten, the inductive invariant of them all.
IInv == StepInv /\ DoneInv

-------------------------------------------------------------------------------
\* What esptool calls written is written: when it has hashed the last file, each
\* file is in the flash, whatever happened on the line before and in earlier runs.
DoneIsWritten == verdict = "done" /\ ~deceived => \A f \in DOMAIN File : Written(f)

\* While nothing goes wrong esptool and the stub are in step: of the command, its
\* execution and its answer there is one.  (SYNC has many answers, and the stub
\* greets while the loader's answer to MEM_END is on its way.)
OneAtATime ==
    clean /\ verdict = "running" /\ request.op \notin {"SYNC", "MEM_END"} =>
        Len(answers) + Cardinality({w \in {wire} : w # None}) + Len(loader)
          + Cardinality({c \in {ub.command} : c # None}) <= 1

\* While nothing goes wrong the block that is being written stays in its buffer: the
\* next one, sent as soon as this one is acknowledged, goes into the other.
BlocksStay ==
    [][clean /\ clean' /\ job.stage = "write" =>
         ub'.buf[job.buf] = ub.buf[job.buf] \/ chip' = "rom"]_vars

\* After a reset that works and with nothing going wrong the files get written.
CleanSucceeds == clean ~> (verdict = "done" \/ ~clean)

\* esptool comes to an end, whatever is lost.
ToolEnds == verdict = "running" ~> verdict # "running"
===============================================================================
