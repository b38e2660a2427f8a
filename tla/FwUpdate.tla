------------------------------- MODULE FwUpdate -------------------------------
(* Firmware update over the web socket /fw_stream: the upload handler of the   *)
(* application (source/main.c), the restart timer, and the bootloader that     *)
(* copies the uploaded ROM over the main one (source/bboot/source/bboot.c),    *)
(* on a flash chip whose operations fail and with a power supply that is cut   *)
(* at any moment.  The application is cooperative (callbacks run to their      *)
(* end), so what can come between two flash operations of a handler is a power *)
(* loss; each flash operation is a step of its own for that reason.            *)
EXTENDS NorFlash

CONSTANTS RomUnits,       \* first units that begin with a ROM magic (rom_private.h)
          TornAnnounces,  \* does the build read a new_rom byte that is neither
                          \* 0 nor 1 as true?  (a bool compared with 1)
          MaxPiece,       \* bound: units in one TCP piece of an upload frame
          MaxFaults       \* bound: power losses and flash errors in a behaviour

ASSUME UpdateAssumption ==
    /\ RomUnits \subseteq Data
    /\ RomUnits # {}
    /\ TornAnnounces \in BOOLEAN
    /\ MaxPiece \in Nat \ {0}
    /\ MaxFaults \in Nat

VARIABLES
    pc,            \* where the processor is
    upload_state,  \* the application's upload state
    received,      \* the units of the current upload; those from byte_written
                   \* to upto are the content the handler still has to write
    upto,          \* byte_written + content_len - content_pos
    told,          \* the last message sent to the page
    armed,         \* timer_restart_after_update
    offset,        \* the bootloader's copy offset
    param,         \* the boot parameter sector
    main, newp,    \* the APP_MAIN and APP_NEW partitions
    faults,        \* power losses and flash errors so far
    staged,        \* history: the last completed upload
    installed,     \* history: the image the bootloader last put into APP_MAIN
    tainted        \* history: see SilentFailure and DataPiece

ram   == <<upload_state, received, upto, told, armed>>
flash == <<param, main, newp>>
ghost == <<staged, installed, tainted>>
vars  == <<pc, ram, offset, flash, faults, ghost>>

-------------------------------------------------------------------------------
(* Data.                                                                       *)

\* bboot_data_t: "blank" has no BBOOT_MAGIC; "idle" has new_rom = 0; "new" has
\* new_rom = 1 and a rom_size; "torn" has the magic but a new_rom byte that is
\* still all ones, what a cut write or a cut erasure of the sector can leave.
Params == {"blank", "idle", "new", "torn"}

\* Fault: new_rom is tested the wrong way round.
AnnouncesInverted(p) == p = "idle"

Announces(p) == p = "new" \/ (p = "torn" /\ TornAnnounces)

\* The header test.  A garbled first unit passes or not.
MayBeAnything(u) == TRUE     \* Fault: no header test.
MayBeRom(u)    == u \in RomUnits \union {Garbage}
MayNotBeRom(u) == u \notin RomUnits

\* Images, as history: size units of data.
Images == [size : 1 .. NUnits, data : [Unit -> Content]]
NoImage == [size |-> 0, data |-> [k \in Unit |-> Erased]]
Holds(mem, image) == \A k \in Unit : k < image.size => mem[k] = image.data[k]

AppPcs   == {"app", "chunk", "program", "announce_erase", "announce_write"}
CopyPcs  == {"copy_erase", "copy_write", "clear_erase"}
BootPcs  == {"boot", "create_erase", "create_write", "clear_write", "load_main"}
               \union CopyPcs
DownPcs  == {"off", "stuck"}

Addresses == {"none", "low", "APP_NEW"}   \* 0, below 0x082000, 0x082000
Fresh == [state |-> "START", address |-> "none", file_size |-> 0,
          byte_written |-> 0]
Nothing == [k \in Unit |-> Erased]

\* A header's address and size.  The page always sends 0x082000 and the size of
\* whatever file was chosen.
Headers == ({"APP_NEW"} \X (0 .. NUnits + 1)) \union {<<"low", 1>>}

ResetRam == /\ upload_state' = Fresh
            /\ received' = Nothing
            /\ upto' = 0
            /\ told' = "nothing"
            /\ armed' = FALSE

Fault == faults < MaxFaults /\ faults' = faults + 1
NoFault == UNCHANGED faults

-------------------------------------------------------------------------------
(* The flash operation each step performs: the full effect, and what is left   *)
(* of it when it is cut.                                                       *)

\* Fault: only the first sector of an upload is erased.
NeedsEraseOnce == upload_state.byte_written = 0

NeedsErase == upload_state.byte_written \in SectorStarts

WriteRange ==
    {k \in SectorRest(upload_state.byte_written) : k < upto}

\* Fault: the erase covers the piece instead of the sector.
PieceErased == EraseUnits(newp, WriteRange)

NewErased     == EraseUnits(newp, SectorRest(upload_state.byte_written))
NewProgrammed == ProgramUnits(newp, WriteRange, received)

\* Fault: the copy loop does not erase.
MainNotErased == main

MainErased == EraseUnits(main, SectorRest(offset))
MainCopied == ProgramUnits(main, SectorRest(offset), newp)

\* Fault: the copy loop ends one unit early.
CopyDoneEarly(next) == next + 1 >= NUnits

CopyDone(next) == next >= NUnits

ErasesNew    == pc = "chunk" /\ upload_state.byte_written < upto /\ NeedsErase
ProgramsNew  == pc = "program"
ErasesParam  == pc \in {"announce_erase", "create_erase", "clear_erase"}
WritesParam  == pc \in {"announce_write", "create_write", "clear_write"}

ParamWritten == IF pc = "announce_write" THEN "new" ELSE "idle"

CutNew == IF ErasesNew
            THEN Cut(newp, NewErased, SectorRest(upload_state.byte_written))
          ELSE IF ProgramsNew THEN Cut(newp, NewProgrammed, WriteRange)
          ELSE {newp}

CutMain == IF pc = "copy_erase" THEN Cut(main, MainErased, SectorRest(offset))
           ELSE IF pc = "copy_write" THEN Cut(main, MainCopied, SectorRest(offset))
           ELSE {main}

CutParam == IF ErasesParam /\ param # "blank" THEN {param, "torn", "blank"}
            ELSE IF WritesParam THEN {param, "torn", ParamWritten}
            ELSE {param}

-------------------------------------------------------------------------------
(* The application.                                                            *)

\* A browser opens /fw_stream: update_fw_init_callback.
Handshake ==
    /\ pc = "app"
    /\ upload_state' = Fresh
    /\ received' = Nothing
    /\ upto' = 0
    /\ told' = "nothing"
    /\ UNCHANGED <<pc, armed, offset, flash, faults, ghost>>

\* update_fw_callback in state START, with a nine-byte content that begins with
\* 0x7E.  Any other content changes nothing in this state.
Header ==
    /\ pc = "app"
    /\ upload_state.state = "START"
    /\ \E h \in Headers :
        IF h[1] = "low" \/ h[2] = 0 \/ h[2] > NUnits
        THEN /\ upload_state' = [upload_state EXCEPT !.address = h[1],
                                                     !.file_size = h[2]]
             /\ UNCHANGED <<received, upto, told>>
        ELSE /\ upload_state' = [state |-> "WRITE", address |-> h[1],
                                 file_size |-> h[2], byte_written |-> 0]
             /\ received' = Nothing
             /\ upto' = 0
             /\ told' = "START_UPLOAD"
    /\ UNCHANGED <<pc, armed, offset, flash, faults, ghost>>

\* update_fw_callback in state WRITE: a TCP piece of a frame arrives.  Pieces
\* do not run past the partition (the page sends no more than its file).  A
\* piece that is going to be written while the boot parameter is not idle
\* taints the behaviour: the bootloader may read APP_NEW at any restart.
DataPiece ==
    /\ pc = "app"
    /\ upload_state.state = "WRITE"
    /\ \E n \in 1 .. MaxPiece : \E content \in [1 .. n -> Data] :
        LET from == upload_state.byte_written IN
        /\ from + n <= NUnits
        /\ upto' = from + n
        /\ received' = [k \in Unit |-> IF from <= k /\ k < from + n
                                       THEN content[k - from + 1]
                                       ELSE received[k]]
    /\ tainted' = (tainted \/ param # "idle")
    /\ pc' = "chunk"
    /\ UNCHANGED <<upload_state, told, armed, offset, flash, faults,
                   staged, installed>>

\* The upload handler ignores the results of its erase and its write.
SilentFailure == /\ Fault
                 /\ newp' \in CutNew
                 /\ tainted' = TRUE

EraseNew ==
    /\ ErasesNew
    /\ \/ NoFault /\ newp' = NewErased /\ UNCHANGED tainted
       \/ SilentFailure
    /\ pc' = "program"
    /\ UNCHANGED <<ram, offset, param, main, staged, installed>>

\* The loop goes on in the middle of a sector, without an erase.
SkipErase ==
    /\ pc = "chunk"
    /\ upload_state.byte_written < upto
    /\ ~NeedsErase
    /\ pc' = "program"
    /\ UNCHANGED <<ram, offset, flash, faults, ghost>>

\* spi_write_align_byte of the rest of the sector, or of the content if shorter.
ProgramNew ==
    /\ ProgramsNew
    /\ \/ NoFault /\ newp' = NewProgrammed /\ UNCHANGED tainted
       \/ SilentFailure
    /\ \E next \in 1 .. upto :
        /\ next - 1 \in WriteRange
        /\ next = upto \/ next \in SectorStarts
        /\ upload_state' = [upload_state EXCEPT !.byte_written = next]
    /\ pc' = "chunk"
    /\ UNCHANGED <<received, upto, told, armed, offset, param, main,
                   staged, installed>>

\* The loop is over: the progress message and, with the file complete, the stop
\* message and the start of the announcement.
EndPiece ==
    /\ pc = "chunk"
    /\ upload_state.byte_written = upto
    /\ IF upload_state.byte_written >= upload_state.file_size
       THEN /\ told' = "STOP_UPLOAD"
            /\ upload_state' = Fresh
            /\ received' = Nothing
            /\ upto' = 0
            /\ staged' = [size |-> upto, data |-> received]
            /\ pc' = "announce_erase"
       ELSE /\ told' = "proc"
            /\ pc' = "app"
            /\ UNCHANGED <<upload_state, received, upto, staged>>
    /\ UNCHANGED <<armed, offset, flash, faults, installed, tainted>>

AnnounceErase ==
    /\ pc = "announce_erase"
    /\ \/ NoFault /\ param' = "blank" /\ pc' = "announce_write"
       \/ Fault /\ param' \in CutParam /\ pc' = "app"
    /\ UNCHANGED <<ram, offset, main, newp, ghost>>

AnnounceWrite ==
    /\ pc = "announce_write"
    /\ \/ NoFault /\ param' = ParamWritten /\ armed' = TRUE
       \/ Fault /\ param' \in CutParam /\ UNCHANGED armed
    /\ pc' = "app"
    /\ UNCHANGED <<upload_state, received, upto, told, offset, main, newp, ghost>>

\* timer_restart_after_update_callback: system_restart.
Restart ==
    /\ pc = "app"
    /\ armed
    /\ pc' = "boot"
    /\ ResetRam
    /\ UNCHANGED <<offset, flash, faults, ghost>>

-------------------------------------------------------------------------------
(* The bootloader, check_new_rom.  An error makes it return 0: no application  *)
(* is started.                                                                 *)

BootError == Fault /\ pc' = "stuck"

\* The boot header, the boot parameter, and the header of the new ROM.
ReadParam ==
    /\ pc = "boot"
    /\ \/ NoFault /\ param = "blank" /\ pc' = "create_erase" /\ UNCHANGED offset
       \/ NoFault /\ Announces(param) /\ MayBeRom(newp[0])
          /\ pc' = "copy_erase" /\ offset' = 0
       \/ /\ NoFault
          /\ \/ param # "blank" /\ ~Announces(param)
             \/ Announces(param) /\ MayNotBeRom(newp[0])
          /\ pc' = "load_main" /\ UNCHANGED offset
       \/ BootError /\ UNCHANGED offset
    /\ UNCHANGED <<ram, flash, ghost>>

CreateErase ==
    /\ pc = "create_erase"
    /\ \/ NoFault /\ param' = "blank" /\ pc' = "create_write"
       \/ BootError /\ param' \in CutParam
    /\ UNCHANGED <<ram, offset, main, newp, ghost>>

CreateWrite ==
    /\ pc = "create_write"
    /\ \/ NoFault /\ param' = ParamWritten /\ pc' = "load_main"
       \/ BootError /\ param' \in CutParam
    /\ UNCHANGED <<ram, offset, main, newp, ghost>>

\* One turn of the copy loop: read a sector of APP_NEW, erase one of APP_MAIN...
CopyErase ==
    /\ pc = "copy_erase"
    /\ \/ NoFault /\ main' = MainErased /\ pc' = "copy_write"
       \/ BootError /\ main' \in CutMain
    /\ UNCHANGED <<ram, offset, param, newp, ghost>>

\* ... and write it.  After the last sector APP_MAIN holds the staged image.
CopyWrite ==
    /\ pc = "copy_write"
    /\ \/ /\ NoFault
          /\ main' = MainCopied
          /\ \E next \in 1 .. NUnits :
              /\ next - 1 \in SectorRest(offset)
              /\ next \notin SectorRest(offset)
              /\ offset' = next
              /\ IF CopyDone(next)
                 THEN pc' = "clear_erase" /\ installed' = staged
                 ELSE pc' = "copy_erase" /\ UNCHANGED installed
       \/ BootError /\ main' \in CutMain /\ UNCHANGED <<offset, installed>>
    /\ UNCHANGED <<ram, param, newp, staged, tainted>>

\* The parameter is read back, and its sector erased...
ClearErase ==
    /\ pc = "clear_erase"
    /\ \/ NoFault /\ param' = "blank" /\ pc' = "clear_write"
       \/ BootError /\ param' \in CutParam
    /\ UNCHANGED <<ram, offset, main, newp, ghost>>

\* ... and written with new_rom = 0.
ClearWrite ==
    /\ pc = "clear_write"
    /\ \/ NoFault /\ param' = ParamWritten /\ pc' = "load_main"
       \/ BootError /\ param' \in CutParam
    /\ UNCHANGED <<ram, offset, main, newp, ghost>>

\* The header of the main ROM decides between the application and while(1).
LoadMain ==
    /\ pc = "load_main"
    /\ \/ NoFault /\ MayBeRom(main[0]) /\ pc' = "app"
       \/ NoFault /\ MayNotBeRom(main[0]) /\ pc' = "stuck"
       \/ BootError
    /\ offset' = 0
    /\ UNCHANGED <<ram, flash, ghost>>

-------------------------------------------------------------------------------
(* The power supply.                                                           *)

PowerLoss ==
    /\ pc # "off"
    /\ Fault
    /\ param' \in CutParam
    /\ main' \in CutMain
    /\ newp' \in CutNew
    /\ pc' = "off"
    /\ offset' = 0
    /\ ResetRam
    /\ UNCHANGED ghost

\* Someone switches the device on, or off and on when no application started.
PowerOn ==
    /\ pc \in DownPcs
    /\ pc' = "boot"
    /\ UNCHANGED <<ram, offset, flash, faults, ghost>>

-------------------------------------------------------------------------------
\* As delivered: a ROM in APP_MAIN, nothing else on the flash.
Init ==
    /\ pc = "off"
    /\ upload_state = Fresh
    /\ received = Nothing
    /\ upto = 0
    /\ told = "nothing"
    /\ armed = FALSE
    /\ offset = 0
    /\ param = "blank"
    /\ main \in [Unit -> Data]
    /\ main[0] \in RomUnits
    /\ newp = Nothing
    /\ faults = 0
    /\ staged = NoImage
    /\ installed = [size |-> NUnits, data |-> main]
    /\ tainted = FALSE

Upload == Handshake \/ Header \/ DataPiece
Handler == EraseNew \/ SkipErase \/ ProgramNew \/ EndPiece
             \/ AnnounceErase \/ AnnounceWrite
Boot == ReadParam \/ CreateErase \/ CreateWrite \/ CopyErase \/ CopyWrite
          \/ ClearErase \/ ClearWrite \/ LoadMain

Next == Upload \/ Handler \/ Restart \/ Boot \/ PowerLoss \/ PowerOn

Spec == Init /\ [][Next]_vars

\* The processor does not stop, the armed timer fires, a device that is down is
\* switched on again.  Nothing is asked of the page or of the faults.
Fairness == /\ WF_vars(Handler)
            /\ WF_vars(Boot)
            /\ WF_vars(Restart)
            /\ WF_vars(PowerOn)

LiveSpec == Spec /\ Fairness

\* The behaviours without a taint.
CleanSpec == Init /\ [][Next /\ ~tainted']_vars
-------------------------------------------------------------------------------
(* Properties.                                                                 *)

UploadStates ==
    [state : {"START", "WRITE"}, address : Addresses,
     file_size : 0 .. NUnits + 1, byte_written : 0 .. NUnits]

\* The type invariant, with the bounds of every counter.
TypeOK ==
    /\ pc \in AppPcs \union BootPcs \union DownPcs
    /\ upload_state \in UploadStates
    /\ received \in [Unit -> Content]
    /\ upto \in 0 .. NUnits
    /\ told \in {"nothing", "START_UPLOAD", "proc", "STOP_UPLOAD"}
    /\ armed \in BOOLEAN
    /\ offset \in 0 .. NUnits
    /\ param \in Params
    /\ main \in [Unit -> Content]
    /\ newp \in [Unit -> Content]
    /\ faults \in 0 .. MaxFaults
    /\ staged \in Images \union {NoImage}
    /\ installed \in Images \union {NoImage}
    /\ tainted \in BOOLEAN

\* The upload handler erases each sector before its first unit and never after:
\* what it wrote is what it received, wherever TCP cut the frames.
StreamStored ==
    ~tainted /\ upload_state.state = "WRITE" =>
        \A k \in Unit : k < upload_state.byte_written => newp[k] = received[k]

\* Whenever the application runs, APP_MAIN holds the whole image that was
\* installed last, whatever the power supply and the flash did before; the
\* only exceptions are the tainted behaviours.
RunsWholeImage ==
    ~tainted /\ pc \in AppPcs => Holds(main, installed)

\* At every instant, running or not, the flash can bring up a whole image:
\* APP_MAIN holds one, or the bootloader is going to copy one that APP_NEW holds.
Recoverable ==
    ~tainted => \/ Holds(main, installed)
                \/ /\ Announces(param)
                   /\ staged # NoImage
                   /\ newp[0] \in RomUnits
                   /\ Holds(newp, staged)

\* A parameter that announces a new ROM is about the last completed upload, as
\* it was received (a factory-fresh APP_NEW, which has no magic, aside).
AnnouncedIsComplete ==
    ~tainted /\ Announces(param) =>
        \/ staged # NoImage /\ Holds(newp, staged)
        \/ newp[0] = Erased

\* What an untainted behaviour lets the abstract specification see: the content
\* of APP_MAIN when the application runs, and of APP_NEW when it is announced.
SeenIn(mem, image) == IF Holds(mem, image) THEN image ELSE [image EXCEPT !.size = 0]

Store == INSTANCE FirmwareStore WITH
    Image     <- Images,
    NoImage   <- NoImage,
    installed <- installed,
    completed <- staged,
    staged    <- IF Announces(param) THEN SeenIn(newp, staged) ELSE NoImage,
    running   <- IF pc \in AppPcs THEN SeenIn(main, installed) ELSE NoImage

\* CleanSpec => StoreSpec: firmware update implements FirmwareStore.
StoreSpec == Store!Spec

\* Once the restart is armed, an image that begins with a ROM magic ends up in
\* APP_MAIN and its announcement is withdrawn, through every power loss and
\* flash error there is room for.
AnnouncedGetsInstalled ==
    armed /\ newp[0] \in RomUnits /\ ~tainted
        ~> tainted \/ (param = "idle" /\ installed = staged /\ pc = "app")
-------------------------------------------------------------------------------
(* The inductive invariant behind the safety properties.                       *)

\* Where the counters and the upload state are at each step of the handlers.
Control ==
    /\ upload_state.state = "WRITE" =>
        /\ upload_state.file_size \in 1 .. NUnits
        /\ upload_state.byte_written <= upto
        /\ \A k \in Unit : k < upto => received[k] \in Data
    /\ pc \in {"chunk", "program"} => upload_state.state = "WRITE"
    /\ pc = "program" => upload_state.byte_written < upto
    /\ pc \notin {"app", "chunk", "program"} => upload_state.state = "START"
    /\ staged # NoImage =>
        \A k \in Unit : k < staged.size => staged.data[k] \in Data

\* The rest of the sector being written is still erased.
RestErased ==
    \/ pc = "program"
    \/ upload_state.state = "WRITE" /\ upload_state.byte_written \notin SectorStarts
    => \A k \in SectorRest(upload_state.byte_written) : newp[k] = Erased

\* APP_NEW is written only while the parameter announces nothing.
QuietUpload ==
    \/ pc \in {"chunk", "program", "announce_erase"}
    \/ upload_state.state = "WRITE" /\ upload_state.byte_written > 0
    => param = "idle"

StagedWhole == staged # NoImage /\ Holds(newp, staged)

\* A parameter sector that is not idle, whatever it became, stands for APP_NEW
\* as it was staged.
ParamStandsForStaged ==
    /\ pc \in {"announce_erase", "announce_write"} => StagedWhole
    /\ param # "idle" => StagedWhole \/ newp[0] = Erased
    /\ pc \in {"create_erase", "create_write", "clear_erase", "clear_write"}
        => param # "idle"

ReadyToCopy == Announces(param) /\ newp[0] \in RomUnits /\ StagedWhole

\* Half-copied contents of APP_MAIN exist only with the means to copy again.
MainOrCopy ==
    \/ Holds(main, installed)
    \/ pc \in {"off", "stuck", "boot", "copy_erase", "copy_write"} /\ ReadyToCopy

Copying ==
    /\ pc \in {"copy_erase", "copy_write"} =>
        /\ ReadyToCopy
        /\ \A k \in Unit : k < offset => main[k] = newp[k]
    /\ pc = "copy_write" => \A k \in SectorRest(offset) : main[k] = Erased

\* The inductive invariant: unless tainted, all of the above.
IInv ==
    /\ TypeOK
    /\ Control
    /\ ~tainted => /\ StreamStored
                   /\ RestErased
                   /\ QuietUpload
                   /\ ParamStandsForStaged
                   /\ MainOrCopy
                   /\ Copying
===============================================================================
