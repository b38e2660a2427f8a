---------------------------- MODULE FwUpdateProofs ----------------------------
(* Proofs about FwUpdate, for every partition size, sector layout and set of   *)
(* unit contents, and about what it implements.                                *)
EXTENDS FwUpdate, TLAPS

-------------------------------------------------------------------------------
(* The flash operators.                                                        *)

\* Erasing, programming and cutting keep a partition a partition.
LEMMA EraseType ==
    ASSUME NEW mem \in [Unit -> Content], NEW R
    PROVE  EraseUnits(mem, R) \in [Unit -> Content]
BY DEF EraseUnits, Content

LEMMA ProgramType ==
    ASSUME NEW mem \in [Unit -> Content], NEW src \in [Unit -> Content], NEW R
    PROVE  ProgramUnits(mem, R, src) \in [Unit -> Content]
BY DEF ProgramUnits, Burn, Content

LEMMA CutType ==
    ASSUME NEW before \in [Unit -> Content], NEW after \in [Unit -> Content],
           NEW R, NEW mem \in Cut(before, after, R)
    PROVE  mem \in [Unit -> Content]
<1>1. PICK whole \in SUBSET R, torn \in SUBSET R :
        mem = [k \in Unit |-> IF k \in whole THEN after[k]
                              ELSE IF k \in torn THEN Garbage ELSE before[k]]
  BY DEF Cut
<1> QED BY <1>1 DEF Content

\* A cut operation leaves the units outside its range alone.
LEMMA CutOutside ==
    ASSUME NEW before, NEW after, NEW R, NEW mem \in Cut(before, after, R),
           NEW k \in Unit \ R
    PROVE  mem[k] = before[k]
<1>1. PICK whole \in SUBSET R, torn \in SUBSET R :
        mem = [i \in Unit |-> IF i \in whole THEN after[i]
                              ELSE IF i \in torn THEN Garbage ELSE before[i]]
  BY DEF Cut
<1> QED BY <1>1

\* What the three partitions can be after a cut keeps their type.
LEMMA CutNewType ==
    ASSUME TypeOK, NEW mem \in CutNew
    PROVE  mem \in [Unit -> Content]
<1>1. newp \in [Unit -> Content] /\ received \in [Unit -> Content]
  BY DEF TypeOK
<1>2. NewErased \in [Unit -> Content]
  BY <1>1, EraseType DEF NewErased
<1>3. NewProgrammed \in [Unit -> Content]
  BY <1>1, ProgramType DEF NewProgrammed
<1> QED BY <1>1, <1>2, <1>3, CutType DEF CutNew

LEMMA CutMainType ==
    ASSUME TypeOK, NEW mem \in CutMain
    PROVE  mem \in [Unit -> Content]
<1>1. main \in [Unit -> Content] /\ newp \in [Unit -> Content]
  BY DEF TypeOK
<1>2. MainErased \in [Unit -> Content]
  BY <1>1, EraseType DEF MainErased
<1>3. MainCopied \in [Unit -> Content]
  BY <1>1, ProgramType DEF MainCopied
<1> QED BY <1>1, <1>2, <1>3, CutType DEF CutMain

LEMMA CutParamType ==
    ASSUME TypeOK, NEW p \in CutParam
    PROVE  p \in Params
BY DEF TypeOK, CutParam, ParamWritten, Params

-------------------------------------------------------------------------------
(* Type correctness.                                                           *)

Pcs == AppPcs \union BootPcs \union DownPcs

\* Resetting the RAM.
LEMMA ResetRamType ==
    ASSUME ResetRam
    PROVE  /\ upload_state' \in UploadStates
           /\ received' \in [Unit -> Content]
           /\ upto' \in 0 .. NUnits
           /\ told' \in {"nothing", "START_UPLOAD", "proc", "STOP_UPLOAD"}
           /\ armed' \in BOOLEAN
<1>1. upload_state' \in UploadStates
  BY FlashAssumption DEF ResetRam, Fresh, UploadStates, Addresses, NUnits
<1>2. received' \in [Unit -> Content]
  BY DEF ResetRam, Nothing, Content
<1>3. upto' \in 0 .. NUnits
  BY FlashAssumption DEF ResetRam, NUnits
<1> QED BY <1>1, <1>2, <1>3 DEF ResetRam

\* The fault counter and the truth values.
LEMMA FaultType ==
    ASSUME TypeOK, Fault \/ NoFault
    PROVE  faults' \in 0 .. MaxFaults
BY UpdateAssumption DEF TypeOK, Fault, NoFault

LEMMA BooleanStep ==
    ASSUME NEW a \in BOOLEAN, NEW b, b = a \/ b = TRUE
    PROVE  b \in BOOLEAN
BY Zenon

LEMMA InitTyped == Init => TypeOK /\ Control
<1> SUFFICES ASSUME Init PROVE TypeOK /\ Control
  OBVIOUS
<1>1. main \in [Unit -> Content] /\ newp \in [Unit -> Content]
      /\ received \in [Unit -> Content]
  BY DEF Init, Nothing, Content
<1>2. upload_state \in UploadStates
  BY FlashAssumption DEF Init, Fresh, UploadStates, Addresses, NUnits
<1>3. installed \in Images
  BY <1>1, FlashAssumption DEF Init, Images, NUnits
<1>4. TypeOK
  <2>1. upto \in 0 .. NUnits /\ offset \in 0 .. NUnits /\ faults \in 0 .. MaxFaults
    BY FlashAssumption, UpdateAssumption DEF Init, NUnits
  <2>2. pc \in AppPcs \union BootPcs \union DownPcs /\ param \in Params
    BY DEF Init, DownPcs, Params
  <2> QED BY <1>1, <1>2, <1>3, <2>1, <2>2 DEF Init, TypeOK
<1>5. Control
  BY DEF Init, Control, Fresh
<1> QED BY <1>4, <1>5

\* Every step keeps the types and the control invariant.
LEMMA NextTyped == TypeOK /\ Control /\ [Next]_vars => TypeOK' /\ Control'
<1> SUFFICES ASSUME TypeOK, Control, [Next]_vars
             PROVE  TypeOK' /\ Control'
  OBVIOUS
<1> USE FlashAssumption, UpdateAssumption DEF ram, flash, ghost
<1>0. Unit = 0 .. LastUnit /\ NUnits = LastUnit + 1 /\ LastUnit \in Nat
  BY DEF Unit, NUnits
<1>1. CASE Handshake
  <2>1. TypeOK'
    BY <1>0, <1>1 DEF Handshake, TypeOK, Fresh, Nothing, UploadStates, Addresses, Content
  <2>2. Control'
    BY <1>1 DEF Handshake, Control, Fresh
  <2> QED BY <2>1, <2>2
<1>2. CASE Header
  <2>1. PICK h \in Headers :
        IF h[1] = "low" \/ h[2] = 0 \/ h[2] > NUnits
        THEN /\ upload_state' = [upload_state EXCEPT !.address = h[1],
                                                     !.file_size = h[2]]
             /\ UNCHANGED <<received, upto, told>>
        ELSE /\ upload_state' = [state |-> "WRITE", address |-> h[1],
                                 file_size |-> h[2], byte_written |-> 0]
             /\ received' = Nothing
             /\ upto' = 0
             /\ told' = "START_UPLOAD"
    BY <1>2 DEF Header
  <2>2. h[1] \in Addresses /\ h[2] \in 0 .. NUnits + 1
    BY <1>0 DEF Headers, Addresses
  <2>3. Nothing \in [Unit -> Content]
    BY DEF Nothing, Content
  <2>4. upload_state.state = "START" /\ pc = "app"
    BY <1>2 DEF Header
  <2>5. CASE h[1] = "low" \/ h[2] = 0 \/ h[2] > NUnits
    <3>1. upload_state' \in UploadStates /\ upload_state'.state = "START"
      BY <2>1, <2>2, <2>4, <2>5 DEF TypeOK, UploadStates
    <3> QED BY <1>2, <2>1, <2>5, <3>1 DEF Header, TypeOK, Control
  <2>6. CASE ~(h[1] = "low" \/ h[2] = 0 \/ h[2] > NUnits)
    <3>1. /\ upload_state' \in UploadStates
          /\ upload_state'.state = "WRITE"
          /\ upload_state'.byte_written = 0
          /\ upload_state'.file_size \in 1 .. NUnits
      BY <1>0, <2>1, <2>2, <2>6 DEF UploadStates
    <3>2. upto' = 0 /\ upto' \in 0 .. NUnits
      BY <1>0, <2>1, <2>6
    <3>3. TypeOK'
      BY <1>2, <2>1, <2>3, <2>6, <3>1, <3>2 DEF Header, TypeOK
    <3>4. Control'
      BY <1>0, <1>2, <2>4, <3>1, <3>2 DEF Header, Control
    <3> QED BY <3>3, <3>4
  <2> QED BY <2>5, <2>6
<1>3. CASE DataPiece
  <2>a. PICK n \in 1 .. MaxPiece : \E content \in [1 .. n -> Data] :
        /\ upload_state.byte_written + n <= NUnits
        /\ upto' = upload_state.byte_written + n
        /\ received' = [k \in Unit |->
                            IF /\ upload_state.byte_written <= k
                               /\ k < upload_state.byte_written + n
                            THEN content[k - upload_state.byte_written + 1]
                            ELSE received[k]]
    BY <1>3 DEF DataPiece
  <2>1. PICK content \in [1 .. n -> Data] :
        /\ upload_state.byte_written + n <= NUnits
        /\ upto' = upload_state.byte_written + n
        /\ received' = [k \in Unit |->
                            IF /\ upload_state.byte_written <= k
                               /\ k < upload_state.byte_written + n
                            THEN content[k - upload_state.byte_written + 1]
                            ELSE received[k]]
    BY <2>a
  <2>2. upload_state.byte_written \in 0 .. NUnits
    BY DEF TypeOK, UploadStates
  <2>3. upload_state.state = "WRITE" /\ upload_state' = upload_state /\ pc' = "chunk"
    BY <1>3 DEF DataPiece
  <2>4. upto' \in 0 .. NUnits /\ upload_state.byte_written <= upto'
    BY <1>0, <2>1, <2>2
  <2>5. \A k \in Unit : upload_state.byte_written <= k /\ k < upto'
                        => received'[k] \in Data
    BY <1>0, <2>1, <2>2
  <2>6. \A k \in Unit : k < upload_state.byte_written => received'[k] = received[k]
    BY <1>0, <2>1, <2>2
  <2>7. received' \in [Unit -> Content]
    <3>1. \A k \in Unit : received'[k] \in Content
      BY <1>0, <2>1, <2>2 DEF TypeOK, Content
    <3> QED BY <2>1, <3>1
  <2>8. TypeOK'
    BY <1>3, <2>4, <2>7 DEF DataPiece, TypeOK, AppPcs
  <2>9. \A k \in Unit : k < upto' => received'[k] \in Data
    <3> SUFFICES ASSUME NEW k \in Unit, k < upto' PROVE received'[k] \in Data
      OBVIOUS
    <3>1. CASE k < upload_state.byte_written
      <4>1. upload_state.byte_written <= upto /\ upto \in 0 .. NUnits
        BY <2>3 DEF Control, TypeOK
      <4>2. k < upto
        BY <1>0, <2>2, <3>1, <4>1
      <4> QED BY <2>3, <2>6, <3>1, <4>2 DEF Control
    <3>2. CASE upload_state.byte_written <= k
      BY <2>5, <3>2
    <3> QED BY <1>0, <2>2, <3>1, <3>2
  <2>10. Control'
    BY <1>3, <2>3, <2>4, <2>9 DEF DataPiece, Control
  <2> QED BY <2>8, <2>10
<1>4. CASE EraseNew
  <2>1. newp' \in [Unit -> Content]
    <3>1. NewErased \in [Unit -> Content]
      BY EraseType DEF NewErased, TypeOK
    <3> QED BY <1>4, <3>1, CutNewType DEF EraseNew, SilentFailure
  <2>2. faults' \in 0 .. MaxFaults /\ tainted' \in BOOLEAN
    <3>1. Fault \/ NoFault
      BY <1>4 DEF EraseNew, SilentFailure
    <3>2. tainted' = tainted \/ tainted' = TRUE
      BY <1>4, Zenon DEF EraseNew, SilentFailure
    <3>3. tainted \in BOOLEAN
      BY DEF TypeOK
    <3> QED BY <3>1, <3>2, <3>3, FaultType, BooleanStep
  <2>3. TypeOK'
    BY <1>4, <2>1, <2>2 DEF EraseNew, TypeOK, AppPcs
  <2>4. Control'
    BY <1>4 DEF EraseNew, ErasesNew, Control
  <2> QED BY <2>3, <2>4
<1>5. CASE SkipErase
  <2>1. TypeOK'
    BY <1>5 DEF SkipErase, TypeOK, AppPcs
  <2>2. Control'
    BY <1>5 DEF SkipErase, Control
  <2> QED BY <2>1, <2>2
<1>6. CASE ProgramNew
  <2>1. newp' \in [Unit -> Content]
    <3>1. NewProgrammed \in [Unit -> Content]
      BY ProgramType DEF NewProgrammed, TypeOK
    <3> QED BY <1>6, <3>1, CutNewType DEF ProgramNew, SilentFailure
  <2>2. faults' \in 0 .. MaxFaults /\ tainted' \in BOOLEAN
    <3>1. Fault \/ NoFault
      BY <1>6 DEF ProgramNew, SilentFailure
    <3>2. tainted' = tainted \/ tainted' = TRUE
      BY <1>6, Zenon DEF ProgramNew, SilentFailure
    <3>3. tainted \in BOOLEAN
      BY DEF TypeOK
    <3> QED BY <3>1, <3>2, <3>3, FaultType, BooleanStep
  <2>3. PICK next \in 1 .. upto :
          /\ next - 1 \in WriteRange
          /\ next = upto \/ next \in SectorStarts
          /\ upload_state' = [upload_state EXCEPT !.byte_written = next]
    BY <1>6, Zenon DEF ProgramNew
  <2>4. next \in 0 .. NUnits
    BY <1>0 DEF TypeOK
  <2>6. upload_state' \in UploadStates /\ upload_state'.byte_written <= upto
        /\ upload_state'.state = upload_state.state
        /\ upload_state'.file_size = upload_state.file_size
    <3>1. upload_state \in UploadStates /\ upto \in 0 .. NUnits
      BY DEF TypeOK
    <3>2. next <= upto
      BY <3>1
    <3>3. /\ upload_state' \in UploadStates
          /\ upload_state'.byte_written = next
          /\ upload_state'.state = upload_state.state
          /\ upload_state'.file_size = upload_state.file_size
      BY <2>3, <2>4, <3>1 DEF UploadStates
    <3> QED BY <3>2, <3>3
  <2>7. TypeOK'
    BY <1>6, <2>1, <2>2, <2>6 DEF ProgramNew, TypeOK, AppPcs
  <2>8. Control'
    BY <1>6, <2>6 DEF ProgramNew, ProgramsNew, Control
  <2> QED BY <2>7, <2>8
<1>7. CASE EndPiece
  <2>1. upload_state.state = "WRITE" /\ upload_state.byte_written = upto
    BY <1>7 DEF EndPiece, Control
  <2>2. CASE upload_state.byte_written >= upload_state.file_size
    <3>1. /\ told' = "STOP_UPLOAD"
          /\ upload_state' = Fresh
          /\ received' = Nothing
          /\ upto' = 0
          /\ staged' = [size |-> upto, data |-> received]
          /\ pc' = "announce_erase"
      BY <1>7, <2>2 DEF EndPiece
    <3>2. upto \in 1 .. NUnits
      BY <1>0, <2>1, <2>2 DEF Control, TypeOK
    <3>3. staged' \in Images
      BY <3>1, <3>2 DEF Images, TypeOK
    <3>4. upload_state' \in UploadStates /\ upto' \in 0 .. NUnits
          /\ received' \in [Unit -> Content]
      BY <1>0, <3>1 DEF Fresh, UploadStates, Addresses, Nothing, Content
    <3>5. TypeOK'
      BY <1>7, <3>1, <3>3, <3>4 DEF EndPiece, TypeOK, AppPcs
    <3>6. \A k \in Unit : k < staged'.size => staged'.data[k] \in Data
      BY <2>1, <3>1 DEF Control
    <3>7. Control'
      BY <3>1, <3>6 DEF Control, Fresh
    <3> QED BY <3>5, <3>7
  <2>3. CASE ~(upload_state.byte_written >= upload_state.file_size)
    <3>1. /\ told' = "proc"
          /\ pc' = "app"
          /\ UNCHANGED <<upload_state, received, upto, staged>>
      BY <1>7, <2>3 DEF EndPiece
    <3>2. TypeOK'
      BY <1>7, <3>1 DEF EndPiece, TypeOK, AppPcs
    <3>3. Control'
      BY <3>1 DEF Control
    <3> QED BY <3>2, <3>3
  <2> QED BY <2>2, <2>3
<1>8. CASE AnnounceErase \/ AnnounceWrite
  <2>1. param' \in Params
    BY <1>8, CutParamType
       DEF AnnounceErase, AnnounceWrite, ParamWritten, Params
  <2>2. faults' \in 0 .. MaxFaults /\ armed' \in BOOLEAN
        /\ pc' \in {"announce_write", "app"}
    <3>1. Fault \/ NoFault
      BY <1>8 DEF AnnounceErase, AnnounceWrite
    <3>2. armed' = armed \/ armed' = TRUE
      BY <1>8, Zenon DEF AnnounceErase, AnnounceWrite, ram
    <3>3. armed \in BOOLEAN
      BY DEF TypeOK
    <3>4. pc' \in {"announce_write", "app"}
      BY <1>8 DEF AnnounceErase, AnnounceWrite
    <3> QED BY <3>1, <3>2, <3>3, <3>4, FaultType, BooleanStep
  <2>3. TypeOK'
    BY <1>8, <2>1, <2>2 DEF AnnounceErase, AnnounceWrite, TypeOK, AppPcs
  <2>4. Control'
    BY <1>8, <2>2 DEF AnnounceErase, AnnounceWrite, Control
  <2> QED BY <2>3, <2>4
<1>9. CASE Restart
  <2>1. TypeOK'
    BY <1>9, ResetRamType DEF Restart, TypeOK, BootPcs
  <2>2. Control'
    BY <1>9 DEF Restart, ResetRam, Fresh, Control
  <2> QED BY <2>1, <2>2
<1>10. CASE Boot
  <2>1. faults' \in 0 .. MaxFaults
    BY <1>10 DEF Boot, ReadParam, CreateErase, CreateWrite, CopyErase, CopyWrite,
                 ClearErase, ClearWrite, LoadMain, BootError, Fault, NoFault, TypeOK
  <2>2. param' \in Params
    BY <1>10, CutParamType
       DEF Boot, ReadParam, CreateErase, CreateWrite, CopyErase, CopyWrite,
           ClearErase, ClearWrite, LoadMain, ParamWritten, Params, TypeOK
  <2>3. main' \in [Unit -> Content]
    <3>1. MainErased \in [Unit -> Content] /\ MainCopied \in [Unit -> Content]
      BY EraseType, ProgramType DEF MainErased, MainCopied, TypeOK
    <3> QED
      BY <1>10, <3>1, CutMainType
         DEF Boot, ReadParam, CreateErase, CreateWrite, CopyErase, CopyWrite,
             ClearErase, ClearWrite, LoadMain, TypeOK
  <2>4. offset' \in 0 .. NUnits
    <3>1. CASE CopyWrite
      BY <1>0, <3>1 DEF CopyWrite, CopyDone, SectorRest, TypeOK
    <3>2. CASE ~CopyWrite
      BY <1>0, <1>10, <3>2
         DEF Boot, ReadParam, CreateErase, CreateWrite, CopyErase,
             ClearErase, ClearWrite, LoadMain, TypeOK
    <3> QED BY <3>1, <3>2
  <2>5. pc \in BootPcs /\ pc' \in BootPcs \union {"app", "stuck"}
    BY <1>10 DEF Boot, ReadParam, CreateErase, CreateWrite, CopyErase, CopyWrite,
                 ClearErase, ClearWrite, LoadMain, BootError, BootPcs, CopyPcs
  <2>6. installed' \in {installed, staged}
        /\ UNCHANGED <<ram, newp, staged, tainted>>
    BY <1>10 DEF Boot, ReadParam, CreateErase, CreateWrite, CopyErase, CopyWrite,
                 ClearErase, ClearWrite, LoadMain
  <2>7. TypeOK'
    BY <2>1, <2>2, <2>3, <2>4, <2>5, <2>6 DEF TypeOK, AppPcs, DownPcs
  <2>8. Control'
    BY <2>5, <2>6 DEF Control, BootPcs, CopyPcs
  <2> QED BY <2>7, <2>8
<1>11. CASE PowerLoss
  <2>1. /\ newp' \in [Unit -> Content]
        /\ main' \in [Unit -> Content]
        /\ param' \in Params
    BY <1>11, CutNewType, CutMainType, CutParamType DEF PowerLoss
  <2>2. faults' \in 0 .. MaxFaults /\ offset' \in 0 .. NUnits
    BY <1>0, <1>11 DEF PowerLoss, Fault, TypeOK
  <2>3. TypeOK'
    BY <1>11, <2>1, <2>2, ResetRamType DEF PowerLoss, TypeOK, DownPcs
  <2>4. Control'
    BY <1>11 DEF PowerLoss, ResetRam, Fresh, Control
  <2> QED BY <2>3, <2>4
<1>12. CASE PowerOn
  <2>1. TypeOK'
    BY <1>12 DEF PowerOn, TypeOK, BootPcs
  <2>2. Control'
    BY <1>12 DEF PowerOn, DownPcs, Control
  <2> QED BY <2>1, <2>2
<1>13. CASE UNCHANGED vars
  <2>1. TypeOK'
    BY <1>13 DEF vars, TypeOK
  <2>2. Control'
    BY <1>13 DEF vars, Control
  <2> QED BY <2>1, <2>2
<1> QED
  BY <1>1, <1>2, <1>3, <1>4, <1>5, <1>6, <1>7, <1>8, <1>9, <1>10, <1>11, <1>12,
     <1>13 DEF Next, Upload, Handler

\* Every variable keeps its type, in every behaviour, tainted or not.
THEOREM TypeCorrect == Spec => []TypeOK
<1>1. Init => TypeOK /\ Control
  BY InitTyped
<1>2. TypeOK /\ Control /\ [Next]_vars => TypeOK' /\ Control'
  BY NextTyped
<1> QED BY <1>1, <1>2, PTL DEF Spec

-------------------------------------------------------------------------------
(* The safety of the update.                                                   *)

Clean == /\ StreamStored
         /\ RestErased
         /\ QuietUpload
         /\ ParamStandsForStaged
         /\ MainOrCopy
         /\ Copying

LEMMA InitClean == Init => Clean
<1> SUFFICES ASSUME Init PROVE Clean
  OBVIOUS
<1>1. newp[0] = Erased
  BY FlashAssumption DEF Init, Nothing, Unit
<1>2. Holds(main, installed)
  BY DEF Init, Holds
<1> QED
  BY <1>1, <1>2 DEF Init, Fresh, Clean, StreamStored, RestErased, QuietUpload,
                    ParamStandsForStaged, MainOrCopy, Copying

\* The taint is never taken back.
LEMMA TaintStays == [Next]_vars /\ ~tainted' => ~tainted
BY DEF Next, Upload, Handler, Boot, vars, ghost, Handshake, Header, DataPiece,
       EraseNew, SilentFailure, SkipErase, ProgramNew, EndPiece, AnnounceErase,
       AnnounceWrite, Restart, ReadParam, CreateErase, CreateWrite, CopyErase,
       CopyWrite, ClearErase, ClearWrite, LoadMain, PowerLoss, PowerOn

\* The upload handler keeps everything it shares with the bootloader.
LEMMA HandshakeClean ==
    ASSUME TypeOK, Control, Clean, ~tainted, Handshake
    PROVE  Clean'
<1> USE DEF Handshake, flash, ghost, Fresh
<1>1. StreamStored' /\ RestErased' /\ QuietUpload' /\ Copying'
  BY DEF StreamStored, RestErased, QuietUpload, Copying
<1>2. ParamStandsForStaged' /\ MainOrCopy'
  BY DEF Clean, ParamStandsForStaged, MainOrCopy, StagedWhole, Holds
<1> QED BY <1>1, <1>2 DEF Clean

LEMMA HeaderClean ==
    ASSUME TypeOK, Control, Clean, ~tainted, Header
    PROVE  Clean'
<1> USE DEF flash, ghost
<1>1. \/ upload_state'.state = "START"
      \/ upload_state'.state = "WRITE" /\ upload_state'.byte_written = 0
  <2>1. upload_state.state = "START" /\ upload_state \in UploadStates
    BY DEF Header, TypeOK
  <2>2. PICK h \in Headers :
          \/ upload_state' = [upload_state EXCEPT !.address = h[1],
                                                  !.file_size = h[2]]
          \/ upload_state' = [state |-> "WRITE", address |-> h[1],
                              file_size |-> h[2], byte_written |-> 0]
    BY DEF Header
  <2>3. ASSUME upload_state' = [upload_state EXCEPT !.address = h[1],
                                                    !.file_size = h[2]]
        PROVE  upload_state'.state = "START"
    BY <2>1, <2>3 DEF UploadStates
  <2>4. ASSUME upload_state' = [state |-> "WRITE", address |-> h[1],
                                file_size |-> h[2], byte_written |-> 0]
        PROVE  upload_state'.state = "WRITE" /\ upload_state'.byte_written = 0
    BY <2>4
  <2> QED BY <2>2, <2>3, <2>4
<1>2. pc = "app" /\ pc' = "app" /\ UNCHANGED <<flash, ghost>>
  BY DEF Header
<1>3. StreamStored' /\ RestErased' /\ QuietUpload' /\ Copying'
  BY <1>1, <1>2, FlashAssumption
     DEF StreamStored, RestErased, QuietUpload, Copying, Unit
<1>4. ParamStandsForStaged' /\ MainOrCopy'
  BY <1>2 DEF Clean, ParamStandsForStaged, MainOrCopy, StagedWhole, Holds
<1> QED BY <1>3, <1>4 DEF Clean

\* A piece arrives: its units come after those already written.
LEMMA DataPieceClean ==
    ASSUME TypeOK, Control, Clean, ~tainted, ~tainted', DataPiece
    PROVE  Clean'
<1> USE DEF flash, ghost
<1>1. /\ pc = "app" /\ pc' = "chunk" /\ upload_state.state = "WRITE"
      /\ UNCHANGED <<upload_state, flash, staged, installed>>
      /\ param = "idle"
  BY DEF DataPiece
<1>2. upload_state.byte_written \in 0 .. NUnits
  BY DEF TypeOK, UploadStates
<1>3. \A k \in Unit : k < upload_state.byte_written => received'[k] = received[k]
  <2>1. PICK n \in 1 .. MaxPiece : \E content \in [1 .. n -> Data] :
          received' = [k \in Unit |->
                          IF /\ upload_state.byte_written <= k
                             /\ k < upload_state.byte_written + n
                          THEN content[k - upload_state.byte_written + 1]
                          ELSE received[k]]
    BY DEF DataPiece
  <2>2. PICK content \in [1 .. n -> Data] :
          received' = [k \in Unit |->
                          IF /\ upload_state.byte_written <= k
                             /\ k < upload_state.byte_written + n
                          THEN content[k - upload_state.byte_written + 1]
                          ELSE received[k]]
    BY <2>1
  <2> QED BY <1>2, <2>2, FlashAssumption DEF Unit, NUnits
<1>4. StreamStored'
  BY <1>1, <1>3 DEF Clean, StreamStored
<1>5. RestErased' /\ QuietUpload' /\ Copying'
  BY <1>1 DEF Clean, RestErased, QuietUpload, Copying
<1>6. ParamStandsForStaged' /\ MainOrCopy'
  BY <1>1 DEF Clean, ParamStandsForStaged, MainOrCopy, StagedWhole, Holds
<1> QED BY <1>4, <1>5, <1>6 DEF Clean

LEMMA EraseNewClean ==
    ASSUME TypeOK, Control, Clean, ~tainted, ~tainted', EraseNew
    PROVE  Clean'
<1> USE DEF ram, ghost
<1>1. /\ pc = "chunk" /\ pc' = "program" /\ newp' = NewErased
      /\ UNCHANGED <<ram, param, main, staged, installed>>
  BY DEF EraseNew, SilentFailure, ErasesNew
<1>2. upload_state.byte_written \in 0 .. NUnits /\ upload_state.state = "WRITE"
      /\ param = "idle"
  BY <1>1 DEF TypeOK, UploadStates, Control, Clean, QuietUpload
<1>3. \A k \in Unit : newp'[k] = IF k \in SectorRest(upload_state.byte_written)
                                 THEN Erased ELSE newp[k]
  BY <1>1 DEF NewErased, EraseUnits
<1>4. \A k \in Unit : k < upload_state.byte_written => newp'[k] = newp[k]
  BY <1>2, <1>3, FlashAssumption DEF SectorRest, Unit, NUnits
<1>5. StreamStored'
  BY <1>1, <1>2, <1>4 DEF Clean, StreamStored
<1>6. RestErased'
  BY <1>1, <1>3 DEF RestErased, SectorRest
<1>7. QuietUpload' /\ Copying'
  BY <1>1, <1>2 DEF QuietUpload, Copying
<1>8. ParamStandsForStaged' /\ MainOrCopy'
  BY <1>1, <1>2 DEF Clean, ParamStandsForStaged, MainOrCopy, Holds
<1> QED BY <1>5, <1>6, <1>7, <1>8 DEF Clean

LEMMA SkipEraseClean ==
    ASSUME TypeOK, Control, Clean, ~tainted, SkipErase
    PROVE  Clean'
<1> USE DEF ram, flash, ghost
<1>1. /\ pc = "chunk" /\ pc' = "program" /\ ~NeedsErase
      /\ UNCHANGED <<ram, flash, ghost>>
  BY DEF SkipErase
<1>2. upload_state.state = "WRITE"
  BY <1>1 DEF Control
<1>3. StreamStored' /\ RestErased' /\ QuietUpload' /\ Copying'
  BY <1>1, <1>2 DEF Clean, StreamStored, RestErased, QuietUpload, Copying, NeedsErase
<1>4. ParamStandsForStaged' /\ MainOrCopy'
  BY <1>1 DEF Clean, ParamStandsForStaged, MainOrCopy, StagedWhole, Holds
<1> QED BY <1>3, <1>4 DEF Clean

\* A part of a sector is written: what is written so far is what was received,
\* and what is left of the sector is still erased.
LEMMA ProgramNewClean ==
    ASSUME TypeOK, Control, Clean, ~tainted, ~tainted', ProgramNew
    PROVE  Clean'
<1> USE DEF ram, ghost
<1> DEFINE from == upload_state.byte_written
<1>0. Unit = 0 .. LastUnit /\ NUnits = LastUnit + 1 /\ LastUnit \in Nat
      /\ SectorStarts \subseteq Unit
  BY FlashAssumption DEF Unit, NUnits
<1>1. /\ pc = "program" /\ pc' = "chunk" /\ newp' = NewProgrammed
      /\ UNCHANGED <<received, upto, param, main, staged, installed>>
  BY DEF ProgramNew, ProgramsNew, SilentFailure
<1>2. PICK next \in 1 .. upto :
          /\ next - 1 \in WriteRange
          /\ next = upto \/ next \in SectorStarts
          /\ upload_state' = [upload_state EXCEPT !.byte_written = next]
  BY Zenon DEF ProgramNew
<1>3. /\ from \in 0 .. NUnits /\ upto \in 0 .. NUnits
      /\ upload_state.state = "WRITE" /\ param = "idle"
  BY <1>1 DEF TypeOK, UploadStates, Control, Clean, QuietUpload
<1>4. /\ upload_state'.byte_written = next
      /\ upload_state'.state = "WRITE"
  BY <1>2, <1>3 DEF TypeOK, UploadStates
<1>5. /\ next \in Nat /\ next - 1 \in Unit /\ next - 1 >= from /\ next <= upto
      /\ \A b \in SectorStarts : b <= from \/ next - 1 < b
  BY <1>0, <1>2, <1>3 DEF WriteRange, SectorRest
<1>6. ASSUME NEW k \in Unit
      PROVE  newp'[k] = IF k \in WriteRange THEN Burn(newp[k], received[k])
                        ELSE newp[k]
  BY <1>1 DEF NewProgrammed, ProgramUnits
<1>7. ASSUME NEW k \in Unit, k < next PROVE newp'[k] = received[k]
  <2>1. CASE k < from
    <3>1. k \notin WriteRange
      BY <1>0, <1>3, <2>1 DEF WriteRange, SectorRest
    <3> QED BY <1>3, <1>6, <2>1, <3>1 DEF Clean, StreamStored
  <2>2. CASE from <= k
    <3>1. k \in WriteRange
      BY <1>0, <1>3, <1>5, <1>7, <2>2 DEF WriteRange, SectorRest
    <3>2. newp[k] = Erased
      BY <1>1, <3>1 DEF Clean, RestErased, WriteRange
    <3> QED BY <1>6, <3>1, <3>2 DEF Burn
  <2> QED BY <1>0, <1>3, <2>1, <2>2
<1>8. StreamStored'
  BY <1>1, <1>4, <1>7 DEF StreamStored
<1>9. RestErased'
  <2> SUFFICES ASSUME next \notin SectorStarts, NEW k \in SectorRest(next)
               PROVE  newp'[k] = Erased
    BY <1>1, <1>4 DEF RestErased
  <2>1. next = upto
    BY <1>2
  <2>2. k \in Unit /\ k >= next /\ \A b \in SectorStarts : b <= next \/ k < b
    BY DEF SectorRest
  <2>3. k \notin WriteRange
    BY <1>0, <1>5, <2>1, <2>2 DEF WriteRange
  <2>4. \A b \in SectorStarts : b <= from \/ k < b
    BY <1>0, <1>3, <1>5, <2>2
  <2>5. k \in SectorRest(from)
    BY <1>0, <1>3, <1>5, <2>2, <2>4 DEF SectorRest
  <2>6. newp[k] = Erased
    BY <1>1, <2>5 DEF Clean, RestErased
  <2> QED BY <1>6, <2>2, <2>3, <2>6
<1>10. QuietUpload' /\ Copying'
  BY <1>1, <1>3 DEF QuietUpload, Copying
<1>11. ParamStandsForStaged' /\ MainOrCopy'
  BY <1>1, <1>3 DEF Clean, ParamStandsForStaged, MainOrCopy, Holds
<1> QED BY <1>8, <1>9, <1>10, <1>11 DEF Clean

\* The file is complete: APP_NEW holds what was received.
LEMMA EndPieceClean ==
    ASSUME TypeOK, Control, Clean, ~tainted, EndPiece
    PROVE  Clean'
<1> USE DEF flash, ghost
<1>1. /\ pc = "chunk" /\ upload_state.byte_written = upto
      /\ upload_state.state = "WRITE"
      /\ UNCHANGED <<flash, installed, tainted>>
  BY DEF EndPiece, Control
<1>2. param = "idle" /\ Holds(main, installed)
  BY <1>1 DEF Clean, QuietUpload, MainOrCopy
<1>3. CASE upload_state.byte_written >= upload_state.file_size
  <2>1. /\ upload_state' = Fresh
        /\ staged' = [size |-> upto, data |-> received]
        /\ pc' = "announce_erase"
    BY <1>3 DEF EndPiece
  <2>2. upto >= 1
    BY <1>1, <1>3 DEF Control, TypeOK, NUnits
  <2>3. StagedWhole'
    <3>1. staged'.size = upto /\ staged'.data = received
      BY <2>1
    <3>2. staged'.size # NoImage.size
      BY <2>2, <3>1 DEF NoImage, TypeOK
    <3>3. \A k \in Unit : k < upto => newp[k] = received[k]
      BY <1>1 DEF Clean, StreamStored
    <3>4. Holds(newp', staged')
      BY <1>1, <3>1, <3>3 DEF Holds
    <3>5. NoImage' = NoImage
      BY DEF NoImage
    <3> QED BY <3>2, <3>4, <3>5 DEF StagedWhole
  <2>4. StreamStored' /\ RestErased' /\ QuietUpload' /\ Copying'
    BY <1>1, <1>2, <2>1 DEF Fresh, StreamStored, RestErased, QuietUpload, Copying
  <2>5. ParamStandsForStaged'
    BY <1>1, <1>2, <2>1, <2>3 DEF ParamStandsForStaged
  <2>6. MainOrCopy'
    BY <1>1, <1>2 DEF MainOrCopy, Holds
  <2> QED BY <2>4, <2>5, <2>6 DEF Clean
<1>4. CASE ~(upload_state.byte_written >= upload_state.file_size)
  <2>1. pc' = "app" /\ UNCHANGED <<upload_state, received, upto, staged>>
    BY <1>4 DEF EndPiece
  <2>2. StreamStored' /\ RestErased' /\ QuietUpload' /\ Copying'
    BY <1>1, <1>2, <2>1
       DEF Clean, StreamStored, RestErased, QuietUpload, Copying
  <2>3. ParamStandsForStaged' /\ MainOrCopy'
    BY <1>1, <1>2, <2>1 DEF Clean, ParamStandsForStaged, MainOrCopy, Holds
  <2> QED BY <2>2, <2>3 DEF Clean
<1> QED BY <1>3, <1>4

LEMMA AnnounceClean ==
    ASSUME TypeOK, Control, Clean, ~tainted, AnnounceErase \/ AnnounceWrite
    PROVE  Clean'
<1> USE DEF ram, ghost
<1>1. /\ pc \in {"announce_erase", "announce_write"}
      /\ pc' \in {"announce_write", "app"}
      /\ UNCHANGED <<upload_state, received, main, newp, ghost>>
  BY DEF AnnounceErase, AnnounceWrite
<1>2. upload_state.state = "START" /\ StagedWhole /\ Holds(main, installed)
  BY <1>1 DEF Control, Clean, ParamStandsForStaged, MainOrCopy
<1>3. StreamStored' /\ RestErased' /\ QuietUpload' /\ Copying'
  BY <1>1, <1>2 DEF StreamStored, RestErased, QuietUpload, Copying
<1>4. StagedWhole'
  BY <1>1, <1>2 DEF StagedWhole, Holds, NoImage
<1>5. ParamStandsForStaged' /\ MainOrCopy'
  BY <1>1, <1>2, <1>4 DEF ParamStandsForStaged, MainOrCopy, Holds
<1> QED BY <1>3, <1>5 DEF Clean

\* The processor restarts: APP_MAIN is whole, so the bootloader may find it so.
LEMMA RestartClean ==
    ASSUME TypeOK, Control, Clean, ~tainted, Restart
    PROVE  Clean'
<1> USE DEF flash, ghost
<1>1. /\ pc = "app" /\ pc' = "boot" /\ UNCHANGED <<flash, ghost>>
      /\ upload_state'.state = "START"
  BY DEF Restart, ResetRam, Fresh
<1>2. StreamStored' /\ RestErased' /\ QuietUpload' /\ Copying'
  BY <1>1 DEF StreamStored, RestErased, QuietUpload, Copying
<1>3. ParamStandsForStaged' /\ MainOrCopy'
  BY <1>1 DEF Clean, ParamStandsForStaged, MainOrCopy, StagedWhole, Holds
<1> QED BY <1>2, <1>3 DEF Clean

\* The processor leaves the bootloader or enters it, with the flash as it is.
LEMMA PowerOnClean ==
    ASSUME TypeOK, Control, Clean, ~tainted, PowerOn
    PROVE  Clean'
<1> USE DEF ram, flash, ghost
<1>1. /\ pc \in {"off", "stuck"} /\ pc' = "boot"
      /\ UNCHANGED <<ram, flash, ghost>>
      /\ upload_state.state = "START"
  BY DEF PowerOn, DownPcs, Control
<1>2. StreamStored' /\ RestErased' /\ QuietUpload' /\ Copying'
  BY <1>1 DEF StreamStored, RestErased, QuietUpload, Copying
<1>3. ParamStandsForStaged'
  BY <1>1 DEF Clean, ParamStandsForStaged, StagedWhole, Holds
<1>4. MainOrCopy'
  BY <1>1 DEF Clean, MainOrCopy, ReadyToCopy, StagedWhole, Holds, Announces
<1> QED BY <1>2, <1>3, <1>4 DEF Clean

\* What a whole staged image starts with is not garbled and not erased.
LEMMA StagedFirst ==
    ASSUME TypeOK, Control, StagedWhole
    PROVE  newp[0] \in Data
<1>1. staged \in Images
  BY DEF StagedWhole, TypeOK
<1>2. staged.size >= 1 /\ 0 \in Unit
  BY <1>1, FlashAssumption DEF Images, Unit, NUnits
<1>3. 0 < staged.size
  BY <1>1, <1>2, FlashAssumption DEF Images, NUnits
<1>4. staged.data[0] \in Data
  BY <1>2, <1>3 DEF Control, StagedWhole
<1> QED BY <1>2, <1>3, <1>4 DEF StagedWhole, Holds

\* If the bootloader decides to copy, there is a whole image to copy.
LEMMA ReadParamClean ==
    ASSUME TypeOK, Control, Clean, ~tainted, ReadParam
    PROVE  Clean'
<1> USE DEF ram, flash, ghost
<1>1. /\ pc = "boot" /\ UNCHANGED <<ram, flash, ghost>>
      /\ upload_state.state = "START"
  BY DEF ReadParam, Control
<1>2. StagedWhole' = StagedWhole /\ Holds(main, installed)' = Holds(main, installed)
      /\ ReadyToCopy' = ReadyToCopy
  BY <1>1 DEF StagedWhole, Holds, NoImage, ReadyToCopy, Announces
<1>3. ParamStandsForStaged /\ MainOrCopy
  BY DEF Clean
<1>4. CASE param = "blank" /\ pc' = "create_erase"
  <2>1. ~ReadyToCopy
    BY <1>4 DEF ReadyToCopy, Announces
  <2> QED
    BY <1>1, <1>2, <1>3, <1>4, <2>1
       DEF Clean, StreamStored, RestErased, QuietUpload, ParamStandsForStaged,
           MainOrCopy, Copying
<1>5. CASE Announces(param) /\ MayBeRom(newp[0]) /\ pc' = "copy_erase" /\ offset' = 0
  <2>1. param # "idle"
    BY <1>5 DEF Announces
  <2>2. newp[0] # Erased
    BY <1>5, FlashAssumption, UpdateAssumption DEF MayBeRom
  <2>3. StagedWhole
    BY <1>3, <2>1, <2>2 DEF ParamStandsForStaged
  <2>4. newp[0] \in RomUnits
    BY <1>5, <2>3, StagedFirst, FlashAssumption DEF MayBeRom
  <2>5. ReadyToCopy
    BY <1>5, <2>3, <2>4 DEF ReadyToCopy
  <2>6. Copying'
    BY <1>1, <1>2, <1>5, <2>5, FlashAssumption DEF Copying, Unit
  <2> QED
    BY <1>1, <1>2, <1>3, <1>5, <2>5, <2>6
       DEF Clean, StreamStored, RestErased, QuietUpload, ParamStandsForStaged,
           MainOrCopy
<1>6. CASE /\ pc' = "load_main"
           /\ \/ param # "blank" /\ ~Announces(param)
              \/ Announces(param) /\ MayNotBeRom(newp[0])
  <2>1. ~ReadyToCopy
    BY <1>6 DEF ReadyToCopy, MayNotBeRom
  <2> QED
    BY <1>1, <1>2, <1>3, <1>6, <2>1
       DEF Clean, StreamStored, RestErased, QuietUpload, ParamStandsForStaged,
           MainOrCopy, Copying
<1>7. CASE pc' = "stuck"
  BY <1>1, <1>2, <1>3, <1>7
     DEF Clean, StreamStored, RestErased, QuietUpload, ParamStandsForStaged,
         MainOrCopy, Copying
<1> QED BY <1>4, <1>5, <1>6, <1>7 DEF ReadParam, BootError

\* The steps of the bootloader that touch only the parameter.
LEMMA BootParamClean ==
    ASSUME TypeOK, Control, Clean, ~tainted,
           CreateErase \/ CreateWrite \/ ClearErase \/ ClearWrite
    PROVE  Clean'
<1> USE DEF ram, ghost
<1>1. /\ pc \in {"create_erase", "create_write", "clear_erase", "clear_write"}
      /\ pc' \in {"create_write", "clear_write", "load_main", "stuck"}
      /\ UNCHANGED <<ram, main, newp, ghost>>
      /\ upload_state.state = "START"
  BY DEF CreateErase, CreateWrite, ClearErase, ClearWrite, BootError, Control
<1>2. param # "idle" /\ Holds(main, installed)
  BY <1>1 DEF Clean, ParamStandsForStaged, MainOrCopy
<1>3. StagedWhole \/ newp[0] = Erased
  BY <1>2 DEF Clean, ParamStandsForStaged
<1>4. (StagedWhole \/ newp[0] = Erased)'
  BY <1>1, <1>3 DEF StagedWhole, Holds, NoImage
<1>5. pc' \in {"create_write", "clear_write"} => param' # "idle"
  BY <1>1 DEF CreateErase, CreateWrite, ClearErase, ClearWrite, BootError
<1>6. ParamStandsForStaged'
  BY <1>1, <1>4, <1>5 DEF ParamStandsForStaged
<1>7. MainOrCopy'
  BY <1>1, <1>2 DEF MainOrCopy, Holds
<1>8. StreamStored' /\ RestErased' /\ QuietUpload' /\ Copying'
  BY <1>1 DEF StreamStored, RestErased, QuietUpload, Copying
<1> QED BY <1>6, <1>7, <1>8 DEF Clean

LEMMA CopyEraseClean ==
    ASSUME TypeOK, Control, Clean, ~tainted, CopyErase
    PROVE  Clean'
<1> USE DEF ram, ghost
<1>1. /\ pc = "copy_erase" /\ pc' \in {"copy_write", "stuck"}
      /\ UNCHANGED <<ram, offset, param, newp, ghost>>
      /\ upload_state.state = "START" /\ offset \in 0 .. NUnits
  BY DEF CopyErase, BootError, Control, TypeOK
<1>2. ReadyToCopy /\ \A k \in Unit : k < offset => main[k] = newp[k]
  BY <1>1 DEF Clean, Copying
<1>3. ReadyToCopy'
  BY <1>1, <1>2 DEF ReadyToCopy, StagedWhole, Holds, NoImage, Announces
<1>4. StreamStored' /\ RestErased' /\ QuietUpload'
  BY <1>1 DEF StreamStored, RestErased, QuietUpload
<1>5. ParamStandsForStaged' /\ MainOrCopy'
  BY <1>1, <1>3 DEF ParamStandsForStaged, MainOrCopy, ReadyToCopy
<1>6. Copying'
  <2>1. CASE pc' = "stuck"
    BY <2>1 DEF Copying
  <2>2. CASE pc' = "copy_write"
    <3>1. main' = MainErased
      BY <2>2 DEF CopyErase, BootError
    <3>2. \A k \in Unit : k < offset => k \notin SectorRest(offset)
      BY <1>1, FlashAssumption DEF SectorRest, Unit, NUnits
    <3>3. \A k \in Unit : k < offset => main'[k] = newp[k]
      BY <1>2, <3>1, <3>2 DEF MainErased, EraseUnits
    <3>4. \A k \in SectorRest(offset) : main'[k] = Erased
      BY <3>1 DEF MainErased, EraseUnits, SectorRest
    <3> QED BY <1>1, <1>3, <3>3, <3>4 DEF Copying
  <2> QED BY <1>1, <2>1, <2>2
<1> QED BY <1>4, <1>5, <1>6 DEF Clean

\* The last sector is copied: APP_MAIN holds what APP_NEW holds.
LEMMA CopyWriteClean ==
    ASSUME TypeOK, Control, Clean, ~tainted, CopyWrite
    PROVE  Clean'
<1> USE DEF ram
<1>0. Unit = 0 .. LastUnit /\ NUnits = LastUnit + 1 /\ LastUnit \in Nat
      /\ SectorStarts \subseteq Unit
  BY FlashAssumption DEF Unit, NUnits
<1>1. /\ pc = "copy_write"
      /\ pc' \in {"copy_erase", "clear_erase", "stuck"}
      /\ UNCHANGED <<ram, param, newp, staged, tainted>>
      /\ upload_state.state = "START" /\ offset \in 0 .. NUnits
  BY DEF CopyWrite, CopyDone, BootError, Control, TypeOK
<1>2. /\ ReadyToCopy
      /\ \A k \in Unit : k < offset => main[k] = newp[k]
      /\ \A k \in SectorRest(offset) : main[k] = Erased
  BY <1>1 DEF Clean, Copying
<1>3. ReadyToCopy'
  BY <1>1, <1>2 DEF ReadyToCopy, StagedWhole, Holds, NoImage, Announces
<1>4. StreamStored' /\ RestErased' /\ QuietUpload'
  BY <1>1 DEF StreamStored, RestErased, QuietUpload
<1>5. ParamStandsForStaged'
  BY <1>1, <1>2, <1>3 DEF ParamStandsForStaged, ReadyToCopy, Announces
<1>6. CASE pc' = "stuck"
  BY <1>3, <1>4, <1>5, <1>6 DEF Clean, MainOrCopy, Copying
<1>7. CASE pc' # "stuck"
  <2>1. main' = MainCopied
    BY <1>7 DEF CopyWrite, CopyDone, BootError
  <2>2. PICK next \in 1 .. NUnits :
            /\ next - 1 \in SectorRest(offset)
            /\ next \notin SectorRest(offset)
            /\ offset' = next
            /\ IF next >= NUnits
               THEN pc' = "clear_erase" /\ installed' = staged
               ELSE pc' = "copy_erase" /\ UNCHANGED installed
    BY <1>7 DEF CopyWrite, CopyDone, BootError
  <2>3. /\ next - 1 \in Unit /\ next - 1 >= offset
        /\ \A b \in SectorStarts : b <= offset \/ next - 1 < b
    BY <2>2 DEF SectorRest
  <2>4. ASSUME NEW k \in Unit, k < next PROVE main'[k] = newp[k]
    <3>1. CASE k < offset
      <4>1. k \notin SectorRest(offset)
        BY <1>0, <1>1, <3>1 DEF SectorRest
      <4> QED BY <1>2, <2>1, <3>1, <4>1 DEF MainCopied, ProgramUnits
    <3>2. CASE offset <= k
      <4>1. k \in SectorRest(offset)
        BY <1>0, <1>1, <2>3, <2>4, <3>2 DEF SectorRest
      <4>2. main[k] = Erased
        BY <1>2, <4>1
      <4> QED BY <2>1, <4>1, <4>2 DEF MainCopied, ProgramUnits, Burn
    <3> QED BY <1>0, <1>1, <3>1, <3>2
  <2>5. CASE ~(next >= NUnits)
    <3>1. pc' = "copy_erase" /\ offset' = next
      BY <2>2, <2>5
    <3>2. Copying'
      BY <1>1, <1>3, <2>4, <3>1 DEF Copying
    <3>3. MainOrCopy'
      BY <1>3, <3>1 DEF MainOrCopy
    <3> QED BY <1>4, <1>5, <3>2, <3>3 DEF Clean
  <2>6. CASE next >= NUnits
    <3>1. pc' = "clear_erase" /\ installed' = staged
      BY <2>2, <2>6
    <3>2. \A k \in Unit : main'[k] = newp[k]
      BY <1>0, <2>4, <2>6
    <3>3. Holds(newp, staged)
      BY <1>2 DEF ReadyToCopy, StagedWhole
    <3>4. Holds(main, installed)'
      BY <3>1, <3>2, <3>3 DEF Holds
    <3>5. MainOrCopy' /\ Copying'
      BY <3>1, <3>4 DEF MainOrCopy, Copying
    <3> QED BY <1>4, <1>5, <3>5 DEF Clean
  <2> QED BY <2>5, <2>6
<1> QED BY <1>6, <1>7

LEMMA LoadMainClean ==
    ASSUME TypeOK, Control, Clean, ~tainted, LoadMain
    PROVE  Clean'
<1> USE DEF ram, flash, ghost
<1>1. /\ pc = "load_main" /\ pc' \in {"app", "stuck"}
      /\ UNCHANGED <<ram, flash, ghost>>
      /\ upload_state.state = "START"
  BY DEF LoadMain, BootError, Control
<1>2. Holds(main, installed)
  BY <1>1 DEF Clean, MainOrCopy
<1>3. StreamStored' /\ RestErased' /\ QuietUpload' /\ Copying'
  BY <1>1 DEF StreamStored, RestErased, QuietUpload, Copying
<1>4. ParamStandsForStaged' /\ MainOrCopy'
  BY <1>1, <1>2 DEF Clean, ParamStandsForStaged, MainOrCopy, StagedWhole, Holds
<1> QED BY <1>3, <1>4 DEF Clean

\* Power can go at any point of any flash operation.
LEMMA PowerLossClean ==
    ASSUME TypeOK, Control, Clean, ~tainted, PowerLoss
    PROVE  Clean'
<1> USE DEF ghost
<1>1. /\ pc' = "off" /\ upload_state'.state = "START" /\ UNCHANGED ghost
      /\ param' \in CutParam /\ main' \in CutMain /\ newp' \in CutNew
  BY DEF PowerLoss, ResetRam, Fresh
<1>2. StreamStored' /\ RestErased' /\ QuietUpload' /\ Copying'
  BY <1>1 DEF StreamStored, RestErased, QuietUpload, Copying
<1>3. CASE pc \in {"chunk", "program"}
  <2>1. param = "idle" /\ param' = param /\ main' = main
    BY <1>1, <1>3 DEF Clean, QuietUpload, CutParam, ErasesParam, WritesParam, CutMain
  <2>2. Holds(main, installed)
    BY <1>3 DEF Clean, MainOrCopy
  <2>3. ParamStandsForStaged' /\ MainOrCopy'
    BY <1>1, <2>1, <2>2 DEF ParamStandsForStaged, MainOrCopy, Holds
  <2> QED BY <1>2, <2>3 DEF Clean
<1>4. CASE pc \notin {"chunk", "program"}
  <2>1. newp' = newp
    BY <1>1, <1>4 DEF CutNew, ErasesNew, ProgramsNew
  <2>2. StagedWhole' = StagedWhole
    BY <1>1, <2>1 DEF StagedWhole, Holds, NoImage
  <2>3. CASE param' = param
    <3>1. ParamStandsForStaged'
      BY <1>1, <2>1, <2>2, <2>3 DEF Clean, ParamStandsForStaged
    <3>2. CASE pc \in {"copy_erase", "copy_write"}
      <4>1. ReadyToCopy'
        BY <2>1, <2>2, <2>3, <3>2 DEF Clean, Copying, ReadyToCopy, Announces
      <4> QED BY <1>1, <1>2, <3>1, <4>1 DEF Clean, MainOrCopy
    <3>3. CASE pc \notin {"copy_erase", "copy_write"}
      <4>1. main' = main
        BY <1>1, <3>3 DEF CutMain
      <4>2. ReadyToCopy' = ReadyToCopy
        BY <2>1, <2>2, <2>3 DEF ReadyToCopy, Announces
      <4>3. Holds(main, installed)' = Holds(main, installed)
        BY <1>1, <4>1 DEF Holds
      <4> QED BY <1>1, <1>2, <3>1, <4>2, <4>3 DEF Clean, MainOrCopy
    <3> QED BY <3>2, <3>3
  <2>4. CASE param' # param
    <3>1. pc \in {"announce_erase", "announce_write", "create_erase",
                  "create_write", "clear_erase", "clear_write"}
      BY <1>1, <2>4 DEF CutParam, ErasesParam, WritesParam
    <3>2. StagedWhole \/ newp[0] = Erased
      BY <3>1 DEF Clean, ParamStandsForStaged
    <3>3. Holds(main, installed) /\ main' = main
      BY <1>1, <3>1 DEF Clean, MainOrCopy, CutMain
    <3>4. ParamStandsForStaged'
      BY <1>1, <2>1, <2>2, <3>2 DEF ParamStandsForStaged
    <3>5. MainOrCopy'
      BY <1>1, <3>3 DEF MainOrCopy, Holds
    <3> QED BY <1>2, <3>4, <3>5 DEF Clean
  <2> QED BY <2>3, <2>4
<1> QED BY <1>3, <1>4

\* The inductive step.
LEMMA NextClean ==
    ASSUME TypeOK, Control, Clean, ~tainted, ~tainted', [Next]_vars
    PROVE  Clean'
<1>1. CASE Upload
  BY <1>1, HandshakeClean, HeaderClean, DataPieceClean DEF Upload
<1>2. CASE Handler
  BY <1>2, EraseNewClean, SkipEraseClean, ProgramNewClean, EndPieceClean,
     AnnounceClean DEF Handler
<1>3. CASE Restart
  BY <1>3, RestartClean
<1>4. CASE Boot
  BY <1>4, ReadParamClean, BootParamClean, CopyEraseClean, CopyWriteClean,
     LoadMainClean DEF Boot
<1>5. CASE PowerLoss
  BY <1>5, PowerLossClean
<1>6. CASE PowerOn
  BY <1>6, PowerOnClean
<1>7. CASE UNCHANGED vars
  <2>1. UNCHANGED <<pc, upload_state, received, upto, offset, param, main, newp,
                    staged, installed, tainted>>
    BY <1>7 DEF vars, ram, flash, ghost
  <2>2. StagedWhole' = StagedWhole /\ ReadyToCopy' = ReadyToCopy
        /\ Holds(main, installed)' = Holds(main, installed)
    BY <2>1 DEF StagedWhole, ReadyToCopy, Holds, NoImage, Announces
  <2>3. StreamStored' /\ RestErased' /\ QuietUpload'
    BY <2>1 DEF Clean, StreamStored, RestErased, QuietUpload
  <2>4. ParamStandsForStaged' /\ MainOrCopy' /\ Copying'
    BY <2>1, <2>2 DEF Clean, ParamStandsForStaged, MainOrCopy, Copying
  <2> QED BY <2>3, <2>4 DEF Clean
<1> QED BY <1>1, <1>2, <1>3, <1>4, <1>5, <1>6, <1>7 DEF Next

\* IInv is inductive.
LEMMA NextIInv == IInv /\ [Next]_vars => IInv'
<1> SUFFICES ASSUME IInv, [Next]_vars PROVE IInv'
  OBVIOUS
<1>1. TypeOK' /\ Control'
  BY NextTyped DEF IInv
<1>2. ASSUME ~tainted' PROVE Clean'
  <2>1. ~tainted
    BY <1>2, TaintStays
  <2>2. Clean
    BY <2>1 DEF IInv, Clean
  <2> QED BY <1>2, <2>1, <2>2, NextClean DEF IInv
<1> QED BY <1>1, <1>2 DEF IInv, Clean

LEMMA InitIInv == Init => IInv
BY InitTyped, InitClean DEF IInv, Clean

\* The inductive invariant holds in every behaviour, tainted or not.
THEOREM Invariance == Spec => []IInv
BY InitIInv, NextIInv, PTL DEF Spec

\* The properties of the update machinery follow from it.
LEMMA IInvSafe ==
    IInv => StreamStored /\ RunsWholeImage /\ Recoverable /\ AnnouncedIsComplete
<1> SUFFICES ASSUME IInv
             PROVE  StreamStored /\ RunsWholeImage /\ Recoverable /\ AnnouncedIsComplete
  OBVIOUS
<1>1. StreamStored
  BY DEF IInv, StreamStored
<1>2. RunsWholeImage
  BY DEF IInv, RunsWholeImage, MainOrCopy, AppPcs
<1>3. Recoverable
  BY DEF IInv, Recoverable, MainOrCopy, ReadyToCopy, StagedWhole
<1>4. AnnouncedIsComplete
  BY DEF IInv, AnnouncedIsComplete, ParamStandsForStaged, StagedWhole, Announces
<1> QED BY <1>1, <1>2, <1>3, <1>4

\* An untainted device only ever runs the whole image installed last.
THEOREM RunsWhole == Spec => []RunsWholeImage
BY Invariance, IInvSafe, PTL

\* At every instant the flash of an untainted device can bring up a whole image.
THEOREM AlwaysRecoverable == Spec => []Recoverable
BY Invariance, IInvSafe, PTL

\* What the upload handler wrote is what it received.
THEOREM UploadStored == Spec => []StreamStored
BY Invariance, IInvSafe, PTL

\* What is announced to the bootloader is the completed upload.
THEOREM AnnouncedComplete == Spec => []AnnouncedIsComplete
BY Invariance, IInvSafe, PTL

-------------------------------------------------------------------------------
(* The proof that firmware update, where it is not tainted, implements         *)
(* FirmwareStore.  What the refinement needs besides IInv:                     *)

\* A parameter is withdrawn only once the image it announced is installed, and
\* its sector is written only when it is blank.
Withdrawn ==
    /\ installed \in Images
    /\ param # "idle" => Holds(newp, staged)
    /\ pc \in {"announce_write", "create_erase", "create_write", "clear_write"}
        => param = "blank"
    /\ pc = "clear_erase" => installed = staged

Inv == IInv /\ ~tainted /\ Withdrawn

\* It holds for a device as delivered.
LEMMA InitInv == Init => Inv
<1> SUFFICES ASSUME Init PROVE Inv
  OBVIOUS
<1>1. IInv /\ ~tainted
  BY InitIInv DEF Init
<1>2. main \in [Unit -> Content] /\ NUnits \in 1 .. NUnits
  BY FlashAssumption DEF Init, Content, NUnits
<1>3. installed \in Images
  BY <1>2 DEF Init, Images
<1>4. Holds(newp, staged)
  BY FlashAssumption DEF Init, Holds, NoImage, Unit
<1> QED BY <1>1, <1>3, <1>4 DEF Init, Inv, Withdrawn

\* The upload handler.
LEMMA HandlerWithdrawn ==
    ASSUME Inv, ~tainted', Upload \/ Handler
    PROVE  Withdrawn'
<1> USE DEF Inv, IInv, Withdrawn, ghost, flash, ram
<1>1. CASE Upload \/ SkipErase
  <2>1. /\ UNCHANGED <<installed, staged, param, newp>>
        /\ pc' \in {"app", "chunk", "program"}
    BY <1>1 DEF Upload, Handshake, Header, DataPiece, SkipErase
  <2> QED BY <2>1 DEF Holds
<1>2. CASE EraseNew \/ ProgramNew \/ EndPiece
  <2>1. pc \in {"chunk", "program"}
    BY <1>2 DEF EraseNew, ErasesNew, ProgramNew, ProgramsNew, EndPiece
  <2>2. param = "idle"
    BY <2>1 DEF QuietUpload
  <2>3. /\ UNCHANGED <<installed, param>>
        /\ pc' \in {"app", "chunk", "program", "announce_erase"}
    BY <1>2 DEF EraseNew, ProgramNew, EndPiece
  <2> QED BY <2>2, <2>3
<1>3. CASE AnnounceErase \/ AnnounceWrite
  <2>1. StagedWhole
    BY <1>3 DEF AnnounceErase, AnnounceWrite, ParamStandsForStaged
  <2>2. /\ UNCHANGED <<installed, staged, newp>>
        /\ \/ pc' = "announce_write" /\ param' = "blank"
           \/ pc' = "app"
    BY <1>3 DEF AnnounceErase, AnnounceWrite
  <2> QED BY <2>1, <2>2 DEF StagedWhole, Holds
<1> QED BY <1>1, <1>2, <1>3 DEF Handler

\* The bootloader, the restart and the power supply.
LEMMA BootWithdrawn ==
    ASSUME Inv, ~tainted', Restart \/ Boot \/ PowerLoss \/ PowerOn
    PROVE  Withdrawn'
<1> USE DEF Inv, IInv, Withdrawn, ghost, flash, ram
<1>1. CASE Restart \/ PowerOn
  <2>1. UNCHANGED <<installed, staged, param, newp>> /\ pc' = "boot"
    BY <1>1 DEF Restart, PowerOn
  <2> QED BY <2>1 DEF Holds
<1>2. CASE ReadParam \/ CopyErase \/ LoadMain
  <2>1. /\ UNCHANGED <<installed, staged, param, newp>>
        /\ \/ pc' \in {"copy_erase", "copy_write", "load_main", "app", "stuck"}
           \/ pc' = "create_erase" /\ param = "blank"
    BY <1>2 DEF ReadParam, CopyErase, LoadMain, BootError
  <2> QED BY <2>1 DEF Holds
<1>3. CASE CreateErase \/ CreateWrite \/ ClearErase \/ ClearWrite
  <2>1. Holds(newp, staged)
    BY <1>3 DEF CreateErase, CreateWrite, ClearErase, ClearWrite, ParamStandsForStaged
  <2>2. /\ UNCHANGED <<installed, staged, newp>>
        /\ \/ pc' \in {"create_write", "clear_write"} /\ param' = "blank"
           \/ pc' \in {"load_main", "stuck"}
    BY <1>3 DEF CreateErase, CreateWrite, ClearErase, ClearWrite, BootError
  <2> QED BY <2>1, <2>2 DEF Holds
<1>4. CASE CopyWrite
  <2>1. StagedWhole
    BY <1>4 DEF CopyWrite, Copying, ReadyToCopy
  <2>2. staged \in Images
    BY <2>1 DEF StagedWhole, TypeOK
  <2>3. /\ UNCHANGED <<staged, param, newp>>
        /\ \/ pc' \in {"copy_erase", "stuck"} /\ installed' = installed
           \/ pc' = "clear_erase" /\ installed' = staged
    BY <1>4 DEF CopyWrite, BootError
  <2> QED BY <2>1, <2>2, <2>3 DEF StagedWhole, Holds
<1>5. CASE PowerLoss
  <2>1. /\ UNCHANGED <<installed, staged>> /\ pc' = "off"
        /\ param' \in CutParam /\ newp' \in CutNew
    BY <1>5 DEF PowerLoss
  <2>2. CASE pc \in {"chunk", "program"}
    <3>1. param = "idle" /\ param' = param
      BY <2>1, <2>2 DEF QuietUpload, CutParam, ErasesParam, WritesParam
    <3> QED BY <2>1, <3>1
  <2>3. CASE pc \notin {"chunk", "program"}
    <3>1. newp' = newp
      BY <2>1, <2>3 DEF CutNew, ErasesNew, ProgramsNew
    <3>2. param' # "idle" => Holds(newp, staged)
      <4>1. CASE param' = param
        BY <4>1
      <4>2. CASE param' # param
        <5>1. ErasesParam \/ WritesParam
          BY <2>1, <4>2 DEF CutParam
        <5> QED BY <5>1 DEF ErasesParam, WritesParam, ParamStandsForStaged, StagedWhole
      <4> QED BY <4>1, <4>2
    <3> QED BY <2>1, <3>1, <3>2 DEF Holds
  <2> QED BY <2>2, <2>3
<1> QED BY <1>1, <1>2, <1>3, <1>4, <1>5 DEF Boot

\* Every step that taints nothing keeps the invariant.
LEMMA NextInv ==
    ASSUME Inv, [Next /\ ~tainted']_vars
    PROVE  Inv'
<1>1. ~tainted' /\ [Next]_vars
  BY DEF Inv, vars, ghost
<1>2. IInv'
  BY <1>1, NextIInv DEF Inv
<1>3. CASE Next
  BY <1>1, <1>2, <1>3, HandlerWithdrawn, BootWithdrawn DEF Next, Inv
<1>4. CASE UNCHANGED vars
  BY <1>1, <1>2, <1>4 DEF Inv, Withdrawn, Holds, vars, ghost, flash
<1> QED BY <1>3, <1>4

-------------------------------------------------------------------------------
(* The refinement mapping, under Inv: what is announced is the staged image,   *)
(* what runs is the installed one.                                             *)

Announced == IF Announces(param) THEN staged ELSE NoImage
Running   == IF pc \in AppPcs THEN installed ELSE NoImage


Mapped == INSTANCE FirmwareStore WITH
    Image     <- Images,
    NoImage   <- NoImage,
    installed <- installed,
    completed <- staged,
    staged    <- Announced,
    running   <- Running

\* No image is not an image.
LEMMA NotAnImage == NoImage \notin Images
BY FlashAssumption DEF NoImage, Images, NUnits

\* An announcement comes up, torn or whole, while the device goes on, goes down or
\* is down.
LEMMA Announcing ==
    ASSUME UNCHANGED <<installed, staged>>,
           param' = param \/ ~Announces(param),
           Running' \in {Running, NoImage}
    PROVE  [Mapped!Next]_(Mapped!vars)
<1> USE DEF Mapped!Next, Mapped!vars
<1>1. CASE Announced' = Announced
  BY <1>1 DEF Mapped!Stop
<1>2. CASE Announced' # Announced
  <2>1. Announced = NoImage /\ Announced' = staged
    BY <1>2 DEF Announced, Announces
  <2> QED BY <1>2, <2>1 DEF Mapped!Announce
<1> QED BY <1>1, <1>2

\* An announcement is withdrawn once its image is installed, while the device is
\* down.
LEMMA Withdrawing ==
    ASSUME UNCHANGED <<installed, staged>>, installed = staged,
           Running = NoImage, Running' = NoImage
    PROVE  [Mapped!Next]_(Mapped!vars)
<1> USE DEF Mapped!Next, Mapped!vars
<1>1. CASE Announces(param) \/ ~Announces(param)'
  <2>1. Announced' = Announced \/ (Announced = installed /\ Announced' = NoImage)
    BY <1>1 DEF Announced
  <2> QED BY <2>1 DEF Mapped!Withdraw
<1>2. CASE ~Announces(param) /\ Announces(param)'
  BY <1>2, Announcing
<1> QED BY <1>1, <1>2

\* The application.
LEMMA ApplicationStep ==
    ASSUME Inv, Inv', Upload \/ Handler
    PROVE  [Mapped!Next]_(Mapped!vars)
<1> USE DEF Inv, ghost, flash, ram
<1>1. pc \in AppPcs /\ pc' \in AppPcs
  BY DEF Upload, Handshake, Header, DataPiece, Handler, EraseNew, ErasesNew, SkipErase,
         ProgramNew, ProgramsNew, EndPiece, AnnounceErase, AnnounceWrite, AppPcs
<1>2. installed' = installed
  BY DEF Upload, Handshake, Header, DataPiece, Handler, EraseNew, SkipErase,
         ProgramNew, EndPiece, AnnounceErase, AnnounceWrite
<1>3. Running = installed /\ Running' = installed
  BY <1>1, <1>2 DEF Running
<1>4. CASE Upload \/ EraseNew \/ SkipErase \/ ProgramNew
  <2>1. UNCHANGED <<staged, param>>
    BY <1>4 DEF Upload, Handshake, Header, DataPiece, EraseNew, SkipErase, ProgramNew
  <2> QED BY <1>2, <1>3, <2>1, Announcing
<1>5. CASE EndPiece
  <2>1. param = "idle" /\ param' = "idle"
    BY <1>5 DEF EndPiece, IInv, QuietUpload
  <2>2. Announced = NoImage /\ Announced' = NoImage
    BY <2>1 DEF Announced, Announces
  <2>3. installed # NoImage
    BY NotAnImage DEF Withdrawn
  <2>4. CASE staged' = staged
    BY <1>2, <1>3, <2>2, <2>4 DEF Mapped!vars
  <2>5. CASE staged' # staged
    <3>1. pc' = "announce_erase"
      BY <1>5, <2>5 DEF EndPiece
    <3>2. staged' \in Images
      BY <3>1 DEF IInv, ParamStandsForStaged, StagedWhole, TypeOK
    <3> QED BY <1>2, <1>3, <2>2, <2>3, <3>2 DEF Mapped!Next, Mapped!Complete
  <2> QED BY <2>4, <2>5
<1>6. CASE AnnounceErase \/ AnnounceWrite
  <2>1. param \in {"idle", "blank"}
    BY <1>6 DEF AnnounceErase, AnnounceWrite, IInv, QuietUpload, Withdrawn
  <2>2. ~Announces(param) /\ staged' = staged
    BY <1>6, <2>1 DEF Announces, AnnounceErase, AnnounceWrite
  <2> QED BY <1>2, <1>3, <2>2, Announcing
<1> QED BY <1>4, <1>5, <1>6 DEF Handler

\* The bootloader.
LEMMA BootStep ==
    ASSUME Inv, Inv', Boot
    PROVE  [Mapped!Next]_(Mapped!vars)
<1> USE DEF Inv, ghost, flash, ram
<1>1. pc \in BootPcs /\ Running = NoImage
  BY DEF Boot, ReadParam, CreateErase, CreateWrite, CopyErase, CopyWrite, ClearErase,
         ClearWrite, LoadMain, BootPcs, CopyPcs, AppPcs, Running
<1>2. CASE ReadParam \/ CopyErase
  <2>1. UNCHANGED <<installed, staged, param>> /\ Running' = NoImage
    BY <1>2 DEF ReadParam, CopyErase, BootError, Running, AppPcs
  <2> QED BY <1>1, <2>1, Announcing
<1>3. CASE CreateErase \/ CreateWrite \/ ClearWrite
  <2>1. param = "blank"
    BY <1>3 DEF CreateErase, CreateWrite, ClearWrite, Withdrawn
  <2>2. UNCHANGED <<installed, staged>> /\ Running' = NoImage
    BY <1>3 DEF CreateErase, CreateWrite, ClearWrite, BootError, Running, AppPcs
  <2> QED BY <1>1, <2>1, <2>2, Announcing DEF Announces
<1>4. CASE CopyWrite
  <2>1. UNCHANGED <<staged, param>> /\ Running' = NoImage
    BY <1>4 DEF CopyWrite, BootError, Running, AppPcs
  <2>2. Announced = staged /\ Announced' = staged /\ staged # NoImage
    BY <1>4, <2>1 DEF CopyWrite, IInv, Copying, ReadyToCopy, StagedWhole, Announced,
                      Announces
  <2>3. installed' \in {installed, staged}
    BY <1>4 DEF CopyWrite
  <2> QED BY <1>1, <2>1, <2>2, <2>3 DEF Mapped!Next, Mapped!vars, Mapped!Install
<1>5. CASE ClearErase
  <2>1. installed = staged
    BY <1>5 DEF ClearErase, Withdrawn
  <2>2. UNCHANGED <<installed, staged>> /\ Running' = NoImage
    BY <1>5 DEF ClearErase, BootError, Running, AppPcs
  <2> QED BY <1>1, <2>1, <2>2, Withdrawing
<1>6. CASE LoadMain
  <2>1. UNCHANGED <<installed, staged, param>>
    BY <1>6 DEF LoadMain
  <2>2. Running' \in {NoImage, installed} /\ Announced' = Announced
    BY <2>1 DEF Running, Announced, Announces
  <2> QED BY <1>1, <2>1, <2>2 DEF Mapped!Next, Mapped!vars, Mapped!Start
<1> QED BY <1>2, <1>3, <1>4, <1>5, <1>6 DEF Boot

\* The restart and the power supply.
LEMMA DownStep ==
    ASSUME Inv, Inv', Restart \/ PowerLoss \/ PowerOn
    PROVE  [Mapped!Next]_(Mapped!vars)
<1> USE DEF Inv, ghost, flash, ram
<1>1. UNCHANGED <<installed, staged>> /\ Running' = NoImage
  BY DEF Restart, PowerLoss, PowerOn, Running, AppPcs
<1>2. CASE Restart \/ PowerOn
  BY <1>1, <1>2, Announcing DEF Restart, PowerOn
<1>3. CASE PowerLoss
  <2>1. CASE param' = param \/ param \in {"idle", "blank"}
    BY <1>1, <2>1, Announcing DEF Announces
  <2>2. CASE param' # param /\ param \notin {"idle", "blank"}
    <3>1. ErasesParam \/ WritesParam
      BY <1>3, <2>2 DEF PowerLoss, CutParam
    <3>2. pc = "clear_erase"
      BY <2>2, <3>1 DEF ErasesParam, WritesParam, IInv, QuietUpload, Withdrawn
    <3>3. installed = staged /\ Running = NoImage
      BY <3>2 DEF Withdrawn, Running, AppPcs
    <3> QED BY <1>1, <3>3, Withdrawing
  <2> QED BY <2>1, <2>2
<1> QED BY <1>2, <1>3

\* Every step, in terms of what is announced and what runs.
LEMMA NextStep ==
    ASSUME Inv, Inv', [Next /\ ~tainted']_vars
    PROVE  [Mapped!Next]_(Mapped!vars)
<1>1. CASE UNCHANGED vars
  <2>1. UNCHANGED <<pc, installed, staged, param>>
    BY <1>1 DEF vars, ghost, flash
  <2> QED BY <2>1 DEF Mapped!vars, Announced, Announces, Running
<1>2. CASE Next
  BY <1>2, ApplicationStep, BootStep, DownStep DEF Next
<1> QED BY <1>1, <1>2

-------------------------------------------------------------------------------
(* The mapping of StoreSpec, which shows an image that is not whole as it is.  *)

\* Under Inv, what is announced and what runs is whole.
SeenWhole == /\ Announces(param) => SeenIn(newp, staged) = staged
             /\ pc \in AppPcs => SeenIn(main, installed) = installed

LEMMA Whole == Inv => SeenWhole
<1> SUFFICES ASSUME Inv PROVE SeenWhole
  OBVIOUS
<1>1. Announces(param) => Holds(newp, staged)
  BY DEF Inv, Withdrawn, Announces
<1>2. pc \in AppPcs => Holds(main, installed)
  BY IInvSafe DEF Inv, RunsWholeImage
<1> QED BY <1>1, <1>2 DEF SeenWhole, SeenIn

\* The device as delivered is FirmwareStore's: down, with an image, nothing staged.
LEMMA InitStore == Init => Store!Init
<1> SUFFICES ASSUME Init PROVE Store!Init
  OBVIOUS
<1>1. Inv
  BY InitInv
<1> QED BY <1>1 DEF Init, Store!Init, Announces, AppPcs, Inv, Withdrawn

\* Every step maps to a step of FirmwareStore, or to none.
LEMMA NextStore ==
    ASSUME Inv, Inv', [Next /\ ~tainted']_vars
    PROVE  [Store!Next]_(Store!vars)
<1>1. [Mapped!Next]_(Mapped!vars)
  BY NextStep
<1>2. /\ Announced = IF Announces(param) THEN SeenIn(newp, staged) ELSE NoImage
      /\ Running = IF pc \in AppPcs THEN SeenIn(main, installed) ELSE NoImage
  BY Whole DEF SeenWhole, Announced, Running
<1>3. /\ Announced' = (IF Announces(param) THEN SeenIn(newp, staged) ELSE NoImage)'
      /\ Running' = (IF pc \in AppPcs THEN SeenIn(main, installed) ELSE NoImage)'
  <2>1. SeenWhole'
    BY Whole, PTL
  <2> QED BY <2>1 DEF SeenWhole, Announced, Running
<1> QED
  BY <1>1, <1>2, <1>3
  DEF Mapped!Next, Mapped!vars, Mapped!Complete, Mapped!Announce, Mapped!Stop,
      Mapped!Install, Mapped!Withdraw, Mapped!Start, Store!Next, Store!vars,
      Store!Complete, Store!Announce, Store!Stop, Store!Install, Store!Withdraw,
      Store!Start

\* Firmware update without a taint does what FirmwareStore says: only whole images
\* run, and one is replaced only while the device is down, by the announced one.
THEOREM Implements == CleanSpec => StoreSpec
<1>1. Inv /\ [Next /\ ~tainted']_vars => Inv'
  BY NextInv
<1>2. Inv /\ Inv' /\ [Next /\ ~tainted']_vars => [Store!Next]_(Store!vars)
  BY NextStore
<1> QED BY InitInv, InitStore, <1>1, <1>2, PTL DEF CleanSpec, StoreSpec, Store!Spec
===============================================================================
