--------------------------- MODULE FrameBufferSafety ---------------------------
(***************************************************************************)
(* The safety of buffered playback of regular files (RegularRun), for every *)
(* buffer size, playlist and bound: FilesInv is inductive, and what the     *)
(* runs check of it follows.                                                *)
(***************************************************************************)
EXTENDS FrameBufferProofs

(* The steps that are left when nothing but regular files is played.       *)

MainStep == \/ \E s \in Sources : NextFile(s)
            \/ Finish \/ StartDecode \/ AwaitEnd \/ Shutdown \/ IdleQuit
SlotStep == AcquireSlot \/ FillSlot \/ PostFrame \/ LoadCount \/ StoreCount
PlayStep == TakeFrame \/ LookPlay \/ PlayFrame \/ FreeSlot
EndStep  == EndSetFree \/ EndSetFilled \/ EndResetFlags \/ EndSignal
RegularStep ==
  \/ MainStep \/ OpenFile \/ ResetDecoder
  \/ ReadMmap \/ NeedData \/ ReadHeader \/ SlotStep
  \/ PlayStep \/ LookEnd \/ EndStep

(* No signal is ever sent and no descriptor read, so the handlers, the     *)
(* reader of streams and the failing device have no step.                  *)
LEMMA OnlyRegularSteps ==
  ASSUME RegularRun, FilesInv, Next PROVE RegularStep
<1>1. pending = {} /\ ~fd /\ dpc # "release"
  BY Zenon DEF FilesInv, QuietInv
<1>2. "idlestop" \notin Events /\ "device" \notin Events /\ "sigint" \notin Events
  BY SMT DEF RegularRun
<1>3. ~Delivery
  BY <1>1, SMT DEF Delivery, SigintDecoder, Usr1Decoder, ChldDecoder, SigintOutput
<1>4. ~ReadFd /\ ~Release
  BY <1>1, Zenon DEF ReadFd, Release
<1>5. ~IdleStop /\ ~DeviceFails /\ ~UserSigint
  BY <1>2, Zenon DEF IdleStop, DeviceFails, UserSigint
<1>6. QED
  BY <1>3, <1>4, <1>5, Zenon DEF Next, Decoder, DecoderStep, Output, OutputStep,
     RegularStep, MainStep, SlotStep, PlayStep, EndStep

(* The ring as main makes it before the fork.                              *)
LEMMA FilesInit == Init => FilesInv
<1> SUFFICES ASSUME Init PROVE FilesInv
  OBVIOUS
<1>1. QuietInv
  BY SMT DEF Init, QuietInv, Running
<1>2. PhaseInv /\ CleanBetweenFiles
  BY RingFacts, SMT DEF Init, PhaseInv, CleanBetweenFiles, Clean, Ended, Ending, InitialTokens
<1>3. TokensConserved
  BY RingFacts, SMT DEF Init, TokensConserved, DecoderHolds, OutputHolds, InitialTokens
<1>4. RingInv
  BY SMT DEF Init, RingInv, Running
<1>5. QED
  BY <1>1, <1>2, <1>3, <1>4, Zenon DEF FilesInv

(* Nothing but a regular file reaches libmad, without a descriptor.        *)
LEMMA QuietOpenFile ==
  ASSUME RegularRun, TypeOK, FilesInv, OpenFile PROVE QuietInv'
<1>1. ~fallback /\ ~fd
  BY Zenon DEF FilesInv, QuietInv
<1>2. src.kind \in {"file", "bad", "missing"}
  BY Zenon DEF RegularRun, TypeOK, DataTypes
<1>3. src.kind # "fifo" /\ src.kind # "http" /\ src.kind # "stdin"
  BY <1>2, SMT
<1>4. ~fd' /\ ~fallback'
  <2>1. fallback' = fallback \/ fallback' = (fallback \/ src.kind = "fifo")
    BY Zenon DEF OpenFile
  <2>2. ~fallback'
    BY <2>1, <1>1, <1>3, Zenon
  <2>3. fd' = fallback' \/ fd' = fd
    BY <1>3, Zenon DEF OpenFile
  <2>4. QED
    BY <2>2, <2>3, <1>1, SMT
<1>5. ~isHttp'
  BY <1>3, Zenon DEF OpenFile, FilesInv, QuietInv
<1>6. dpc = "open" /\ dpc' \in {"start", "next", "out"} /\ (dpc' = "start" => src.kind = "file")
  BY <1>3, Zenon DEF OpenFile
<1>7. UNCHANGED <<semVars, done, stopShared, quitShared, src, pbDone, cur, pos, rewinding,
                  stopD, quitD, outVars, sigVars>>
  BY Zenon DEF OpenFile
<1>8. QED
  BY <1>4, <1>5, <1>6, <1>7, SMT DEF FilesInv, QuietInv, CleanBetweenFiles, Clean, Running,
     semVars, outVars, sigVars

(* After a rewind the decoder runs again over the same file.               *)
LEMMA QuietResetDecoder ==
  ASSUME RegularRun, TypeOK, FilesInv, ResetDecoder PROVE QuietInv'
<1>1. dpc = "reset" /\ ~fd /\ ~done' /\ ~isHttp'
  BY Zenon DEF ResetDecoder, FilesInv, QuietInv
<1>2. IF rewinding THEN dpc' = "input" ELSE dpc' = "next"
  BY <1>1, Zenon DEF ResetDecoder
<1>3. UNCHANGED <<stopShared, quitShared, fileVars, stopD, quitD, outVars, sigVars>>
  BY Zenon DEF ResetDecoder
<1>4. QED
  BY <1>1, <1>2, <1>3, SMT DEF FilesInv, QuietInv, Running, fileVars, sigVars, outVars

(* The ring while a command ends decoding.                                 *)
LEMMA RingHeaderCommand ==
  ASSUME RegularRun, TypeOK, FilesInv, HeaderCommand PROVE RingInv'
<1>1. dpc = "header" /\ pos < src.len /\ dpc' = "wait"
  BY Zenon DEF HeaderCommand
<1>2. UNCHANGED <<semVars, ringVars, src, pos, decPos, outVars, histVars>>
  BY Zenon DEF HeaderCommand
<1>3. QED
  BY <1>1, <1>2, SMT DEF FilesInv, RingInv, Running, LastPosted, Ended, Ending, Occupied,
     InFlight, InFlightSlot, semVars, ringVars, outVars, histVars
(* No stream, no signal, and no flag where it should not be.               *)
LEMMA QuietStep ==
  ASSUME RegularRun, TypeOK, FilesInv, RegularStep PROVE QuietInv'
<1> USE FrameBufferAssumption DEF FilesInv, TypeOK, DataTypes,
    QuietInv, PhaseInv, CleanBetweenFiles, Clean,
    Running, LastPosted, Ended, Ending, SourceType
<1> USE DEF semVars, ringVars, flagVars, fileVars, decVars, outVars, sigVars, histVars
<1>1. CASE MainStep
  BY <1>1, SMTT(60) DEF MainStep, NextFile, Finish, StartDecode, AwaitEnd, Shutdown, IdleQuit
<1>2. CASE OpenFile
  BY <1>2, QuietOpenFile
<1>3. CASE ResetDecoder
  BY <1>3, QuietResetDecoder
<1>4. CASE ReadMmap \/ NeedData
  BY <1>4, SMTT(60) DEF ReadMmap, NeedData
<1>5. CASE ReadHeader
  BY <1>5, SMTT(60) DEF ReadHeader, HeaderStopped, HeaderLimit, HeaderPassed, HeaderCommand,
     LoadCommand, StopCommand, QuitCommand, RewindCommand
<1>6. CASE SlotStep
  BY <1>6, SMTT(60) DEF SlotStep, AcquireSlot, FillSlot, PostFrame, LoadCount, StoreCount
<1>7. CASE PlayStep
  BY <1>7, SMTT(60) DEF PlayStep, TakeFrame, LookPlay, PlayFrame, FreeSlot
<1>8. CASE LookEnd
  BY <1>8, SMTT(60) DEF LookEnd
<1>9. CASE EndStep
  BY <1>9, SMTT(60) DEF EndStep, EndSetFree, EndSetFilled, EndResetFlags, EndSignal, ResetTokens
<1>10. QED
  BY <1>1, <1>2, <1>3, <1>4, <1>5, <1>6, <1>7, <1>8, <1>9, Zenon DEF RegularStep


(* The bound on N alone, for the provers of arithmetic.                    *)
LEMMA NIsNat == N \in Nat /\ N >= 2
BY FrameBufferAssumption

(* The slot k places behind outPos is a slot.                              *)
LEMMA SlotInRing ==
  ASSUME outPos \in Slots, NEW k \in 0 .. N - 1 PROVE InFlightSlot(k) \in Slots
BY NIsNat DEF Slots, InFlightSlot

(* Slots at different distances are different slots.                       *)
LEMMA SlotsDiffer ==
  ASSUME outPos \in Slots, NEW j \in 0 .. N - 1, NEW k \in 0 .. N - 1, j # k
  PROVE  InFlightSlot(j) # InFlightSlot(k)
BY NIsNat DEF Slots, InFlightSlot

(* getnext_place() leads from the slot k behind outPos to the next one.    *)
LEMMA NextSlot ==
  ASSUME outPos \in Slots, NEW k \in 0 .. N - 1, k + 1 \in 0 .. N - 1
  PROVE  GetNextPlace(InFlightSlot(k)) = InFlightSlot(k + 1)
BY NIsNat DEF Slots, InFlightSlot, GetNextPlace

(* While a file is decoded the occupied slots are fewer than N, and fewer  *)
(* than N-1 while the decoder holds a slot it has not filled.              *)
LEMMA OccupiedBound ==
  ASSUME TypeOK, FilesInv, ~Ending
  PROVE  /\ InFlight \in 0 .. N - 1
         /\ Occupied \in 0 .. N - 1
         /\ dpc = "fill" => Occupied + 1 \in 0 .. N - 1
BY NIsNat, SMT DEF TypeOK, DataTypes, FilesInv, TokensConserved, InFlight, Occupied, DecoderHolds,
   OutputHolds

(* The ring when the limit of -n ends decoding.                            *)
LEMMA RingHeaderLimit ==
  ASSUME TypeOK, FilesInv, HeaderLimit PROVE RingInv'
<1>1. dpc = "header" /\ pos < src.len /\ dpc' = "wait"
  BY Zenon DEF HeaderLimit
<1>2. UNCHANGED <<semVars, ringVars, src, pos, decPos, outVars, histVars>>
  BY SMT DEF HeaderLimit
<1>3. QED
  BY <1>1, <1>2, SMT DEF FilesInv, RingInv, Running, LastPosted, Ended, Ending, Occupied,
     InFlight, InFlightSlot, semVars, ringVars, outVars, histVars

(* The ring when the file is handed to libmad, for the first time, after a *)
(* rewind, or not any more.                                                *)
LEMMA RingReadMmap ==
  ASSUME TypeOK, FilesInv, ReadMmap PROVE RingInv'
<1>1. dpc = "input" /\ dpc' \in {"wait", "header"}
  BY Zenon DEF ReadMmap
<1>2. UNCHANGED <<semVars, ringVars, decPos, outVars, histVars>>
  BY SMT DEF ReadMmap
<1>3. CASE rewinding \/ ~pbDone
  <2>1. Clean
    BY <1>1, <1>3, SMT DEF FilesInv, PhaseInv
  <2>2. Occupied = 0 /\ Occupied' = 0
    BY <1>1, <1>2, <2>1, SMT DEF Occupied, InFlight, Clean, semVars, outVars
  <2>3. ~Ended
    BY <2>1, SMT DEF Ended, Ending, Clean
  <2>4. Running /\ InFlightSlot(0)' = InFlightSlot(0)
    BY <1>1, <1>2, SMT DEF Running, InFlightSlot, outVars
  <2>5. QED
    BY <1>1, <1>2, <2>2, <2>3, <2>4, NIsNat, SMT DEF FilesInv, RingInv, histVars
<1>4. CASE ~rewinding /\ pbDone
  <2>1. dpc' = "wait"
    BY <1>4, Zenon DEF ReadMmap
  <2>2. QED
    BY <1>1, <1>2, <2>1, SMT DEF FilesInv, RingInv, Running, LastPosted, Ended, Ending, Occupied,
     InFlight, InFlightSlot, semVars, ringVars, outVars, histVars
<1>5. QED
  BY <1>3, <1>4, Zenon

(* The ring when a rewound file starts over.                               *)
LEMMA RingResetDecoder ==
  ASSUME TypeOK, FilesInv, ResetDecoder PROVE RingInv'
<1>1. dpc = "reset" /\ decPos' = 0 /\ dpc' \in {"next", "input"}
  BY Zenon DEF ResetDecoder
<1>2. dpc' = "input" => runStart' = seq
  BY SMT DEF ResetDecoder
<1>3. UNCHANGED <<sem0, sem1, ringVars, outVars, seq, heard>>
  BY SMT DEF ResetDecoder
<1>4. Clean /\ heard <= seq /\ seq \in Nat /\ heard \in Nat
  BY <1>1, SMT DEF FilesInv, RingInv, CleanBetweenFiles, TypeOK, DataTypes
<1>5. Occupied' = 0 /\ InFlightSlot(0)' = 0
  BY <1>1, <1>3, <1>4, NIsNat, SMT DEF Occupied, InFlight, InFlightSlot, Clean, outVars
<1>6. QED
  BY <1>1, <1>2, <1>3, <1>4, <1>5, NIsNat, SMT DEF RingInv, Running

(* The token of a filled slot goes from the semaphore to the output.       *)
LEMMA RingTakeFrame ==
  ASSUME TypeOK, FilesInv, TakeFrame PROVE RingInv'
<1>1. opc = "wait" /\ opc' = "look" /\ sem1' = sem1 - 1
  BY Zenon DEF TakeFrame
<1>2. UNCHANGED <<sem2, ringVars, dpc, decPos, src, pos, outPos, histVars>>
  BY SMT DEF TakeFrame, decVars, fileVars
<1>3. InFlight' = InFlight /\ Occupied' = Occupied
  BY <1>1, <1>2, SMT DEF InFlight, Occupied, TypeOK, DataTypes
<1>4. \A k \in 0 .. N - 1 : InFlightSlot(k)' = InFlightSlot(k)
  BY <1>2, SMT DEF InFlightSlot
<1>5. Running' = Running /\ Ended' = Ended /\ LastPosted' = LastPosted
  BY <1>1, <1>2, SMT DEF Running, Ended, Ending, LastPosted
<1>6. ASSUME Running, ~Ended, NEW k \in 0 .. N - 1, k < Occupied
      PROVE  /\ data'[InFlightSlot(k)'] = (seq' - Occupied') + 1 + k
             /\ info'[InFlightSlot(k)'].frame = data'[InFlightSlot(k)']
             /\ info'[InFlightSlot(k)'].last =>
                  LastPosted' \/ (dpc' = "post" /\ pos' = src'.len /\ k = InFlight')
  BY <1>2, <1>3, <1>4, <1>5, <1>6, Zenon DEF FilesInv, RingInv, ringVars, histVars
<1>7. Running /\ ~Ended => /\ decPos' = InFlightSlot(Occupied)'
                           /\ seq' - Occupied' = IF heard' > runStart' THEN heard' ELSE runStart'
  BY <1>2, <1>3, SMT DEF FilesInv, RingInv, histVars, InFlightSlot
<1>8. QED
  BY <1>2, <1>3, <1>5, <1>6, <1>7, SMT DEF FilesInv, RingInv, ringVars, histVars

(* The token of a filled slot goes from the decoder to the semaphore.      *)
LEMMA RingPostFrame ==
  ASSUME TypeOK, FilesInv, PostFrame PROVE RingInv'
<1>1. dpc = "post" /\ dpc' = "count" /\ sem1' = sem1 + 1
  BY Zenon DEF PostFrame
<1>2. UNCHANGED <<sem2, ringVars, decPos, src, pos, outVars, histVars>>
  BY SMT DEF PostFrame, fileVars
<1>3. Occupied' = Occupied
  BY <1>1, <1>2, SMT DEF InFlight, Occupied, TypeOK, DataTypes, outVars
<1>4. \A k \in 0 .. N - 1 : InFlightSlot(k)' = InFlightSlot(k)
  BY <1>2, SMT DEF InFlightSlot, outVars
<1>5. Running /\ Ended' = Ended /\ (pos = src.len => LastPosted') /\ ~LastPosted
  BY <1>1, <1>2, SMT DEF Running, Ended, Ending, LastPosted, outVars
<1>6. ASSUME ~Ended, NEW k \in 0 .. N - 1, k < Occupied
      PROVE  /\ data'[InFlightSlot(k)'] = (seq' - Occupied') + 1 + k
             /\ info'[InFlightSlot(k)'].frame = data'[InFlightSlot(k)']
             /\ info'[InFlightSlot(k)'].last => LastPosted'
  BY <1>2, <1>3, <1>4, <1>5, <1>6, Zenon DEF FilesInv, RingInv, ringVars, histVars
<1>7. ~Ended => /\ decPos' = InFlightSlot(Occupied)'
                /\ seq' - Occupied' = IF heard' > runStart' THEN heard' ELSE runStart'
  BY <1>2, <1>3, <1>5, SMT DEF FilesInv, RingInv, histVars, InFlightSlot, outVars
<1>8. QED
  BY <1>1, <1>2, <1>3, <1>5, <1>6, <1>7, SMT DEF FilesInv, RingInv, ringVars, histVars

(* The slot filled is behind all others, and not one of them.              *)
LEMMA RingFillSlot ==
  ASSUME TypeOK, FilesInv, FillSlot PROVE RingInv'
<1>1. dpc = "fill" /\ dpc' = "post" /\ decPos' = GetNextPlace(decPos)
      /\ data' = [data EXCEPT ![decPos] = seq + 1] /\ seq' = seq + 1
  BY Zenon DEF FillSlot
<1>2. UNCHANGED <<semVars, info, src, pos, outVars, runStart, heard>>
  BY SMT DEF FillSlot, fileVars
<1>3. Running /\ ~LastPosted /\ ~Ended
  BY <1>1, SMT DEF Running, LastPosted, FilesInv, PhaseInv
<1>4. ~Ending
  BY <1>3, Zenon DEF Ended
<1>5. Occupied = InFlight /\ Occupied' = InFlight + 1 /\ InFlight' = InFlight
  BY <1>1, <1>2, <1>4, OccupiedBound, SMT DEF Occupied, InFlight, semVars, outVars
<1>6. /\ InFlight \in 0 .. N - 1 /\ InFlight + 1 \in 0 .. N - 1
  BY <1>1, <1>4, <1>5, OccupiedBound, SMT
<1>7. \A k \in 0 .. N - 1 : InFlightSlot(k)' = InFlightSlot(k)
  BY <1>2, SMT DEF InFlightSlot, outVars
<1>8. decPos = InFlightSlot(InFlight) /\ decPos' = InFlightSlot(InFlight + 1)
  BY <1>1, <1>3, <1>5, <1>6, NextSlot, SMT DEF FilesInv, RingInv, TypeOK, DataTypes
<1>9. data'[decPos] = seq + 1 /\ info'[decPos].frame = seq + 1
      /\ (info'[decPos].last => pos' = src'.len)
  BY <1>1, <1>2, SMT DEF FilesInv, RingInv, TypeOK, DataTypes
<1>10. ASSUME NEW k \in 0 .. N - 1, k < InFlight
       PROVE  /\ data'[InFlightSlot(k)] = (seq - InFlight) + 1 + k
              /\ info'[InFlightSlot(k)].frame = data'[InFlightSlot(k)]
              /\ ~info'[InFlightSlot(k)].last
  <2>1. InFlightSlot(k) # decPos /\ InFlightSlot(k) \in Slots
    BY <1>6, <1>8, <1>10, SlotsDiffer, SlotInRing, SMT DEF TypeOK, DataTypes
  <2>2. data'[InFlightSlot(k)] = data[InFlightSlot(k)]
    BY <1>1, <2>1, SMT DEF TypeOK, DataTypes
  <2>3. QED
    BY <1>1, <1>2, <1>3, <1>5, <1>10, <2>2, SMT DEF FilesInv, RingInv
<1>11. seq - InFlight = IF heard > runStart THEN heard ELSE runStart
  BY <1>3, <1>5, SMT DEF FilesInv, RingInv
<1>12. ASSUME NEW k \in 0 .. N - 1, k < Occupied'
       PROVE  /\ data'[InFlightSlot(k)'] = (seq' - Occupied') + 1 + k
              /\ info'[InFlightSlot(k)'].frame = data'[InFlightSlot(k)']
              /\ info'[InFlightSlot(k)'].last => dpc' = "post" /\ pos' = src'.len /\ k = InFlight'
  <2>1. CASE k < InFlight
    BY <1>1, <1>5, <1>6, <1>7, <1>10, <2>1, SMT DEF TypeOK, DataTypes
  <2>2. CASE k = InFlight
    BY <1>1, <1>5, <1>6, <1>7, <1>8, <1>9, <2>2, SMT DEF TypeOK, DataTypes
  <2>3. QED
    BY <1>5, <1>6, <1>12, <2>1, <2>2, SMT
<1>13. QED
  BY <1>1, <1>2, <1>5, <1>6, <1>7, <1>8, <1>11, <1>12, NIsNat, SMT DEF RingInv, FilesInv, TypeOK, DataTypes

(* The header part is written to a slot that is not occupied, and          *)
(* num_frames = 0 in it means the last frame of the file.                  *)
LEMMA RingHeaderPassed ==
  ASSUME RegularRun, TypeOK, FilesInv, HeaderPassed PROVE RingInv'
<1>1. dpc = "header" /\ pos < src.len /\ pos' = pos + 1 /\ dpc' \in {"header", "acquire"}
  BY Zenon DEF HeaderPassed
<1>2. UNCHANGED <<semVars, data, src, decPos, outVars, histVars>>
  BY SMT DEF HeaderPassed
<1>3. \/ UNCHANGED info /\ dpc' = "header"
      \/ \E r \in InfoType : /\ info' = [info EXCEPT ![decPos] = r]
                             /\ r.frame = seq + 1 /\ (r.last => src.est = cur + 1)
  <2>1. CASE UNCHANGED <<dpc, info, rewinding>>
    BY <2>1, Zenon DEF HeaderPassed
  <2>2. ASSUME NEW t \in BOOLEAN,
               info' = [info EXCEPT ![decPos] =
                         [frame |-> seq + 1,
                          last  |-> src.est = cur + 1,
                          tail  |-> IF isFile THEN t ELSE @.tail]]
        PROVE  \E r \in InfoType : /\ info' = [info EXCEPT ![decPos] = r]
                                   /\ r.frame = seq + 1 /\ (r.last => src.est = cur + 1)
    <3> DEFINE new == [frame |-> seq + 1, last |-> src.est = cur + 1,
                       tail |-> IF isFile THEN t ELSE info[decPos].tail]
    <3>1. info[decPos] \in InfoType
      BY Zenon DEF TypeOK, DataTypes
    <3>2. (IF isFile THEN t ELSE info[decPos].tail) \in BOOLEAN
      BY <3>1, Zenon DEF InfoType
    <3>3. (src.est = cur + 1) \in BOOLEAN /\ seq + 1 \in Nat
      BY SMT DEF TypeOK, DataTypes
    <3>4. new \in InfoType /\ new.frame = seq + 1 /\ (new.last => src.est = cur + 1)
      BY <3>2, <3>3, Zenon DEF InfoType
    <3>5. info' = [info EXCEPT ![decPos] = new]
      BY <2>2, Zenon
    <3> HIDE DEF new
    <3>6. QED
      BY <3>4, <3>5, Zenon
  <2>3. QED
    BY <2>1, <2>2, Zenon DEF HeaderPassed
<1>4. Running /\ Running' /\ ~LastPosted /\ ~Ended /\ ~Ended' /\ ~Ending
  <2>1. ~LastPosted /\ ~Ended
    BY <1>1, SMT DEF LastPosted, FilesInv, PhaseInv, TypeOK, DataTypes
  <2>2. QED
    BY <1>1, <1>2, <2>1, SMT DEF Running, Ended, Ending, semVars, outVars
<1>5. Occupied = InFlight /\ Occupied' = InFlight /\ InFlight \in 0 .. N - 1
  BY <1>1, <1>2, <1>4, OccupiedBound, SMT DEF Occupied, InFlight, semVars, outVars
<1>6. \A k \in 0 .. N - 1 : InFlightSlot(k)' = InFlightSlot(k)
  BY <1>2, SMT DEF InFlightSlot, outVars
<1>7. decPos = InFlightSlot(InFlight)
  BY <1>4, <1>5, SMT DEF FilesInv, RingInv
<1>8. src.est = cur + 1 => pos' = src.len
  <2>1. src \in Sources /\ src.kind = "file"
    BY <1>4, SMT DEF FilesInv, QuietInv, TypeOK, DataTypes
  <2>2. src.est >= src.len /\ src.len \in Nat /\ src.est \in Nat
    BY <2>1, FrameBufferAssumption, SMT DEF RegularRun, SourceType
  <2>3. QED
    BY <1>1, <2>2, SMT DEF FilesInv, QuietInv, TypeOK, DataTypes
<1>9. ASSUME NEW k \in 0 .. N - 1, k < InFlight
      PROVE  info'[InFlightSlot(k)] = info[InFlightSlot(k)] /\ ~info[InFlightSlot(k)].last
  <2>1. InFlightSlot(k) # decPos /\ InFlightSlot(k) \in Slots
    BY <1>5, <1>7, <1>9, SlotsDiffer, SlotInRing, SMT DEF TypeOK, DataTypes
  <2>2. info'[InFlightSlot(k)] = info[InFlightSlot(k)]
    BY <1>3, <2>1, SMT DEF TypeOK, DataTypes
  <2>3. QED
    BY <1>1, <1>4, <1>5, <1>9, <2>2, SMT DEF FilesInv, RingInv
<1>10. dpc' = "acquire" => info'[decPos].frame = seq + 1
                           /\ (info'[decPos].last => pos' = src.len)
  BY <1>1, <1>3, <1>8, SMT DEF TypeOK, DataTypes
<1>11. ASSUME NEW k \in 0 .. N - 1, k < InFlight
      PROVE  /\ data'[InFlightSlot(k)'] = (seq' - Occupied') + 1 + k
             /\ info'[InFlightSlot(k)'].frame = data'[InFlightSlot(k)']
             /\ ~info'[InFlightSlot(k)'].last
  BY <1>2, <1>4, <1>5, <1>6, <1>9, <1>11, SMT DEF FilesInv, RingInv, histVars
<1>12. QED
  BY <1>1, <1>2, <1>4, <1>5, <1>6, <1>7, <1>10, <1>11, NIsNat, SMT DEF RingInv, FilesInv, histVars

(* The output holds a frame only while a file is decoded.                  *)
LEMMA PlayedFrame ==
  ASSUME TypeOK, FilesInv, opc \in {"look", "play"}
  PROVE  /\ Running /\ InFlight > 0 /\ Occupied > 0 /\ Occupied \in 0 .. N - 1
         /\ InFlightSlot(0) = outPos
<1>1. ~Ending /\ InFlight > 0 /\ InFlightSlot(0) = outPos
  BY NIsNat, SMT DEF Ending, InFlight, InFlightSlot, TypeOK, DataTypes, Slots
<1>2. Running
  BY SMT DEF Running, FilesInv, PhaseInv, QuietInv, CleanBetweenFiles, Clean, TypeOK, DataTypes,
     DecoderPCs
<1>3. QED
  BY <1>1, <1>2, OccupiedBound, SMT DEF Occupied

(* The frame played is the next one to be heard.                           *)
LEMMA RingPlayFrame ==
  ASSUME TypeOK, FilesInv, PlayFrame PROVE RingInv'
<1>1. opc = "play" /\ opc' = "free" /\ heard' = data[outPos] /\ outPos' = GetNextPlace(outPos)
  BY Zenon DEF PlayFrame
<1>2. UNCHANGED <<semVars, ringVars, src, pos, dpc, decPos, seq, runStart>>
  BY SMT DEF PlayFrame, fileVars, decVars
<1>3. ~Ended /\ Running /\ Running' /\ (LastPosted' <=> LastPosted)
  BY <1>1, <1>2, PlayedFrame, SMT DEF Ended, Ending, FilesInv, PhaseInv, Running, LastPosted
<1>4. Occupied \in 1 .. N - 1 /\ InFlight \in Nat
  BY <1>1, PlayedFrame, SMT DEF InFlight, TypeOK, DataTypes
<1>5. InFlight' = InFlight - 1 /\ Occupied' = Occupied - 1
  BY <1>1, <1>2, SMT DEF InFlight, Occupied, TypeOK, DataTypes, semVars
<1>6. \A k \in 0 .. N - 1 : k + 1 \in 0 .. N - 1 => InFlightSlot(k)' = InFlightSlot(k + 1)
  BY <1>1, NIsNat, SMT DEF InFlightSlot, GetNextPlace, Slots, TypeOK, DataTypes
<1>7. heard' = (seq - Occupied) + 1 /\ seq - Occupied >= runStart
  <2>1. data[InFlightSlot(0)] = (seq - Occupied) + 1 + 0
    BY <1>3, <1>4, NIsNat, SMT DEF FilesInv, RingInv
  <2>2. seq - Occupied = IF heard > runStart THEN heard ELSE runStart
    BY <1>3, SMT DEF FilesInv, RingInv
  <2>3. QED
    BY <1>1, <1>4, <2>1, <2>2, PlayedFrame, SMT DEF TypeOK, DataTypes
<1>8. seq' - Occupied' = IF heard' > runStart' THEN heard' ELSE runStart'
  BY <1>2, <1>4, <1>5, <1>7, SMT DEF TypeOK, DataTypes
<1>9. decPos' = InFlightSlot(Occupied)'
  <2>1. decPos = InFlightSlot(Occupied)
    BY <1>3, Zenon DEF FilesInv, RingInv
  <2>2. (InFlightSlot(Occupied))' = InFlightSlot((Occupied - 1) + 1)
    BY <1>1, <1>4, <1>5, NIsNat, SMT DEF InFlightSlot, GetNextPlace, Slots, TypeOK, DataTypes
  <2>3. QED
    BY <1>2, <1>4, <2>1, <2>2, SMT
<1>10. ASSUME NEW k \in 0 .. N - 1, k < Occupied'
       PROVE  /\ data'[InFlightSlot(k)'] = (seq' - Occupied') + 1 + k
              /\ info'[InFlightSlot(k)'].frame = data'[InFlightSlot(k)']
              /\ info'[InFlightSlot(k)'].last =>
                   LastPosted' \/ (dpc' = "post" /\ pos' = src'.len /\ k = InFlight')
  <2>1. k + 1 \in 0 .. N - 1 /\ k + 1 < Occupied
    BY <1>4, <1>5, <1>10, NIsNat, SMT
  <2>2. InFlightSlot(k)' = InFlightSlot(k + 1)
    BY <1>6, <2>1
  <2>3. /\ data[InFlightSlot(k + 1)] = (seq - Occupied) + 1 + (k + 1)
        /\ info[InFlightSlot(k + 1)].frame = data[InFlightSlot(k + 1)]
        /\ info[InFlightSlot(k + 1)].last =>
             LastPosted \/ (dpc = "post" /\ pos = src.len /\ k + 1 = InFlight)
    BY <1>3, <2>1, Zenon DEF FilesInv, RingInv
  <2>4. (seq' - Occupied') + 1 + k = (seq - Occupied) + 1 + (k + 1)
    BY <1>2, <1>4, <1>5, SMT DEF TypeOK, DataTypes
  <2>5. k + 1 = InFlight => k = InFlight'
    BY <1>4, <1>5, SMT
  <2>6. data' = data /\ info' = info /\ dpc' = dpc /\ pos' = pos /\ src' = src
    BY <1>2, SMT DEF ringVars
  <2>7. QED
    BY <1>3, <2>2, <2>3, <2>4, <2>5, <2>6, Zenon
<1>11. heard' <= seq'
  BY <1>2, <1>4, <1>7, SMT DEF TypeOK, DataTypes
<1>12. dpc' \in {"acquire", "fill"} => info'[decPos'].frame = seq' + 1
                                       /\ (info'[decPos'].last => pos' = src'.len)
  BY <1>2, SMT DEF FilesInv, RingInv, ringVars
<1>13. QED
  BY <1>3, <1>8, <1>9, <1>10, <1>11, <1>12, Zenon DEF RingInv

(* What ends the file for the output can only be seen once the decoder has *)
(* posted its last frame.                                                  *)
LEMMA EndIsLastPosted ==
  ASSUME TypeOK, FilesInv, opc = "look", EndOfFile PROVE LastPosted
<1>1. Running /\ 0 < InFlight /\ 0 < Occupied /\ InFlightSlot(0) = outPos /\ ~Ended
  BY PlayedFrame, SMT DEF Ended, Ending, FilesInv, PhaseInv
<1>2. ASSUME info[outPos].last PROVE LastPosted
  BY <1>1, <1>2, NIsNat, SMT DEF FilesInv, RingInv
<1>3. ASSUME EndRequested PROVE LastPosted
  <2>1. dpc = "wait"
    BY <1>1, <1>3, SMT DEF EndRequested, FilesInv, QuietInv, Running
  <2>2. QED
    BY <2>1 DEF LastPosted
<1>4. ASSUME done PROVE LastPosted
  <2>1. dpc = "wait"
    BY <1>1, <1>4, SMT DEF FilesInv, QuietInv, Running
  <2>2. QED
    BY <2>1 DEF LastPosted
<1>5. QED
  BY <1>2, <1>3, <1>4, Zenon DEF EndOfFile, FileTail, FileDrained

(* The output starts the end of a file after the decoder's last post.      *)
LEMMA PhaseLookEnd ==
  ASSUME TypeOK, FilesInv, LookEnd PROVE PhaseInv'
<1>1. LastPosted /\ opc = "look" /\ opc' = "set0"
  BY EndIsLastPosted, Zenon DEF LookEnd
<1>2. UNCHANGED <<semVars, dpc, src, pos, rewinding, pbDone, outPos, played>>
  BY SMT DEF LookEnd, fileVars, decVars
<1>3. QED
  BY <1>1, <1>2, SMT DEF FilesInv, PhaseInv, LastPosted, Ended, Ending, Clean, semVars
(* The rendezvous goes through its stages.                                 *)
LEMMA PhaseStep ==
  ASSUME RegularRun, TypeOK, FilesInv, RegularStep PROVE PhaseInv'
<1> USE FrameBufferAssumption DEF FilesInv, TypeOK, DataTypes,
    QuietInv, PhaseInv, TokensConserved, CleanBetweenFiles, Clean,
    DecoderHolds, OutputHolds, Running, LastPosted, Ended, Ending
<1> USE DEF semVars, ringVars, flagVars, fileVars, decVars, outVars, sigVars, histVars
<1>1. CASE MainStep
  BY <1>1, SMTT(60) DEF MainStep, NextFile, Finish, StartDecode, AwaitEnd, Shutdown, IdleQuit
<1>2. CASE OpenFile
  BY <1>2, SMTT(60) DEF OpenFile
<1>3. CASE ResetDecoder
  BY <1>3, SMTT(60) DEF ResetDecoder
<1>4. CASE ReadMmap \/ NeedData
  BY <1>4, SMTT(60) DEF ReadMmap, NeedData
<1>5. CASE ReadHeader
  BY <1>5, SMTT(60) DEF ReadHeader, HeaderStopped, HeaderLimit, HeaderPassed, HeaderCommand,
     LoadCommand, StopCommand, QuitCommand, RewindCommand
<1>6. CASE SlotStep
  BY <1>6, SMTT(60) DEF SlotStep, AcquireSlot, FillSlot, PostFrame, LoadCount, StoreCount
<1>7. CASE PlayStep
  BY <1>7, SMTT(60) DEF PlayStep, TakeFrame, LookPlay, PlayFrame, FreeSlot
<1>8. CASE LookEnd
  BY <1>8, PhaseLookEnd
<1>9. CASE EndStep
  BY <1>9, SMTT(60) DEF EndStep, EndSetFree, EndSetFilled, EndResetFlags, EndSignal, ResetTokens
<1>10. QED
  BY <1>1, <1>2, <1>3, <1>4, <1>5, <1>6, <1>7, <1>8, <1>9, Zenon DEF RegularStep

(* No token is lost or invented.                                           *)
LEMMA TokensStep ==
  ASSUME RegularRun, TypeOK, FilesInv, RegularStep PROVE TokensConserved'
<1> USE FrameBufferAssumption DEF FilesInv, TypeOK, DataTypes,
    QuietInv, PhaseInv, TokensConserved, CleanBetweenFiles, Clean,
    DecoderHolds, OutputHolds, Running, LastPosted, Ended, Ending
<1> USE DEF semVars, ringVars, flagVars, fileVars, decVars, outVars, sigVars, histVars
<1>1. CASE MainStep
  BY <1>1, SMTT(60) DEF MainStep, NextFile, Finish, StartDecode, AwaitEnd, Shutdown, IdleQuit
<1>2. CASE OpenFile
  BY <1>2, SMTT(60) DEF OpenFile
<1>3. CASE ResetDecoder
  BY <1>3, SMTT(60) DEF ResetDecoder
<1>4. CASE ReadMmap \/ NeedData
  BY <1>4, SMTT(60) DEF ReadMmap, NeedData
<1>5. CASE ReadHeader
  BY <1>5, SMTT(60) DEF ReadHeader, HeaderStopped, HeaderLimit, HeaderPassed, HeaderCommand,
     LoadCommand, StopCommand, QuitCommand, RewindCommand
<1>6. CASE SlotStep
  BY <1>6, SMTT(60) DEF SlotStep, AcquireSlot, FillSlot, PostFrame, LoadCount, StoreCount
<1>7. CASE PlayStep
  BY <1>7, SMTT(60) DEF PlayStep, TakeFrame, LookPlay, PlayFrame, FreeSlot
<1>8. CASE LookEnd
  BY <1>8, SMTT(60) DEF LookEnd
<1>9. CASE EndStep
  BY <1>9, SMTT(60) DEF EndStep, EndSetFree, EndSetFilled, EndResetFlags, EndSignal, ResetTokens
<1>10. QED
  BY <1>1, <1>2, <1>3, <1>4, <1>5, <1>6, <1>7, <1>8, <1>9, Zenon DEF RegularStep

(* The ring is clean between files.                                        *)
LEMMA CleanStep ==
  ASSUME RegularRun, TypeOK, FilesInv, RegularStep PROVE CleanBetweenFiles'
<1> USE FrameBufferAssumption DEF FilesInv, TypeOK, DataTypes,
    QuietInv, PhaseInv, TokensConserved, CleanBetweenFiles, Clean,
    DecoderHolds, OutputHolds, Running, LastPosted, Ended, Ending
<1> USE DEF semVars, ringVars, flagVars, fileVars, decVars, outVars, sigVars, histVars
<1>1. CASE MainStep
  BY <1>1, SMTT(60) DEF MainStep, NextFile, Finish, StartDecode, AwaitEnd, Shutdown, IdleQuit
<1>2. CASE OpenFile
  BY <1>2, SMTT(60) DEF OpenFile
<1>3. CASE ResetDecoder
  BY <1>3, SMTT(60) DEF ResetDecoder
<1>4. CASE ReadMmap \/ NeedData
  BY <1>4, SMTT(60) DEF ReadMmap, NeedData
<1>5. CASE ReadHeader
  BY <1>5, SMTT(60) DEF ReadHeader, HeaderStopped, HeaderLimit, HeaderPassed, HeaderCommand,
     LoadCommand, StopCommand, QuitCommand, RewindCommand
<1>6. CASE SlotStep
  BY <1>6, SMTT(60) DEF SlotStep, AcquireSlot, FillSlot, PostFrame, LoadCount, StoreCount
<1>7. CASE PlayStep
  BY <1>7, SMTT(60) DEF PlayStep, TakeFrame, LookPlay, PlayFrame, FreeSlot
<1>8. CASE LookEnd
  BY <1>8, SMTT(60) DEF LookEnd
<1>9. CASE EndStep
  BY <1>9, SMTT(60) DEF EndStep, EndSetFree, EndSetFilled, EndResetFlags, EndSignal, ResetTokens
<1>10. QED
  BY <1>1, <1>2, <1>3, <1>4, <1>5, <1>6, <1>7, <1>8, <1>9, Zenon DEF RegularStep

(* The ring holds the frames in order.                                     *)
LEMMA RingStep ==
  ASSUME RegularRun, TypeOK, FilesInv, RegularStep PROVE RingInv'
<1> USE NIsNat DEF FilesInv, TypeOK, DataTypes, QuietInv, PhaseInv, CleanBetweenFiles, Clean,
    RingInv, Occupied, InFlight, InFlightSlot, Running, LastPosted, Ended, Ending,
    semVars, ringVars, flagVars, fileVars, decVars, outVars, sigVars, histVars
<1>1. CASE MainStep
  BY <1>1, SMTT(60) DEF MainStep, NextFile, Finish, StartDecode, AwaitEnd, Shutdown, IdleQuit
<1>2. CASE OpenFile
  BY <1>2, SMTT(60) DEF OpenFile
<1>3. CASE NeedData \/ HeaderStopped
  BY <1>3, SMTT(60) DEF NeedData, HeaderStopped
<1>4. CASE AcquireSlot \/ LoadCount \/ StoreCount
  BY <1>4, SMTT(60) DEF AcquireSlot, LoadCount, StoreCount
<1>5. CASE LookPlay \/ FreeSlot \/ LookEnd
  BY <1>5, SMTT(60) DEF LookPlay, FreeSlot, LookEnd
<1>6. CASE EndStep
  BY <1>6, SMTT(60) DEF EndStep, EndSetFree, EndSetFilled, EndResetFlags, EndSignal
<1>7. QED
  BY <1>1, <1>2, <1>3, <1>4, <1>5, <1>6, RingResetDecoder, RingReadMmap, RingHeaderCommand,
     RingHeaderLimit, RingHeaderPassed, RingFillSlot, RingPostFrame, RingTakeFrame, RingPlayFrame,
     Zenon DEF RegularStep, ReadHeader, SlotStep, PlayStep

(* Every step keeps all of them together.                                  *)
LEMMA FilesStep ==
  ASSUME RegularRun, TypeOK, FilesInv, [Next]_vars PROVE FilesInv'
<1>1. CASE Next
  BY <1>1, OnlyRegularSteps, QuietStep, PhaseStep, TokensStep, CleanStep, RingStep, Zenon DEF FilesInv
<1>2. CASE UNCHANGED vars
  BY <1>2, SMT DEF vars, FilesInv, QuietInv, PhaseInv, TokensConserved, CleanBetweenFiles, Clean,
     RingInv, Occupied, InFlight, InFlightSlot, Running, LastPosted, Ended, Ending, DecoderHolds,
     OutputHolds
<1>3. QED
  BY <1>1, <1>2

(* The invariant holds in every run with regular files only, whatever the  *)
(* remote shell, seeks and corrupt frames do to decoding.                  *)
THEOREM FilesCorrect == ASSUME RegularRun PROVE Spec => []FilesInv
<1>1. Init => FilesInv
  BY FilesInit
<1>2. TypeOK /\ FilesInv /\ [Next]_vars => FilesInv'
  BY FilesStep
<1>3. QED
  BY <1>1, <1>2, TypeCorrect, PTL DEF Spec

(* What the ring invariant says of single slots.                           *)
LEMMA SafeSlots ==
  ASSUME TypeOK, FilesInv PROVE SlotExclusive /\ HeaderMatchesFrame /\ ResetAfterLastPost
<1>1. SlotExclusive
  <2> SUFFICES ASSUME dpc \in {"header", "acquire", "fill"}, opc \in {"look", "play"}
               PROVE  decPos # outPos
    BY Zenon DEF SlotExclusive
  <2>1. ~Ended /\ Running
    BY PlayedFrame, SMT DEF Ended, Ending, FilesInv, PhaseInv
  <2>2. decPos = InFlightSlot(Occupied) /\ 0 \in 0 .. N - 1 /\ Occupied # 0
    BY <2>1, PlayedFrame, NIsNat, SMT DEF FilesInv, RingInv
  <2>3. QED
    BY <2>2, PlayedFrame, SlotsDiffer, SMT DEF TypeOK, DataTypes
<1>2. HeaderMatchesFrame
  <2> SUFFICES ASSUME ~Ending, NEW k \in 0 .. N - 1, k < InFlight
               PROVE  info[InFlightSlot(k)].frame = data[InFlightSlot(k)]
    BY Zenon DEF HeaderMatchesFrame
  <2>1. ~Ended /\ Running
    BY SMT DEF Ended, Ending, InFlight, Running, FilesInv, QuietInv, PhaseInv, CleanBetweenFiles, Clean,
       TypeOK, DataTypes, DecoderPCs
  <2>2. k < Occupied
    BY OccupiedBound, SMT DEF Occupied
  <2>3. QED
    BY <2>1, <2>2, Zenon DEF FilesInv, RingInv
<1>3. ResetAfterLastPost
  BY Zenon DEF ResetAfterLastPost, FilesInv, PhaseInv, Ended, LastPosted
<1>4. QED
  BY <1>1, <1>2, <1>3

(* No token of the free and filled slots is lost or invented (main's and   *)
(* frame_buffer_p's SETVALs, output()'s and the child's semop()s).         *)
THEOREM TokensSafe == ASSUME RegularRun PROVE Spec => []TokensConserved
<1>1. FilesInv => TokensConserved
  BY DEF FilesInv
<1>2. QED
  BY <1>1, FilesCorrect, PTL

(* read_header() and output() never write the slot the output reads, every *)
(* frame keeps its own header, and the output's reset comes after the      *)
(* decoder's last post.                                                    *)
THEOREM SlotsSafe ==
  ASSUME RegularRun PROVE Spec => [](SlotExclusive /\ HeaderMatchesFrame /\ ResetAfterLastPost)
<1>1. TypeOK /\ FilesInv => SlotExclusive /\ HeaderMatchesFrame /\ ResetAfterLastPost
  BY SafeSlots
<1>2. QED
  BY <1>1, TypeCorrect, FilesCorrect, PTL

(* main finds the ring between two files as it made it.                    *)
THEOREM NextFileClean == ASSUME RegularRun PROVE Spec => []CleanBetweenFiles
<1>1. FilesInv => CleanBetweenFiles
  BY DEF FilesInv
<1>2. QED
  BY <1>1, FilesCorrect, PTL

(* Only ao_play() lets the output go on to free a slot, and it plays the   *)
(* first of the occupied ones.                                             *)
LEMMA HeardStep ==
  ASSUME RegularRun, TypeOK, FilesInv, [Next]_vars, opc = "play", opc' = "free"
  PROVE  heard' = IF heard > runStart THEN heard + 1 ELSE runStart + 1
<1>1. PlayFrame
  <2>1. Next
    BY SMT DEF vars
  <2>2. RegularStep
    BY <2>1, OnlyRegularSteps
  <2> USE DEF semVars, ringVars, flagVars, fileVars, decVars, outVars, sigVars, histVars
  <2>3. QED
    BY <2>2, SMTT(60) DEF RegularStep, MainStep, NextFile, Finish, StartDecode, AwaitEnd, Shutdown, IdleQuit,
      OpenFile, ResetDecoder, ReadMmap, NeedData, ReadHeader, HeaderStopped, HeaderCommand, HeaderLimit,
      HeaderPassed, SlotStep, AcquireSlot, FillSlot, PostFrame, LoadCount, StoreCount, PlayStep, TakeFrame,
      LookPlay, FreeSlot, LookEnd, EndStep, EndSetFree, EndSetFilled, EndResetFlags, EndSignal
<1>2. heard' = data[outPos] /\ ~Ended
  BY <1>1, SMT DEF PlayFrame, Ended, Ending, FilesInv, PhaseInv
<1>3. data[outPos] = (seq - Occupied) + 1 + 0
  BY <1>2, PlayedFrame, NIsNat, SMT DEF FilesInv, RingInv
<1>4. seq - Occupied = IF heard > runStart THEN heard ELSE runStart
  BY <1>2, PlayedFrame, SMT DEF FilesInv, RingInv
<1>5. QED
  BY <1>2, <1>3, <1>4, SMT DEF TypeOK, DataTypes

(* Frames are heard in the order they were decoded, without a gap.         *)
THEOREM OrderSafe == ASSUME RegularRun PROVE Spec => HeardInOrder
<1>1. TypeOK /\ FilesInv /\ [Next]_vars =>
        [opc = "play" /\ opc' = "free"
           => heard' = IF heard > runStart THEN heard + 1 ELSE runStart + 1]_vars
  BY HeardStep
<1>2. QED
  BY <1>1, TypeCorrect, FilesCorrect, PTL DEF Spec, HeardInOrder
===============================================================================
