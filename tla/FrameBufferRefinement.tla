------------------------- MODULE FrameBufferRefinement -------------------------
(***************************************************************************)
(* FrameBuffer implements PlaybackQueue when regular files are played: the *)
(* two processes and their ring are a bounded queue of frames.             *)
(***************************************************************************)
EXTENDS FrameBufferSafety, SequenceTheorems

(* The queue of PlaybackQueue, its next frame and whether it is closed, as *)
(* the instance in FrameBuffer substitutes them.                           *)
NextFrame == IF dpc = "post" THEN seq ELSE seq + 1

(* The queue is a sequence of the frames in the occupied slots that the    *)
(* decoder has posted.                                                     *)
LEMMA QueueIsSeq ==
  ASSUME TypeOK, FilesInv
  PROVE  /\ Queued \in Seq(Nat)
         /\ Ending => Queued = <<>>
         /\ ~Ending => /\ InFlight \in 0 .. N - 1
                       /\ Len(Queued) = InFlight
                       /\ \A k \in 1 .. InFlight : Queued[k] = data[InFlightSlot(k - 1)]
<1>1. CASE Ending
  BY <1>1, SMT DEF Queued
<1>2. CASE ~Ending
  <2>1. InFlight \in 0 .. N - 1
    BY <1>2, OccupiedBound
  <2>2. \A k \in 1 .. InFlight : data[InFlightSlot(k - 1)] \in Nat
    <3> SUFFICES ASSUME NEW k \in 1 .. InFlight PROVE data[InFlightSlot(k - 1)] \in Nat
      OBVIOUS
    <3>1. k - 1 \in 0 .. N - 1
      BY <2>1, NIsNat, SMT
    <3>2. InFlightSlot(k - 1) \in Slots
      BY <3>1, SlotInRing DEF TypeOK, DataTypes
    <3>3. QED
      BY <3>2 DEF TypeOK, DataTypes
  <2> DEFINE q == [k \in 1 .. InFlight |-> data[InFlightSlot(k - 1)]]
  <2>3. q \in Seq(Nat) /\ Len(q) = InFlight
    BY <2>1, <2>2, SMT
  <2>4. Queued = q
    BY <1>2 DEF Queued
  <2>5. QED
    BY <1>2, <2>1, <2>3, <2>4
<1>3. QED
  BY <1>1, <1>2

(* The same of the state after a step.                                     *)
LEMMA QueueIsSeqNext ==
  ASSUME ~Ending', InFlight' \in 0 .. N - 1, outPos' \in Slots, data' \in [Slots -> Nat]
  PROVE  /\ Queued' \in Seq(Nat) /\ Len(Queued') = InFlight'
         /\ \A k \in 1 .. InFlight' : Queued'[k] = data'[InFlightSlot(k - 1)']
<1>1. ASSUME NEW k \in 1 .. InFlight' PROVE data'[InFlightSlot(k - 1)'] \in Nat
  <2>1. k - 1 \in 0 .. N - 1
    BY NIsNat, SMT
  <2>2. outPos' \in 0 .. N - 1 /\ InFlightSlot(k - 1)' = IF outPos' + (k - 1) < N
                                                       THEN outPos' + (k - 1)
                                                       ELSE outPos' + (k - 1) - N
    BY DEF Slots, InFlightSlot
  <2> DEFINE j == k - 1
             p == outPos'
  <2>3. IF p + j < N THEN p + j \in Slots ELSE p + j - N \in Slots
    <3>1. j \in 0 .. N - 1 /\ p \in 0 .. N - 1
      BY <2>1, <2>2
    <3> HIDE DEF j, p
    <3>2. QED
      BY <3>1, NIsNat, SMT DEF Slots
  <2>4. InFlightSlot(k - 1)' \in Slots
    BY <2>2, <2>3, Zenon
  <2>5. QED
    BY <2>4
<1> DEFINE n == InFlight'
           q == [k \in 1 .. n |-> data'[InFlightSlot(k - 1)']]
<1>2. Queued' = q
  BY Zenon DEF Queued
<1>3. q \in [1 .. n -> Nat] /\ n \in Nat
  BY <1>1, NIsNat, SMT
<1> HIDE DEF n
<1>4. q \in Seq(Nat) /\ Len(q) = n
  BY <1>3, IsASeq, LenProperties, SMT
<1>5. QED
  BY <1>2, <1>4 DEF n

(* Nothing handed to the output and not played: the queue is empty.        *)
LEMMA EmptyQueue ==
  ASSUME TypeOK, FilesInv, InFlight = 0 PROVE Queued = <<>>
<1>1. CASE Ending
  BY <1>1, QueueIsSeq
<1>2. CASE ~Ending
  BY <1>2, QueueIsSeq, EmptySeq, SMT
<1>3. QED
  BY <1>1, <1>2

(* Steps that touch neither the frames queued nor outPos leave the queue.  *)
LEMMA SameQueue ==
  ASSUME TypeOK, TypeOK', FilesInv, FilesInv',
         InFlight' = InFlight, outPos' = outPos, Ending' <=> Ending,
         \A k \in 0 .. N - 1 : k < InFlight => data'[InFlightSlot(k)] = data[InFlightSlot(k)]
  PROVE  Queued' = Queued
<1>1. CASE Ending
  BY <1>1, SMT DEF Queued
<1>2. CASE ~Ending
  <2>1. InFlight \in 0 .. N - 1
    BY <1>2, OccupiedBound
  <2>2. \A k \in 1 .. InFlight : data'[InFlightSlot(k - 1)'] = data[InFlightSlot(k - 1)]
    <3> SUFFICES ASSUME NEW k \in 1 .. InFlight
                 PROVE  data'[InFlightSlot(k - 1)'] = data[InFlightSlot(k - 1)]
      OBVIOUS
    <3>1. k - 1 \in 0 .. N - 1 /\ k - 1 < InFlight
      BY <2>1, NIsNat, SMT
    <3>2. InFlightSlot(k - 1)' = InFlightSlot(k - 1)
      BY DEF InFlightSlot
    <3>3. QED
      BY <3>1, <3>2
  <2>3. Queued = [k \in 1 .. InFlight |-> data[InFlightSlot(k - 1)]]
    BY <1>2, Zenon DEF Queued
  <2>4. Queued' = [k \in 1 .. InFlight |-> data'[InFlightSlot(k - 1)']]
    BY <1>2, Zenon DEF Queued
  <2>5. QED
    BY <2>2, <2>3, <2>4, Zenon
<1>3. QED
  BY <1>1, <1>2

(* Before the first file the queue is empty and closed.                    *)
LEMMA QueueInit == Init => Playback!Init
<1> SUFFICES ASSUME Init PROVE Playback!Init
  OBVIOUS
<1>1. InFlight = 0 /\ ~Ending
  BY SMT DEF Init, InFlight, Ending
<1>2. Queued = <<>>
  BY <1>1, SMT DEF Queued
<1>3. QED
  BY <1>2, SMT DEF Init, Closed, Playback!Init

(* A step that leaves the queue, and closes it or opens it again when it   *)
(* is empty.                                                               *)
Keeps == /\ Queued' = Queued /\ NextFrame' = NextFrame /\ heard' = heard
         /\ Closed /\ ~Closed' => Queued = <<>>

(* Such a step closes the queue, opens it again or stutters.               *)
LEMMA KeepsImplements ==
  ASSUME Keeps PROVE [Playback!Next]_(Playback!qvars)
<1>1. Closed \in BOOLEAN /\ Closed' \in BOOLEAN
  BY Zenon DEF Closed
<1>2. CASE Closed /\ Closed'
  BY <1>2, <1>1, Zenon DEF Keeps, NextFrame, Playback!qvars
<1>3. CASE ~Closed /\ ~Closed'
  BY <1>3, <1>1, Zenon DEF Keeps, NextFrame, Playback!qvars
<1>4. CASE ~Closed /\ Closed'
  <2>1. Closed' = TRUE
    BY <1>1, <1>4, Zenon
  <2>2. Playback!Close
    BY <1>4, <2>1, Zenon DEF Keeps, NextFrame, Playback!Close
  <2>3. QED
    BY <2>2, Zenon DEF Playback!Next
<1>5. CASE Closed /\ ~Closed'
  <2>1. Closed' = FALSE
    BY <1>1, <1>5, Zenon
  <2>2. Playback!Reuse
    BY <1>5, <2>1, Zenon DEF Keeps, NextFrame, Playback!Reuse
  <2>3. QED
    BY <2>2, Zenon DEF Playback!Next
<1>6. QED
  BY <1>2, <1>3, <1>4, <1>5, Zenon

(* Everything before the first frame and after the last one, and headers,  *)
(* tokens and counters in between.                                         *)
LEMMA KeepFile ==
  ASSUME RegularRun, TypeOK, TypeOK', FilesInv, FilesInv',
         MainStep \/ OpenFile \/ ResetDecoder \/ ReadMmap \/ NeedData \/ ReadHeader
  PROVE  Keeps
<1> USE DEF semVars, ringVars, flagVars, fileVars, decVars, outVars, sigVars, histVars
<1> USE DEF MainStep, NextFile, Finish, StartDecode, AwaitEnd, Shutdown, IdleQuit, OpenFile,
    ResetDecoder, ReadMmap, NeedData, ReadHeader, HeaderStopped, HeaderLimit, HeaderPassed,
    HeaderCommand
<1>1. UNCHANGED <<data, seq, heard, outPos, sem1>>
  BY SMT
<1>2. dpc # "post" /\ dpc' # "post" /\ (opc' = opc \/ (opc = "wait" /\ opc' = "dead"))
  BY SMT DEF FilesInv, PhaseInv
<1>3. InFlight' = InFlight /\ (Ending' <=> Ending)
  BY <1>1, <1>2, SMT DEF InFlight, Ending
<1>4. Queued' = Queued
  BY <1>1, <1>3, SameQueue
<1>5. NextFrame' = NextFrame
  BY <1>1, <1>2 DEF NextFrame
<1>6. ASSUME Closed, ~Closed' PROVE InFlight = 0
  <2>1. Clean
    BY <1>6, SMTT(60) DEF Closed, FilesInv, QuietInv, PhaseInv, CleanBetweenFiles, TypeOK, DataTypes
  <2>2. QED
    BY <2>1, SMT DEF Clean, InFlight
<1>7. QED
  BY <1>1, <1>4, <1>5, <1>6, EmptyQueue, Zenon DEF Keeps

(* Semaphore operations other than the post of a frame, and the counter.   *)
LEMMA KeepTokens ==
  ASSUME TypeOK, TypeOK', FilesInv, FilesInv',
         AcquireSlot \/ LoadCount \/ StoreCount \/ TakeFrame \/ LookPlay \/ FreeSlot
  PROVE  Keeps
<1> USE DEF semVars, ringVars, flagVars, fileVars, decVars, outVars, sigVars, histVars
<1> USE DEF AcquireSlot, LoadCount, StoreCount, TakeFrame, LookPlay, FreeSlot
<1>1. UNCHANGED <<data, seq, heard, outPos>>
  BY SMT
<1>2. (dpc = "post" <=> dpc' = "post") /\ (Ending' <=> Ending) /\ (Closed => Closed')
  BY SMT DEF Ending, Closed
<1>3. InFlight' = InFlight
  <2>1. CASE TakeFrame
    BY <2>1, SMT DEF InFlight, TypeOK, DataTypes
  <2>2. CASE LookPlay \/ FreeSlot
    BY <2>2, SMT DEF InFlight
  <2>3. CASE AcquireSlot \/ LoadCount \/ StoreCount
    BY <2>3, SMT DEF InFlight
  <2>4. QED
    BY <2>1, <2>2, <2>3
<1>4. Queued' = Queued
  BY <1>1, <1>2, <1>3, SameQueue
<1>5. QED
  BY <1>1, <1>2, <1>4, SMT DEF Keeps, NextFrame

(* Samples go to a slot behind those that are queued.                      *)
LEMMA KeepFill ==
  ASSUME TypeOK, TypeOK', FilesInv, FilesInv', FillSlot PROVE Keeps
<1>1. /\ dpc = "fill" /\ dpc' = "post" /\ seq' = seq + 1
      /\ data' = [data EXCEPT ![decPos] = seq + 1]
  BY Zenon DEF FillSlot
<1>2. UNCHANGED <<semVars, outVars, heard, pos, src>>
  BY SMT DEF FillSlot, fileVars
<1>3. Running /\ ~Ended /\ ~Ending /\ ~Closed
  BY <1>1, SMT DEF Running, LastPosted, FilesInv, PhaseInv, Ended, Closed
<1>4. Occupied = InFlight /\ InFlight' = InFlight /\ InFlight \in 0 .. N - 1 /\ (Ending' <=> Ending)
  BY <1>1, <1>2, <1>3, OccupiedBound, SMT DEF Occupied, InFlight, Ending, semVars, outVars
<1>5. decPos = InFlightSlot(InFlight)
  BY <1>3, <1>4, SMT DEF FilesInv, RingInv
<1>6. ASSUME NEW k \in 0 .. N - 1, k < InFlight
      PROVE  data'[InFlightSlot(k)] = data[InFlightSlot(k)]
  <2>1. InFlightSlot(k) # decPos /\ InFlightSlot(k) \in Slots
    BY <1>4, <1>5, <1>6, SlotsDiffer, SlotInRing, SMT DEF TypeOK, DataTypes
  <2>2. QED
    BY <1>1, <2>1, SMT DEF TypeOK, DataTypes
<1>7. Queued' = Queued
  BY <1>2, <1>4, <1>6, SameQueue DEF outVars
<1>8. QED
  BY <1>1, <1>2, <1>3, <1>7, SMT DEF Keeps, NextFrame

(* The rest of the rendezvous: the queue is empty already.                 *)
LEMMA KeepEnd ==
  ASSUME TypeOK, TypeOK', FilesInv, FilesInv', EndStep PROVE Keeps
<1> USE DEF EndStep, EndSetFree, EndSetFilled, EndResetFlags, EndSignal,
    semVars, ringVars, flagVars, fileVars, decVars, outVars, sigVars, histVars
<1>1. UNCHANGED <<dpc, seq, heard, pos, src>>
  BY SMT
<1>2. Ending
  BY SMT DEF Ending
<1>3. Ending' \/ InFlight' = 0
  BY SMT DEF Ending, InFlight, FilesInv, PhaseInv
<1>4. Queued = <<>> /\ Queued' = <<>>
  <2>1. Queued = <<>>
    BY <1>2, QueueIsSeq
  <2>2. CASE Ending'
    BY <2>1, <2>2, SMT DEF Queued
  <2>3. CASE ~Ending' /\ InFlight' = 0
    BY <2>1, <2>3, SMT DEF Queued
  <2>4. QED
    BY <1>3, <2>1, <2>2, <2>3
<1>5. QED
  BY <1>1, <1>4, SMT DEF Keeps, NextFrame

(* sem_post of a filled slot puts the frame in the queue.                  *)
LEMMA PutFrame ==
  ASSUME TypeOK, TypeOK', FilesInv, FilesInv', PostFrame PROVE Playback!Put
<1>1. dpc = "post" /\ dpc' = "count" /\ sem1' = sem1 + 1
  BY Zenon DEF PostFrame
<1>2. UNCHANGED <<data, seq, heard, opc, outPos>>
  BY SMT DEF PostFrame, ringVars, outVars, histVars
<1>3. Running /\ ~Ended /\ ~Ending /\ ~Ending' /\ ~Closed
  BY <1>1, <1>2, SMT DEF Running, LastPosted, FilesInv, PhaseInv, Ended, Ending, Closed
<1>4. Occupied = InFlight + 1 /\ InFlight' = InFlight + 1 /\ InFlight \in 0 .. N - 1
      /\ InFlight + 1 \in 0 .. N - 1 /\ seq \in Nat
  BY <1>1, <1>2, <1>3, OccupiedBound, SMT DEF Occupied, InFlight, TypeOK, DataTypes
<1>5. data[InFlightSlot(InFlight)] = seq
  <2>1. data[InFlightSlot(InFlight)] = (seq - Occupied) + 1 + InFlight
    BY <1>3, <1>4, SMT DEF FilesInv, RingInv
  <2>2. QED
    BY <1>4, <2>1, SMT
<1>6. /\ Queued \in Seq(Nat) /\ Len(Queued) = InFlight
      /\ \A k \in 1 .. InFlight : Queued[k] = data[InFlightSlot(k - 1)]
  BY <1>3, QueueIsSeq
<1>7. /\ Queued' \in Seq(Nat) /\ Len(Queued') = InFlight + 1
      /\ \A k \in 1 .. InFlight + 1 : Queued'[k] = data[InFlightSlot(k - 1)]
  <2>1. /\ Queued' \in Seq(Nat) /\ Len(Queued') = InFlight'
        /\ \A k \in 1 .. InFlight' : Queued'[k] = data'[InFlightSlot(k - 1)']
    BY <1>3, <1>4, QueueIsSeqNext DEF TypeOK, DataTypes
  <2>2. QED
    BY <1>2, <1>4, <2>1, SMT DEF InFlightSlot
<1>8. Queued' = Append(Queued, seq)
  <2>1. /\ Append(Queued, seq) \in Seq(Nat) /\ Len(Append(Queued, seq)) = InFlight + 1
        /\ \A i \in 1 .. InFlight : Append(Queued, seq)[i] = Queued[i]
        /\ Append(Queued, seq)[InFlight + 1] = seq
    BY <1>4, <1>6, AppendProperties
  <2>2. ASSUME NEW i \in 1 .. InFlight + 1 PROVE Queued'[i] = Append(Queued, seq)[i]
    <3>1. CASE i = InFlight + 1
      <4>1. Queued'[i] = data[InFlightSlot(i - 1)] /\ i - 1 = InFlight
        BY <1>4, <1>7, <3>1
      <4>2. QED
        BY <1>5, <2>1, <3>1, <4>1
    <3>2. CASE i \in 1 .. InFlight
      BY <1>6, <1>7, <2>1, <3>2
    <3>3. i = InFlight + 1 \/ i \in 1 .. InFlight
      BY <1>4, <2>2, NIsNat, SMT
    <3>4. QED
      BY <3>1, <3>2, <3>3
  <2>3. QED
    BY <1>7, <2>1, <2>2, SeqEqual
<1>9. NextFrame = seq /\ NextFrame' = seq + 1 /\ heard' = heard
  BY <1>1, <1>2, SMT DEF NextFrame
<1>10. Closed' \in BOOLEAN /\ Closed = FALSE /\ Len(Queued) < N - 1
  <2>1. Closed' \in BOOLEAN /\ Closed = FALSE
    BY <1>3, Zenon DEF Closed
  <2>2. Len(Queued) < N - 1
    BY <1>4, <1>6, NIsNat, SMT
  <2>3. QED
    BY <2>1, <2>2
<1>11. QED
  BY <1>8, <1>9, <1>10, Zenon DEF Playback!Put, NextFrame

(* ao_play() hears the frame in front.                                     *)
LEMMA HearFrame ==
  ASSUME TypeOK, TypeOK', FilesInv, FilesInv', PlayFrame PROVE Playback!Play
<1>1. opc = "play" /\ opc' = "free" /\ heard' = data[outPos] /\ outPos' = GetNextPlace(outPos)
  BY Zenon DEF PlayFrame
<1>2. UNCHANGED <<data, seq, sem1, dpc, pos, src>>
  BY SMT DEF PlayFrame, semVars, ringVars, fileVars, decVars
<1>3. ~Ending /\ ~Ending' /\ InFlightSlot(0) = outPos
  BY <1>1, PlayedFrame, SMT DEF Ending
<1>4. InFlight \in 1 .. N - 1 /\ InFlight' = InFlight - 1
  BY <1>1, <1>2, <1>3, PlayedFrame, OccupiedBound, SMT DEF InFlight, TypeOK, DataTypes
<1>5. /\ Queued \in Seq(Nat) /\ Len(Queued) = InFlight
      /\ \A k \in 1 .. InFlight : Queued[k] = data[InFlightSlot(k - 1)]
  BY <1>3, QueueIsSeq
<1>6. Queued # <<>> /\ Head(Queued) = data[outPos]
  BY <1>3, <1>4, <1>5, SMT
<1>7. /\ Queued' \in Seq(Nat) /\ Len(Queued') = InFlight - 1
      /\ \A k \in 1 .. InFlight - 1 : Queued'[k] = data[InFlightSlot(k)]
  <2>0. InFlight' \in 0 .. N - 1
    BY <1>4, NIsNat, SMT
  <2>1. /\ Queued' \in Seq(Nat) /\ Len(Queued') = InFlight'
        /\ \A k \in 1 .. InFlight' : Queued'[k] = data'[InFlightSlot(k - 1)']
    BY <1>3, <2>0, QueueIsSeqNext DEF TypeOK, DataTypes
  <2>2. ASSUME NEW k \in 1 .. InFlight - 1 PROVE InFlightSlot(k - 1)' = InFlightSlot(k)
    <3>1. k \in 1 .. N - 1 /\ outPos \in 0 .. N - 1
      BY <1>4, NIsNat, SMT DEF Slots, TypeOK, DataTypes
    <3>2. QED
      BY <1>1, <3>1, NIsNat, SMT DEF InFlightSlot, GetNextPlace
  <2>3. QED
    BY <1>2, <1>4, <2>1, <2>2, Zenon
<1>8. Queued' = Tail(Queued)
  <2>1. /\ Tail(Queued) \in Seq(Nat) /\ Len(Tail(Queued)) = InFlight - 1
        /\ \A i \in 1 .. InFlight - 1 : Tail(Queued)[i] = Queued[i + 1]
    BY <1>5, <1>6, HeadTailProperties
  <2>2. ASSUME NEW i \in 1 .. InFlight - 1 PROVE Queued'[i] = Tail(Queued)[i]
    <3>1. i + 1 \in 1 .. InFlight /\ (i + 1) - 1 = i
      BY <1>4, NIsNat, SMT
    <3>2. Queued[i + 1] = data[InFlightSlot((i + 1) - 1)]
      BY <1>5, <3>1, Zenon
    <3>3. QED
      BY <1>7, <2>1, <2>2, <3>1, <3>2, Zenon
  <2>3. QED
    BY <1>7, <2>1, <2>2, SeqEqual
<1>9. NextFrame' = NextFrame
  BY <1>2 DEF NextFrame
<1>10. Closed' = Closed
  BY <1>2, SMT DEF Closed
<1>11. QED
  BY <1>1, <1>6, <1>8, <1>9, <1>10, Zenon DEF Playback!Play, NextFrame

(* The end of a file drops what is queued, after the decoder's last post.  *)
LEMMA DropFrames ==
  ASSUME TypeOK, TypeOK', FilesInv, FilesInv', LookEnd PROVE Playback!Drop
<1>1. opc = "look" /\ opc' = "set0" /\ LastPosted
  BY EndIsLastPosted, Zenon DEF LookEnd
<1>2. UNCHANGED <<dpc, seq, heard, pos, src>>
  BY SMT DEF LookEnd, fileVars, decVars, histVars
<1>3. Closed = TRUE
  BY <1>1, Zenon DEF Closed, LastPosted
<1>4. Queued # <<>>
  <2>1. InFlight > 0 /\ ~Ending
    BY <1>1, PlayedFrame, SMT DEF Ending
  <2>2. QED
    BY <2>1, QueueIsSeq, SMT
<1>5. Queued' = <<>>
  BY <1>1, SMT DEF Queued, Ending
<1>6. NextFrame' = NextFrame
  BY <1>2 DEF NextFrame
<1>7. Closed' = Closed
  BY <1>2, SMT DEF Closed
<1>8. QED
  BY <1>2, <1>3, <1>4, <1>5, <1>6, <1>7, Zenon DEF Playback!Drop, NextFrame

(* Every step that plays regular files is a step of the queue.             *)
LEMMA StepImplements ==
  ASSUME RegularRun, TypeOK, TypeOK', FilesInv, FilesInv', [Next]_vars
  PROVE  [Playback!Next]_(Playback!qvars)
<1>1. CASE UNCHANGED vars
  <2>1. Queued' = Queued /\ seq' = seq /\ dpc' = dpc /\ heard' = heard /\ Closed' = Closed
    BY <1>1, SMT DEF vars, Queued, InFlight, InFlightSlot, Ending, Closed
  <2>2. QED
    BY <2>1, Zenon DEF Playback!qvars
<1>2. CASE Next
  <2>1. RegularStep
    BY <1>2, OnlyRegularSteps
  <2>2. CASE MainStep \/ OpenFile \/ ResetDecoder \/ ReadMmap \/ NeedData \/ ReadHeader
    BY <2>2, KeepFile, KeepsImplements
  <2>3. CASE AcquireSlot \/ LoadCount \/ StoreCount \/ TakeFrame \/ LookPlay \/ FreeSlot
    BY <2>3, KeepTokens, KeepsImplements
  <2>4. CASE FillSlot
    BY <2>4, KeepFill, KeepsImplements
  <2>5. CASE EndStep
    BY <2>5, KeepEnd, KeepsImplements
  <2>6. CASE PostFrame
    BY <2>6, PutFrame, Zenon DEF Playback!Next
  <2>7. CASE PlayFrame
    BY <2>7, HearFrame, Zenon DEF Playback!Next
  <2>8. CASE LookEnd
    BY <2>8, DropFrames, Zenon DEF Playback!Next
  <2>9. QED
    BY <2>1, <2>2, <2>3, <2>4, <2>5, <2>6, <2>7, <2>8, Zenon DEF RegularStep, SlotStep, PlayStep
<1>3. QED
  BY <1>1, <1>2

(* Buffered playback of regular files is a bounded queue of N-1 frames,    *)
(* heard in order and dropped only when the decoder is done with the file. *)
THEOREM QueueImplemented == ASSUME RegularRun PROVE Spec => ImplementsPlayback
<1>1. TypeOK /\ TypeOK' /\ FilesInv /\ FilesInv' /\ [Next]_vars => [Playback!Next]_(Playback!qvars)
  BY StepImplements
<1>2. QED
  BY <1>1, QueueInit, TypeCorrect, FilesCorrect, PTL DEF Spec, ImplementsPlayback, Playback!Spec
=============================================================================
