-------------------------- MODULE FrameBufferProofs --------------------------
(***************************************************************************)
(* Proofs about FrameBuffer, for every buffer size, every playlist, every  *)
(* environment and every bound.  The provers treat Boolean and arithmetic  *)
(* facts apart, so the types of the flags and those of the rest are two    *)
(* invariants, each inductive by itself.                                   *)
(***************************************************************************)
EXTENDS FrameBuffer, TLAPS

LEMMA RingFacts ==
  0 \in Slots /\ N \in Nat /\ InitialTokens \in Nat /\ ResetTokens \in Nat
BY FrameBufferAssumption DEF Slots, InitialTokens, ResetTokens

(* getnext_place() stays inside the ring.                                  *)
LEMMA NextPlaceInRing ==
  ASSUME NEW p \in Slots PROVE GetNextPlace(p) \in Slots
BY FrameBufferAssumption DEF Slots, GetNextPlace

LEMMA FlagInit == Init => FlagTypes
BY Zenon DEF Init, FlagTypes

LEMMA DataInit == Init => DataTypes
<1> SUFFICES ASSUME Init PROVE DataTypes
  OBVIOUS
<1>1. data \in [Slots -> Nat]
  BY Zenon, RingFacts DEF Init
<1>2. info \in [Slots -> InfoType]
  BY Zenon DEF Init, InfoType
<1>3. QED
  BY <1>1, <1>2, RingFacts, SMT DEF Init, DataTypes, DecoderPCs, OutputPCs

(* The steps whose effect on a flag or on a slot has several cases.        *)
LEMMA FlagOpenFile == ASSUME FlagTypes, OpenFile PROVE FlagTypes'
<1>1. isHttp' \in BOOLEAN /\ isFile' \in BOOLEAN
  BY Zenon DEF OpenFile, FlagTypes
<1>2. fallback' \in BOOLEAN
  <2>1. (fallback \/ src.kind = "fifo") \in BOOLEAN
     BY Zenon
  <2>2. QED
    BY <2>1, Zenon DEF OpenFile, FlagTypes
<1>3. fd' \in BOOLEAN
  BY <1>2, Zenon DEF OpenFile, FlagTypes
<1>4. UNCHANGED <<done, stopShared, quitShared, pbDone, rewinding, stopD, quitD, sigVars>>
  BY Zenon DEF OpenFile
<1>5. QED
  BY <1>1, <1>2, <1>3, <1>4, Zenon DEF FlagTypes, sigVars

LEMMA FlagSigintDecoder == ASSUME FlagTypes, SigintDecoder PROVE FlagTypes'
<1>1. stopShared' \in BOOLEAN /\ quitShared' \in BOOLEAN /\ stopD' \in BOOLEAN /\ quitD' \in BOOLEAN
  BY Zenon DEF SigintDecoder, FlagTypes
<1>2. UNCHANGED <<done, isHttp, isFile, fileVars, handlerD, handlerO>>
  BY Zenon DEF SigintDecoder
<1>3. QED
  BY <1>1, <1>2, Zenon DEF FlagTypes, fileVars

LEMMA FlagSigintOutput == ASSUME FlagTypes, SigintOutput PROVE FlagTypes'
<1>1. stopShared' \in BOOLEAN /\ quitShared' \in BOOLEAN
  BY Zenon DEF SigintOutput, FlagTypes
<1>2. UNCHANGED <<done, isHttp, isFile, fileVars, decVars, handlerD, handlerO>>
  BY Zenon DEF SigintOutput
<1>3. QED
  BY <1>1, <1>2, Zenon DEF FlagTypes, fileVars, decVars

LEMMA DataHeaderPassed == ASSUME DataTypes, HeaderPassed PROVE DataTypes'
<1>1. UNCHANGED <<semVars, data, flagVars, src, decPos, reg, outVars, sigVars, histVars>>
  BY SMT DEF HeaderPassed
<1>2. cur' \in Nat /\ pos' \in Nat /\ framesPlayed' \in Nat
  BY SMT DEF HeaderPassed, DataTypes
<1>3. dpc' \in DecoderPCs
  BY SMT DEF HeaderPassed, DecoderPCs, DataTypes
<1>4. info' \in [Slots -> InfoType]
  <2>1. CASE UNCHANGED info
     BY <2>1 DEF DataTypes
  <2>2. ASSUME NEW t \in BOOLEAN,
         info' = [info EXCEPT ![decPos] =
                         [frame |-> seq + 1,
                          last  |-> src.est = cur + 1,
                          tail  |-> IF isFile THEN t ELSE @.tail]]
        PROVE info' \in [Slots -> InfoType]
     <3>1. info[decPos] \in InfoType
        BY Zenon DEF DataTypes
     <3>2. (IF isFile THEN t ELSE info[decPos].tail) \in BOOLEAN
        BY <3>1, Zenon DEF InfoType
     <3>3. (src.est = cur + 1) \in BOOLEAN
        BY Zenon
     <3>5. seq + 1 \in Nat
        BY SMT DEF DataTypes
     <3> DEFINE new == [frame |-> seq + 1,
                          last  |-> src.est = cur + 1,
                          tail  |-> IF isFile THEN t ELSE info[decPos].tail]
     <3>4. new \in InfoType
        BY <3>2, <3>3, <3>5, Zenon DEF InfoType
     <3>6. info' = [info EXCEPT ![decPos] = new]
        BY <2>2, Zenon
     <3> HIDE DEF new
     <3>7. QED
        BY <3>6, <3>4, Zenon DEF DataTypes
  <2>3. QED
     BY <2>1, <2>2, Zenon DEF HeaderPassed
<1>5. QED
  BY <1>1, <1>2, <1>3, <1>4, SMT DEF DataTypes, semVars, flagVars, outVars, sigVars, histVars

LEMMA DataSigintOutput == ASSUME DataTypes, SigintOutput PROVE DataTypes'
<1>1. UNCHANGED <<semVars, ringVars, decoded, done, isHttp, isFile, fileVars, decVars,
                  outPos, played, handlerD, handlerO, sigints, histVars>>
  BY DEF SigintOutput
<1>2. opc' \in {opc, "look", "dead"}
  BY Zenon DEF SigintOutput
<1>3. pending' = pending \ {"O"} \/ pending' = (pending \ {"O"}) \cup {"CHLD"}
  BY Zenon DEF SigintOutput
<1>4. pending' \subseteq {"D", "O", "USR1", "CHLD"}
  BY <1>3, Zenon DEF DataTypes
<1>5. opc' \in OutputPCs
  BY <1>2, SMT DEF DataTypes, OutputPCs
<1>6. QED
  BY <1>1, <1>4, <1>5, SMT DEF DataTypes, semVars, ringVars, fileVars, decVars, histVars

LEMMA FlagStep == FlagTypes /\ [Next]_vars => FlagTypes'
<1> SUFFICES ASSUME FlagTypes, [Next]_vars PROVE FlagTypes'
  OBVIOUS
<1> USE DEF semVars, ringVars, flagVars, fileVars, decVars, outVars, sigVars, histVars
<1>1. ASSUME NEW s \in Sources, NextFile(s) PROVE FlagTypes'
  BY <1>1, Zenon DEF NextFile, FlagTypes
<1>2. CASE Finish
  BY <1>2, SMT DEF Finish, FlagTypes
<1>3. CASE OpenFile
  BY <1>3, FlagOpenFile
<1>4. CASE StartDecode
  BY <1>4, Zenon DEF StartDecode, FlagTypes
<1>5. CASE ReadMmap
  BY <1>5, Zenon DEF ReadMmap, FlagTypes
<1>6. CASE ReadFd
  BY <1>6, Zenon DEF ReadFd, FlagTypes
<1>7. CASE Release
  BY <1>7, SMT DEF Release, FlagTypes
<1>8. CASE NeedData
  BY <1>8, SMT DEF NeedData, FlagTypes
<1>9. CASE HeaderStopped
  BY <1>9, Zenon DEF HeaderStopped, FlagTypes
<1>10. CASE HeaderCommand
  BY <1>10, ZenonT(60) DEF HeaderCommand, LoadCommand, StopCommand, QuitCommand,
     RewindCommand, FlagTypes
<1>11. CASE HeaderLimit
  BY <1>11, Zenon DEF HeaderLimit, FlagTypes
<1>12. CASE HeaderPassed
  BY <1>12, ZenonT(60) DEF HeaderPassed, FlagTypes
<1>13. CASE AcquireSlot
  BY <1>13, SMT DEF AcquireSlot, FlagTypes
<1>14. CASE FillSlot
  BY <1>14, SMT DEF FillSlot, FlagTypes
<1>15. CASE PostFrame
  BY <1>15, SMT DEF PostFrame, FlagTypes
<1>16. CASE LoadCount
  BY <1>16, SMT DEF LoadCount, FlagTypes
<1>17. CASE StoreCount
  BY <1>17, SMT DEF StoreCount, FlagTypes
<1>18. CASE AwaitEnd
  BY <1>18, SMT DEF AwaitEnd, FlagTypes
<1>19. CASE ResetDecoder
  BY <1>19, Zenon DEF ResetDecoder, FlagTypes
<1>20. CASE Shutdown
  BY <1>20, SMT DEF Shutdown, FlagTypes
<1>21. CASE Output
  <2>1. CASE TakeFrame
    BY <2>1, SMT DEF TakeFrame, FlagTypes
  <2>2. CASE LookPlay
    BY <2>2, Zenon DEF LookPlay, FlagTypes
  <2>3. CASE LookEnd
    BY <2>3, Zenon DEF LookEnd, FlagTypes
  <2>4. CASE DeviceFails
    BY <2>4, Zenon DEF DeviceFails, FlagTypes
  <2>5. CASE PlayFrame
    BY <2>5, SMT DEF PlayFrame, FlagTypes
  <2>6. CASE FreeSlot
    BY <2>6, SMT DEF FreeSlot, FlagTypes
  <2>7. CASE EndSetFree
    BY <2>7, SMT DEF EndSetFree, FlagTypes
  <2>8. CASE EndSetFilled
    BY <2>8, SMT DEF EndSetFilled, FlagTypes
  <2>9. CASE EndResetFlags
    BY <2>9, Zenon DEF EndResetFlags, FlagTypes
  <2>10. CASE EndSignal
    BY <2>10, SMT DEF EndSignal, FlagTypes
  <2>11. QED
    BY <1>21, <2>1, <2>2, <2>3, <2>4, <2>5, <2>6, <2>7, <2>8, <2>9, <2>10 DEF Output, OutputStep
<1>22. CASE Delivery
  <2>1. CASE SigintDecoder
    BY <2>1, FlagSigintDecoder
  <2>2. CASE Usr1Decoder
    BY <2>2, Zenon DEF Usr1Decoder, FlagTypes
  <2>3. CASE ChldDecoder
    BY <2>3, SMT DEF ChldDecoder, FlagTypes
  <2>4. CASE SigintOutput
    BY <2>4, FlagSigintOutput
  <2>5. QED
    BY <1>22, <2>1, <2>2, <2>3, <2>4 DEF Delivery
<1>23. CASE IdleStop
  BY <1>23, Zenon DEF IdleStop, FlagTypes
<1>24. CASE IdleQuit
  BY <1>24, Zenon DEF IdleQuit, FlagTypes
<1>25. CASE UserSigint
  BY <1>25, SMT DEF UserSigint, FlagTypes
<1>26. CASE UNCHANGED vars
  BY <1>26, SMT DEF vars, FlagTypes
<1>27. QED
  BY <1>1, <1>2, <1>3, <1>4, <1>5, <1>6, <1>7, <1>8, <1>9, <1>10, <1>11, <1>12,
     <1>13, <1>14, <1>15, <1>16, <1>17, <1>18, <1>19, <1>20, <1>21, <1>22,
     <1>23, <1>24, <1>25, <1>26
     DEF Next, Decoder, DecoderStep, ReadHeader

LEMMA DataStep == DataTypes /\ [Next]_vars => DataTypes'
<1> SUFFICES ASSUME DataTypes, [Next]_vars PROVE DataTypes'
  OBVIOUS
<1> USE DEF semVars, ringVars, flagVars, fileVars, decVars, outVars, sigVars, histVars
<1> USE DEF DecoderPCs, OutputPCs
<1>1. ASSUME NEW s \in Sources, NextFile(s) PROVE DataTypes'
  BY <1>1, SMT DEF NextFile, DataTypes
<1>2. CASE Finish
  BY <1>2, SMT DEF Finish, DataTypes
<1>3. CASE OpenFile
  BY <1>3, SMT DEF OpenFile, DataTypes
<1>4. CASE StartDecode
  BY <1>4, SMT DEF StartDecode, DataTypes
<1>5. CASE ReadMmap
  BY <1>5, SMT DEF ReadMmap, DataTypes
<1>6. CASE ReadFd
  BY <1>6, SMT DEF ReadFd, DataTypes
<1>7. CASE Release
  BY <1>7, SMT DEF Release, DataTypes
<1>8. CASE NeedData
  BY <1>8, SMT DEF NeedData, DataTypes
<1>9. CASE HeaderStopped
  BY <1>9, SMT DEF HeaderStopped, DataTypes
<1>10. CASE HeaderCommand
  BY <1>10, SMT DEF HeaderCommand, LoadCommand, StopCommand, QuitCommand,
     RewindCommand, DataTypes
<1>11. CASE HeaderLimit
  BY <1>11, SMT DEF HeaderLimit, DataTypes
<1>12. CASE HeaderPassed
  BY <1>12, DataHeaderPassed
<1>13. CASE AcquireSlot
  BY <1>13, SMT DEF AcquireSlot, DataTypes
<1>14. CASE FillSlot
  BY <1>14, NextPlaceInRing, SMT DEF FillSlot, DataTypes
<1>15. CASE PostFrame
  BY <1>15, SMT DEF PostFrame, DataTypes
<1>16. CASE LoadCount
  BY <1>16, SMT DEF LoadCount, DataTypes
<1>17. CASE StoreCount
  BY <1>17, SMT DEF StoreCount, DataTypes
<1>18. CASE AwaitEnd
  BY <1>18, SMT DEF AwaitEnd, DataTypes
<1>19. CASE ResetDecoder
  BY <1>19, RingFacts, SMT DEF ResetDecoder, DataTypes
<1>20. CASE Shutdown
  BY <1>20, SMT DEF Shutdown, DataTypes
<1>21. CASE Output
  <2>1. CASE TakeFrame
    BY <2>1, SMT DEF TakeFrame, DataTypes
  <2>2. CASE LookPlay
    BY <2>2, SMT DEF LookPlay, DataTypes
  <2>3. CASE LookEnd
    BY <2>3, SMT DEF LookEnd, DataTypes
  <2>4. CASE DeviceFails
    BY <2>4, SMT DEF DeviceFails, DataTypes
  <2>5. CASE PlayFrame
    BY <2>5, NextPlaceInRing, SMT DEF PlayFrame, DataTypes
  <2>6. CASE FreeSlot
    BY <2>6, SMT DEF FreeSlot, DataTypes
  <2>7. CASE EndSetFree
    BY <2>7, RingFacts, SMT DEF EndSetFree, DataTypes
  <2>8. CASE EndSetFilled
    BY <2>8, RingFacts, SMT DEF EndSetFilled, DataTypes
  <2>9. CASE EndResetFlags
    BY <2>9, SMT DEF EndResetFlags, DataTypes
  <2>10. CASE EndSignal
    BY <2>10, SMT DEF EndSignal, DataTypes
  <2>11. QED
    BY <1>21, <2>1, <2>2, <2>3, <2>4, <2>5, <2>6, <2>7, <2>8, <2>9, <2>10 DEF Output, OutputStep
<1>22. CASE Delivery
  <2>1. CASE SigintDecoder
    BY <2>1, SMT DEF SigintDecoder, DataTypes, DecoderInterrupted
  <2>2. CASE Usr1Decoder
    BY <2>2, SMT DEF Usr1Decoder, DataTypes, DecoderInterrupted
  <2>3. CASE ChldDecoder
    BY <2>3, SMT DEF ChldDecoder, DataTypes, DecoderInterrupted
  <2>4. CASE SigintOutput
    BY <2>4, DataSigintOutput
  <2>5. QED
    BY <1>22, <2>1, <2>2, <2>3, <2>4 DEF Delivery
<1>23. CASE IdleStop
  BY <1>23, SMT DEF IdleStop, DataTypes
<1>24. CASE IdleQuit
  BY <1>24, SMT DEF IdleQuit, DataTypes
<1>25. CASE UserSigint
  BY <1>25, SMT DEF UserSigint, DataTypes
<1>26. CASE UNCHANGED vars
  BY <1>26, SMT DEF vars, DataTypes
<1>27. QED
  BY <1>1, <1>2, <1>3, <1>4, <1>5, <1>6, <1>7, <1>8, <1>9, <1>10, <1>11, <1>12,
     <1>13, <1>14, <1>15, <1>16, <1>17, <1>18, <1>19, <1>20, <1>21, <1>22,
     <1>23, <1>24, <1>25, <1>26
     DEF Next, Decoder, DecoderStep, ReadHeader

(* Every variable keeps its type, in every environment: in particular a    *)
(* semaphore never goes below zero and both positions stay in the ring.    *)
THEOREM TypeCorrect == Spec => []TypeOK
<1>1. Init => TypeOK
  BY FlagInit, DataInit DEF TypeOK
<1>2. TypeOK /\ [Next]_vars => TypeOK'
  BY FlagStep, DataStep DEF TypeOK
<1>3. QED
  BY <1>1, <1>2, PTL DEF Spec
=============================================================================
