------------------------------- MODULE SpiProofs -------------------------------
(***************************************************************************)
(* The SPI module for every number of objects, devices and descriptors and  *)
(* every set of settings: what the runs check of Spi holds of its           *)
(* specification.  Bookkeeping is inductive by itself; CacheAgrees and      *)
(* TransfersWhole need it, and OthersKept, about a step, needs both.        *)
(***************************************************************************)
EXTENDS Spi, FiniteSetTheorems, TLAPS

(* open() gives the lowest free descriptor, and there is one: a nonempty    *)
(* set of numbers has a least element, since the intervals 0 .. a of its    *)
(* elements are finite sets, and these are well founded under inclusion.    *)
LEMMA LeastNumber ==
  ASSUME NEW A, A \subseteq Nat, A # {}
  PROVE  \E m \in A : \A n \in A : m <= n
<1> DEFINE R == StrictSubsetOrdering(Nat)
           T == {0 .. a : a \in A}
<1>1. IsWellFoundedOn(R, FiniteSubsetsOf(Nat))
  BY FS_StrictSubsetOrderingWellFounded, Zenon
<1>2. T \subseteq FiniteSubsetsOf(Nat) /\ T # {}
  <2>1. \A a \in A : IsFiniteSet(0 .. a) /\ 0 .. a \subseteq Nat
    BY FS_Interval, SMT
  <2>2. QED
    BY <2>1, Zenon DEF FiniteSubsetsOf
<1>3. \E x \in T : \A y \in T : <<y, x>> \notin R
  <2> HIDE DEF R, T
  <2>1. QED
    BY <1>1, <1>2, WFMin, Zenon
<1>4. PICK m \in A : \A n \in A : <<0 .. n, 0 .. m>> \notin R
  BY <1>3, Zenon
<1>5. ASSUME NEW n \in A, n < m PROVE FALSE
  <2>1. 0 .. n \subseteq 0 .. m /\ m \in 0 .. m /\ m \notin 0 .. n /\ 0 .. m \subseteq Nat
    BY <1>5, SMT
  <2>2. <<0 .. n, 0 .. m>> \in R
    BY <2>1, Zenon DEF StrictSubsetOrdering
  <2>3. QED
    BY <2>2, <1>4, Zenon
<1>6. QED
  BY <1>5, SMT

LEMMA LowestFreeIsFree == FreeFds # {} => LowestFree \in FreeFds
<1>1. FreeFds \subseteq Nat
  BY SpiAssumption, SMT DEF FreeFds, Fds
<1>2. QED
  BY <1>1, LeastNumber, Zenon DEF LowestFree

LEMMA SpiInit == Init => Bookkeeping /\ CacheAgrees /\ TransfersWhole
<1> SUFFICES ASSUME Init PROVE Bookkeeping /\ CacheAgrees /\ TransfersWhole
  OBVIOUS
<1>1. TypeOK
  BY SpiAssumption, SMT DEF Init, TypeOK, Closed, NoTransfer
<1>2. DescriptorsApart /\ CacheAgrees
  BY SMT DEF Init, Closed, DescriptorsApart, CacheAgrees
<1>3. TransfersWhole
  BY SMT DEF Init, TransfersWhole, NoTransfer, MAXMSGLEN
<1>4. QED
  BY <1>1, <1>2, <1>3, Zenon DEF Bookkeeping

(* The records of an object and of a device, and what keeps their types.   *)
ObjectType == [fd : 0 .. MaxFd, mode : SUBSET ModeBits, bpw : 0 .. 16, msh : Nat]
DeviceType == [mode : SUBSET ModeBits, bpw : 8 .. 16, msh : Nat]

LEMMA Typed ==
  TypeOK <=> /\ obj \in [Objects -> ObjectType] /\ file \in [Fds -> Devices \cup {None}]
             /\ device \in [Devices -> DeviceType] /\ faults \in 0 .. MaxFaults
             /\ last \in [fn : {"none", "writebytes", "xfer", "xfer2"}, asked : Nat,
                          stored : Nat, sent : Nat]
             /\ trust \in [Objects -> SUBSET Settings]
  BY DEF TypeOK, ObjectType, DeviceType

LEMMA LastType ==
  NoTransfer \in [fn : {"none", "writebytes", "xfer", "xfer2"}, asked : Nat, stored : Nat,
                  sent : Nat]
  BY SMT DEF NoTransfer

LEMMA ReadType ==
  ASSUME TypeOK, FreeFds # {}, NEW o \in Objects, NEW d \in Devices, NEW n \in 0 .. 3
  PROVE  ReadSettings(o, d, n) \in ObjectType
<1>1. obj[o] \in ObjectType /\ device[d] \in DeviceType
  BY Typed
<1>2. LowestFree \in 0 .. MaxFd
  BY LowestFreeIsFree, SpiAssumption, SMT DEF FreeFds, Fds
<1>3. /\ device[d].mode \in SUBSET ModeBits /\ device[d].bpw \in 0 .. 16
      /\ device[d].msh \in Nat
  BY <1>1, SMT DEF DeviceType
<1>4. /\ obj[o].mode \in SUBSET ModeBits /\ obj[o].bpw \in 0 .. 16
      /\ obj[o].msh \in Nat
  BY <1>1, SMT DEF ObjectType
<1>5. QED
  BY <1>2, <1>3, <1>4, Zenon DEF ReadSettings, ObjectType

LEMMA TypeOpen ==
  ASSUME TypeOK, NEW o \in Objects, NEW d \in Devices, Open(o, d) PROVE TypeOK'
<1>1. PICK n \in 0 .. 3 :
         /\ FreeFds # {}
         /\ file' = [file EXCEPT ![LowestFree] = d]
         /\ obj' = [obj EXCEPT ![o] = ReadSettings(o, d, n)]
         /\ trust' = [trust EXCEPT ![o] = WereRead(n)]
         /\ IF n = 3 THEN UNCHANGED faults ELSE Fault
  BY Zenon DEF Open
<1>2. LowestFree \in Fds
  BY <1>1, LowestFreeIsFree, Zenon DEF FreeFds
<1>3. last' = NoTransfer /\ device' = device
  BY Zenon DEF Open
<1>4. faults' \in 0 .. MaxFaults
  BY <1>1, Typed, SpiAssumption, SMT DEF Fault
<1>5. WereRead(n) \subseteq Settings
  BY SMT DEF WereRead, Settings
<1>6. ReadSettings(o, d, n) \in ObjectType
  BY <1>1, ReadType
<1>7. obj' \in [Objects -> ObjectType] /\ file' \in [Fds -> Devices \cup {None}]
  BY <1>1, <1>2, <1>6, Typed, Zenon
<1>8. trust' \in [Objects -> SUBSET Settings]
  BY <1>1, <1>5, Typed, SMT
<1>9. QED
  BY <1>3, <1>4, <1>7, <1>8, LastType, Typed, Zenon DEF TypeOK, ObjectType, DeviceType

LEMMA TypeOpenFails ==
  ASSUME TypeOK, NEW o \in Objects, OpenFails(o) PROVE TypeOK'
  BY SpiAssumption, SMT DEF OpenFails, Fault, TypeOK, Settings, NoTransfer

LEMMA TypeClose ==
  ASSUME TypeOK, NEW o \in Objects, Close(o) PROVE TypeOK'
  BY SpiAssumption, SMT DEF Close, ClosedObject, Closed, TypeOK, Fds, Settings, NoTransfer

(* Which objects know a setting after o has written it.                    *)
LEMMA OvertakeType ==
  ASSUME TypeOK, NEW o \in Objects, NEW d, NEW s \in Settings
  PROVE  /\ Overtake(o, d, s) \in [Objects -> SUBSET Settings]
         /\ s \in Overtake(o, d, s)[o]
         /\ \A p \in Objects : Overtake(o, d, s)[p] \subseteq trust[p] \cup {s}
         /\ \A p \in Objects \ {o} : /\ Overtake(o, d, s)[p] \subseteq trust[p]
                                     /\ DeviceOf(p) = d => s \notin Overtake(o, d, s)[p]
  BY SMT DEF Overtake, TypeOK

LEMMA DeviceKnown ==
  ASSUME TypeOK, NEW o \in Objects PROVE DeviceOf(o) \in Devices \cup {None}
  BY SMT DEF DeviceOf, TypeOK, Fds

LEMMA TypeWriteMode ==
  ASSUME TypeOK, NEW o \in Objects, NEW mode \in SUBSET ModeBits, WriteMode(o, mode)
  PROVE  TypeOK'
<1>1. /\ obj' = [obj EXCEPT ![o].mode = mode] /\ file' = file /\ last' = NoTransfer
  BY Zenon DEF WriteMode
<1>2. obj' \in [Objects -> ObjectType]
  BY <1>1, Typed, SMT DEF ObjectType
<1>3. device' \in [Devices -> DeviceType] /\ faults' \in 0 .. MaxFaults
  <2>1. CASE /\ DeviceOf(o) # None /\ UNCHANGED faults
             /\ device' = [device EXCEPT ![DeviceOf(o)].mode = mode]
    <3>1. DeviceOf(o) \in Devices
      BY <2>1, DeviceKnown
    <3>2. QED
      BY <2>1, <3>1, Typed, SMT DEF DeviceType
  <2>2. CASE UNCHANGED device /\ (Fault \/ UNCHANGED faults)
    BY <2>2, Typed, SpiAssumption, SMT DEF Fault
  <2>3. QED
    BY <2>1, <2>2, Zenon DEF WriteMode
<1>4. trust' \in [Objects -> SUBSET Settings]
  <2>1. CASE trust' = Overtake(o, DeviceOf(o), "mode")
    BY <2>1, OvertakeType, SMT DEF Settings
  <2>2. CASE trust' = [trust EXCEPT ![o] = @ \ {"mode"}]
    BY <2>2, Typed, SMT
  <2>3. QED
    BY <2>1, <2>2, Zenon DEF WriteMode
<1>5. QED
  BY <1>1, <1>2, <1>3, <1>4, LastType, Typed, Zenon DEF TypeOK, ObjectType, DeviceType

LEMMA TypeWriteSetting ==
  ASSUME TypeOK, NEW o \in Objects, NEW s \in {"bpw", "msh"}, NEW v \in Nat,
         s = "bpw" => v \in 8 .. 16, WriteSetting(o, s, v)
  PROVE  TypeOK'
<1>1. file' = file /\ last' = NoTransfer
  BY Zenon DEF WriteSetting
<1>2. CASE UNCHANGED <<obj, device, trust>> /\ faults' \in 0 .. MaxFaults
  BY <1>1, <1>2, SMT DEF TypeOK, NoTransfer
<1>3. CASE /\ DeviceOf(o) # None /\ faults' = faults
           /\ device' = [device EXCEPT ![DeviceOf(o)][s] = v]
           /\ obj' = [obj EXCEPT ![o][s] = v]
           /\ trust' = Overtake(o, DeviceOf(o), s)
  <2>1. DeviceOf(o) \in Devices /\ trust' \in [Objects -> SUBSET Settings]
    BY <1>3, OvertakeType, DeviceKnown, SMT DEF Settings
  <2>2. [obj[o] EXCEPT ![s] = v] \in ObjectType
    <3>1. CASE s = "bpw"
      BY <3>1, Typed, SMT DEF ObjectType
    <3>2. CASE s = "msh"
      BY <3>2, Typed, SMT DEF ObjectType
    <3>3. QED
      BY <3>1, <3>2
  <2>3. [device[DeviceOf(o)] EXCEPT ![s] = v] \in DeviceType
    <3>1. device[DeviceOf(o)] \in DeviceType
      BY <2>1, Typed
    <3>2. CASE s = "bpw"
      BY <3>1, <3>2, SMT DEF DeviceType
    <3>3. CASE s = "msh"
      BY <3>1, <3>3, SMT DEF DeviceType
    <3>4. QED
      BY <3>2, <3>3
  <2>4. obj' \in [Objects -> ObjectType] /\ device' \in [Devices -> DeviceType]
    BY <1>3, <2>1, <2>2, <2>3, Typed, Zenon
  <2>5. QED
    BY <1>1, <1>3, <2>1, <2>4, LastType, Typed, Zenon DEF TypeOK, ObjectType, DeviceType
<1>4. QED
  BY <1>2, <1>3, Typed, SpiAssumption, SMT DEF WriteSetting, Fault

LEMMA TypeTransfer ==
  ASSUME TypeOK, NEW o \in Objects, NEW n \in Lengths,
         WriteBytes(o, n) \/ Xfer(o, n) \/ Xfer2(o, n) \/ ReadBytes(o, n)
  PROVE  TypeOK'
<1>1. n \in Nat /\ ListLength(n) \in Nat /\ Messages(ListLength(n)) \in Nat
  BY SpiAssumption, SMT DEF ListLength, Messages
<1>2. UNCHANGED <<obj, file, device, trust>>
  BY Zenon DEF WriteBytes, Xfer, Xfer2, ReadBytes, Transfer
<1>3. faults' = faults \/ Fault
  BY Zenon DEF WriteBytes, Xfer, Xfer2, ReadBytes, Transfer
<1>4. last' \in [fn : {"none", "writebytes", "xfer", "xfer2"}, asked : Nat, stored : Nat,
                sent : Nat]
  <2>1. ASSUME NEW fn \in {"writebytes", "xfer", "xfer2"}, NEW sent \in Nat,
               Transfer(o, fn, n, sent)
        PROVE  last' \in [fn : {"none", "writebytes", "xfer", "xfer2"}, asked : Nat,
                         stored : Nat, sent : Nat]
    <3>1. \/ last' = [fn |-> fn, asked |-> n, stored |-> ListLength(n), sent |-> sent]
          \/ last' = [NoTransfer EXCEPT !.stored = ListLength(n)]
      BY <2>1, Zenon DEF Transfer
    <3> HIDE DEF ListLength
    <3>2. QED
      BY <1>1, <3>1, SMT DEF NoTransfer
  <2>2. CASE ReadBytes(o, n)
    BY <1>1, <2>2, SMT DEF ReadBytes, NoTransfer, MAXMSGLEN
  <2>3. QED
    BY <1>1, <2>1, <2>2, Zenon DEF WriteBytes, Xfer, Xfer2
<1>5. faults' \in 0 .. MaxFaults
  BY <1>3, Typed, SpiAssumption, SMT DEF Fault
<1>6. QED
  BY <1>2, <1>4, <1>5, Typed, Zenon DEF TypeOK, ObjectType, DeviceType

(* The modes that the setters write are modes.                             *)
LEMMA ModesWritten ==
  ASSUME TypeOK, NEW o \in Objects
  PROVE  /\ \A m \in Nat : WithMode(obj[o].mode, m) \in SUBSET ModeBits
         /\ \A bit \in Bits : /\ obj[o].mode \cup {bit} \in SUBSET ModeBits
                             /\ obj[o].mode \ {bit} \in SUBSET ModeBits
<1>1. obj[o].mode \in SUBSET ModeBits
  BY Typed, SMT DEF ObjectType
<1>2. QED
  BY <1>1, SpiAssumption, SMT DEF WithMode, PolarityAndPhase, ModeBits

(* The steps of Next, by what they write.                                  *)
LEMMA Steps ==
  ASSUME TypeOK, Next
  PROVE  \E o \in Objects :
           \/ \E d \in Devices : Open(o, d)
           \/ OpenFails(o)
           \/ Close(o)
           \/ \E mode \in SUBSET ModeBits : WriteMode(o, mode)
           \/ \E s \in {"bpw", "msh"}, v \in Nat :
                (s = "bpw" => v \in 8 .. 16) /\ WriteSetting(o, s, v)
           \/ \E n \in Lengths :
                WriteBytes(o, n) \/ Xfer(o, n) \/ Xfer2(o, n) \/ ReadBytes(o, n)
<1>1. PICK o \in Objects :
        \/ \E d \in Devices : Open(o, d)
        \/ OpenFails(o)
        \/ Close(o)
        \/ \E m \in Modes : SetMode(o, m)
        \/ \E bit \in Bits, on \in BOOLEAN : SetBit(o, bit, on)
        \/ \E v \in Words : SetBpw(o, v)
        \/ \E v \in Speeds : SetMsh(o, v)
        \/ \E n \in Lengths : WriteBytes(o, n) \/ Xfer(o, n) \/ Xfer2(o, n) \/ ReadBytes(o, n)
  BY Zenon DEF Next
<1>2. ASSUME NEW m \in Modes, SetMode(o, m)
      PROVE  \E mode \in SUBSET ModeBits : WriteMode(o, mode)
  <2>1. m % 256 \in Nat
    BY SpiAssumption, SMT
  <2>2. QED
    BY <1>2, <2>1, ModesWritten, Zenon DEF SetMode
<1>3. ASSUME NEW bit \in Bits, NEW on \in BOOLEAN, SetBit(o, bit, on)
      PROVE  \E mode \in SUBSET ModeBits : WriteMode(o, mode)
  BY <1>3, ModesWritten, Zenon DEF SetBit
<1>4. ASSUME NEW v \in Words, SetBpw(o, v)
      PROVE  \E w \in 8 .. 16 : w \in Nat /\ WriteSetting(o, "bpw", w)
  BY <1>4, SMT DEF SetBpw
<1>5. ASSUME NEW v \in Speeds, SetMsh(o, v)
      PROVE  \E w \in Nat : WriteSetting(o, "msh", w)
  BY <1>5, SpiAssumption, Zenon DEF SetMsh
<1>6. "msh" # "bpw"
  BY SMT
<1>7. QED
  BY <1>1, <1>2, <1>3, <1>4, <1>5, <1>6, Zenon

LEMMA TypeStep == TypeOK /\ [Next]_vars => TypeOK'
<1>1. ASSUME TypeOK, Next PROVE TypeOK'
  BY <1>1, Steps, TypeOpen, TypeOpenFails, TypeClose, TypeWriteMode, TypeWriteSetting,
     TypeTransfer, Zenon
<1>2. ASSUME TypeOK, UNCHANGED vars PROVE TypeOK'
  BY <1>2, Zenon DEF TypeOK, vars
<1>3. QED
  BY <1>1, <1>2

-----------------------------------------------------------------------------
(* Descriptors.  A number that is given out is nobody's, since whatever an  *)
(* object holds is open; a number that is closed was held by one object.    *)
LEMMA ApartStep == Bookkeeping /\ [Next]_vars => DescriptorsApart'
<1> USE DEF Bookkeeping
<1>1. ASSUME Bookkeeping, NEW o \in Objects, NEW d \in Devices, Open(o, d)
      PROVE  DescriptorsApart'
  <2>1. PICK n \in 0 .. 3 :
           /\ FreeFds # {}
           /\ file' = [file EXCEPT ![LowestFree] = d]
           /\ obj' = [obj EXCEPT ![o] = ReadSettings(o, d, n)]
    BY <1>1, Zenon DEF Open
  <2>2. LowestFree \in Fds /\ file[LowestFree] = None /\ d # None
    BY <2>1, LowestFreeIsFree, SpiAssumption, Zenon DEF FreeFds
  <2>3. obj'[o].fd = LowestFree
    BY <1>1, <2>1, Typed, SMT DEF ReadSettings
  <2>4. \A p \in Objects \ {o} : obj'[p] = obj[p]
    BY <1>1, <2>1, Typed, SMT
  <2>5. \A p \in Objects : obj[p].fd # 0 => obj[p].fd # LowestFree
    BY <1>1, <2>2, Zenon DEF DescriptorsApart
  <2>6. \A f \in Fds : file'[f] = IF f = LowestFree THEN d ELSE file[f]
    BY <1>1, <2>1, Typed, SMT
  <2>7. \A p \in Objects : obj[p].fd # 0 => obj[p].fd \in Fds
    BY <1>1, Typed, SMT DEF ObjectType, Fds
  <2> HIDE DEF LowestFree
  <2>8. QED
    BY <1>1, <2>2, <2>3, <2>4, <2>5, <2>6, <2>7, SMT DEF DescriptorsApart
<1>2. ASSUME Bookkeeping, NEW o \in Objects, OpenFails(o) PROVE DescriptorsApart'
  BY <1>2, Typed, SMT DEF OpenFails, DescriptorsApart, ObjectType
<1>3. ASSUME Bookkeeping, NEW o \in Objects, Close(o) PROVE DescriptorsApart'
  <2>1. /\ obj' = [obj EXCEPT ![o] = Closed]
        /\ file' = IF obj[o].fd = 0 THEN file ELSE [file EXCEPT ![obj[o].fd] = None]
    BY <1>3, Zenon DEF Close, ClosedObject
  <2>2. \A p \in Objects : obj[p].fd # 0 => obj[p].fd \in Fds
    BY <1>3, Typed, SMT DEF ObjectType, Fds
  <2>3. obj'[o].fd = 0 /\ \A p \in Objects \ {o} : obj'[p] = obj[p]
    BY <1>3, <2>1, Typed, SMT DEF Closed
  <2>4. \A f \in Fds : f # obj[o].fd => file'[f] = file[f]
    BY <1>3, <2>1, Typed, SMT
  <2>5. QED
    BY <1>3, <2>2, <2>3, <2>4, SMT DEF DescriptorsApart
<1>4. ASSUME Bookkeeping, file' = file, \A p \in Objects : obj'[p].fd = obj[p].fd
      PROVE  DescriptorsApart'
  BY <1>4, Zenon DEF DescriptorsApart
<1>5. ASSUME Bookkeeping, NEW o \in Objects, NEW mode, WriteMode(o, mode)
      PROVE  DescriptorsApart'
  <2>1. \A p \in Objects : obj'[p].fd = obj[p].fd
    BY <1>5, Typed, SMT DEF WriteMode, ObjectType
  <2>2. QED
    BY <1>4, <1>5, <2>1, Zenon DEF WriteMode
<1>6. ASSUME Bookkeeping, NEW o \in Objects, NEW s \in {"bpw", "msh"}, NEW v,
             WriteSetting(o, s, v)
      PROVE  DescriptorsApart'
  <2>1. obj' = obj \/ obj' = [obj EXCEPT ![o][s] = v]
    BY <1>6, SMT DEF WriteSetting
  <2>2. \A p \in Objects : obj'[p].fd = obj[p].fd
    <3>1. CASE s = "bpw"
      BY <1>6, <2>1, <3>1, Typed, SMT DEF ObjectType
    <3>2. CASE s = "msh"
      BY <1>6, <2>1, <3>2, Typed, SMT DEF ObjectType
    <3>3. QED
      BY <3>1, <3>2
  <2>3. QED
    BY <1>4, <1>6, <2>2, Zenon DEF WriteSetting
<1>7. ASSUME Bookkeeping, NEW o \in Objects, NEW n \in Lengths,
             WriteBytes(o, n) \/ Xfer(o, n) \/ Xfer2(o, n) \/ ReadBytes(o, n)
      PROVE  DescriptorsApart'
  BY <1>4, <1>7, Zenon DEF WriteBytes, Xfer, Xfer2, ReadBytes, Transfer
<1>8. ASSUME Bookkeeping, UNCHANGED vars PROVE DescriptorsApart'
  BY <1>4, <1>8, Zenon DEF vars
<1>9. QED
  BY <1>1, <1>2, <1>3, <1>5, <1>6, <1>7, <1>8, Steps, Zenon

(* Every descriptor in use belongs to one object, and every cached setting  *)
(* is in the range that the C type and the setter's check allow.           *)
THEOREM BookkeepingCorrect == Spec => []Bookkeeping
<1>1. Init => Bookkeeping
  BY SpiInit
<1>2. Bookkeeping /\ [Next]_vars => Bookkeeping'
  BY TypeStep, ApartStep DEF Bookkeeping
<1>3. QED
  BY <1>1, <1>2, PTL DEF Spec

-----------------------------------------------------------------------------
(* The cache.  A setting is trusted from the moment that it was read or      *)
(* written to the moment that another object writes it, or that the object   *)
(* is connected anew.                                                      *)
LEMMA AgreesOpen ==
  ASSUME Bookkeeping, CacheAgrees, NEW o \in Objects, NEW d \in Devices, Open(o, d)
  PROVE  CacheAgrees'
<1> USE DEF Bookkeeping
<1>1. PICK n \in 0 .. 3 :
         /\ FreeFds # {}
         /\ file' = [file EXCEPT ![LowestFree] = d]
         /\ obj' = [obj EXCEPT ![o] = ReadSettings(o, d, n)]
         /\ trust' = [trust EXCEPT ![o] = WereRead(n)]
  BY Zenon DEF Open
<1>2. device' = device
  BY Zenon DEF Open
<1>3. LowestFree \in Fds /\ file[LowestFree] = None
  BY <1>1, LowestFreeIsFree, Zenon DEF FreeFds
<1>4. LowestFree # 0
  BY <1>3, SpiAssumption, SMT DEF Fds
<1>5. /\ obj'[o] = ReadSettings(o, d, n) /\ trust'[o] = WereRead(n)
      /\ \A p \in Objects \ {o} : obj'[p] = obj[p] /\ trust'[p] = trust[p]
  BY <1>1, Typed, SMT
<1>6. DeviceOf(o)' = d
  BY <1>1, <1>3, <1>4, <1>5, Typed, SMT DEF DeviceOf, ReadSettings
<1>7. \A p \in Objects \ {o} : DeviceOf(p)' = DeviceOf(p)
  <2>1. \A p \in Objects : obj[p].fd # 0 => obj[p].fd # LowestFree
    BY <1>3, Zenon DEF DescriptorsApart
  <2>2. \A p \in Objects : obj[p].fd # 0 => obj[p].fd \in Fds
    BY Typed, SMT DEF ObjectType, Fds
  <2>3. QED
    BY <1>1, <1>3, <1>5, <2>1, <2>2, Typed, SMT DEF DeviceOf
<1>8. \A s \in trust'[o] : obj'[o][s] = device[d][s]
  BY <1>5, SMT DEF WereRead, ReadSettings
<1>9. QED
  BY <1>2, <1>5, <1>6, <1>7, <1>8, SMT DEF CacheAgrees

LEMMA AgreesClose ==
  ASSUME Bookkeeping, CacheAgrees, NEW o \in Objects, Close(o) \/ OpenFails(o)
  PROVE  CacheAgrees'
<1> USE DEF Bookkeeping
<1>1. device' = device
  BY Zenon DEF Close, OpenFails
<1>2. CASE UNCHANGED <<obj, file, trust>>
  BY <1>1, <1>2, Zenon DEF CacheAgrees, DeviceOf
<1>3. CASE /\ trust' = [trust EXCEPT ![o] = {}]
           /\ \A p \in Objects \ {o} : obj'[p] = obj[p]
           /\ \A f \in Fds : f # obj[o].fd => file'[f] = file[f]
  <2>1. trust'[o] = {} /\ \A p \in Objects \ {o} : trust'[p] = trust[p]
    BY <1>3, Typed, SMT
  <2>2. \A p \in Objects \ {o} : DeviceOf(p)' = DeviceOf(p)
    <3>1. \A p \in Objects : obj[p].fd # 0 => obj[p].fd \in Fds
      BY Typed, SMT DEF ObjectType, Fds
    <3>2. \A p \in Objects \ {o} : obj[p].fd # 0 => obj[p].fd # obj[o].fd
      BY Zenon DEF DescriptorsApart
    <3>3. QED
      BY <1>3, <3>1, <3>2, SMT DEF DeviceOf
  <2>3. QED
    BY <1>1, <1>3, <2>1, <2>2, SMT DEF CacheAgrees
<1>4. CASE Close(o)
  <2>1. \A p \in Objects \ {o} : obj'[p] = obj[p]
    BY <1>4, Typed, SMT DEF Close
  <2>2. \A f \in Fds : f # obj[o].fd => file'[f] = file[f]
    BY <1>4, Typed, SMT DEF Close
  <2>3. QED
    BY <1>3, <1>4, <2>1, <2>2, Zenon DEF Close
<1>5. CASE OpenFails(o)
  <2>1. CASE obj' = [obj EXCEPT ![o].fd = 0] /\ trust' = [trust EXCEPT ![o] = {}]
    <3>1. \A p \in Objects \ {o} : obj'[p] = obj[p]
      BY <2>1, Typed, SMT
    <3>2. QED
      BY <1>3, <1>5, <2>1, <3>1, Zenon DEF OpenFails
  <2>2. QED
    BY <1>2, <1>5, <2>1, Zenon DEF OpenFails
<1>6. QED
  BY <1>4, <1>5

(* A setting s of o's device becomes v, in the kernel and in o's cache.    *)
LEMMA AgreesWritten ==
  ASSUME Bookkeeping, CacheAgrees, NEW o \in Objects, NEW s \in Settings, NEW v,
         DeviceOf(o) # None, file' = file,
         device' = [device EXCEPT ![DeviceOf(o)][s] = v],
         obj' = [obj EXCEPT ![o][s] = v],
         trust' = Overtake(o, DeviceOf(o), s)
  PROVE  CacheAgrees'
<1> USE DEF Bookkeeping
<1>1. DeviceOf(o) \in Devices /\ s # "fd"
  BY DeviceKnown, SMT DEF Settings
<1>2. \A p \in Objects : /\ obj'[p].fd = obj[p].fd
                         /\ \A r \in Settings : obj'[p][r] = IF p = o /\ r = s THEN v ELSE obj[p][r]
  <2>1. CASE s = "mode"
    BY <2>1, Typed, SMT DEF ObjectType, Settings
  <2>2. CASE s = "bpw"
    BY <2>2, Typed, SMT DEF ObjectType, Settings
  <2>3. CASE s = "msh"
    BY <2>3, Typed, SMT DEF ObjectType, Settings
  <2>4. QED
    BY <2>1, <2>2, <2>3, Zenon DEF Settings
<1>3. \A p \in Objects : DeviceOf(p)' = DeviceOf(p)
  BY <1>2, SMT DEF DeviceOf
<1>4. \A d \in Devices, r \in Settings :
        device'[d][r] = IF d = DeviceOf(o) /\ r = s THEN v ELSE device[d][r]
  <2>1. CASE s = "mode"
    BY <1>1, <2>1, Typed, SMT DEF DeviceType, Settings
  <2>2. CASE s = "bpw"
    BY <1>1, <2>2, Typed, SMT DEF DeviceType, Settings
  <2>3. CASE s = "msh"
    BY <1>1, <2>3, Typed, SMT DEF DeviceType, Settings
  <2>4. QED
    BY <2>1, <2>2, <2>3, Zenon DEF Settings
<1>5. ASSUME NEW p \in Objects, NEW r \in trust'[p], DeviceOf(p) # None
      PROVE  obj'[p][r] = device'[DeviceOf(p)][r]
  <2>1. r \in Settings /\ DeviceOf(p) \in Devices
    BY <1>5, OvertakeType, Typed, DeviceKnown, SMT
  <2>2. CASE p = o
    <3>1. r = s \/ r \in trust[o]
      BY <1>5, <2>2, OvertakeType, SMT
    <3>2. QED
      BY <1>2, <1>4, <2>1, <2>2, <3>1, SMT DEF CacheAgrees
  <2>3. CASE p # o
    <3>1. r \in trust[p] /\ (DeviceOf(p) = DeviceOf(o) => r # s)
      BY <1>5, <2>3, OvertakeType, SMT
    <3>2. QED
      BY <1>2, <1>4, <1>5, <2>1, <2>3, <3>1, SMT DEF CacheAgrees
  <2>4. QED
    BY <2>2, <2>3
<1>6. QED
  BY <1>3, <1>5, SMT DEF CacheAgrees

(* A mode that was refused is in the cache alone, and no longer trusted.    *)
LEMMA AgreesRefused ==
  ASSUME Bookkeeping, CacheAgrees, NEW o \in Objects, NEW mode,
         UNCHANGED <<file, device>>, obj' = [obj EXCEPT ![o].mode = mode],
         trust' = [trust EXCEPT ![o] = @ \ {"mode"}]
  PROVE  CacheAgrees'
<1> USE DEF Bookkeeping
<1>1. \A p \in Objects : /\ obj'[p].fd = obj[p].fd
                         /\ \A r \in Settings : p # o \/ r # "mode" => obj'[p][r] = obj[p][r]
  BY Typed, SMT DEF ObjectType, Settings
<1>2. \A p \in Objects : trust'[p] \subseteq trust[p] /\ trust'[p] \subseteq Settings
                         /\ (p = o => "mode" \notin trust'[p])
  BY Typed, SMT
<1>3. QED
  BY <1>1, <1>2, SMT DEF CacheAgrees, DeviceOf

LEMMA AgreesStep == Bookkeeping /\ CacheAgrees /\ [Next]_vars => CacheAgrees'
<1> SUFFICES ASSUME Bookkeeping, CacheAgrees, [Next]_vars PROVE CacheAgrees'
  OBVIOUS
<1> USE DEF Bookkeeping
<1>1. ASSUME UNCHANGED <<obj, file, device, trust>> PROVE CacheAgrees'
  BY <1>1, Zenon DEF CacheAgrees, DeviceOf
<1>2. ASSUME NEW o \in Objects, NEW mode, WriteMode(o, mode) PROVE CacheAgrees'
  <2>1. CASE /\ DeviceOf(o) # None
             /\ device' = [device EXCEPT ![DeviceOf(o)].mode = mode]
             /\ trust' = Overtake(o, DeviceOf(o), "mode")
    BY <1>2, <2>1, AgreesWritten, Zenon DEF WriteMode, Settings
  <2>2. CASE trust' = [trust EXCEPT ![o] = @ \ {"mode"}] /\ UNCHANGED device
    BY <1>2, <2>2, AgreesRefused, Zenon DEF WriteMode
  <2>3. QED
    BY <1>2, <2>1, <2>2, Zenon DEF WriteMode
<1>3. ASSUME NEW o \in Objects, NEW s \in {"bpw", "msh"}, NEW v, WriteSetting(o, s, v)
      PROVE  CacheAgrees'
  <2>1. s \in Settings /\ file' = file
    BY <1>3, Zenon DEF Settings, WriteSetting
  <2>2. CASE UNCHANGED <<obj, device, trust>>
    BY <1>1, <2>1, <2>2
  <2>3. CASE /\ DeviceOf(o) # None
             /\ device' = [device EXCEPT ![DeviceOf(o)][s] = v]
             /\ obj' = [obj EXCEPT ![o][s] = v]
             /\ trust' = Overtake(o, DeviceOf(o), s)
    BY <2>1, <2>3, AgreesWritten, Zenon
  <2>4. QED
    BY <1>3, <2>2, <2>3, SMT DEF WriteSetting
<1>4. ASSUME NEW o \in Objects, NEW n \in Lengths,
             WriteBytes(o, n) \/ Xfer(o, n) \/ Xfer2(o, n) \/ ReadBytes(o, n)
      PROVE  CacheAgrees'
  BY <1>1, <1>4, Zenon DEF WriteBytes, Xfer, Xfer2, ReadBytes, Transfer
<1>5. CASE UNCHANGED vars
  BY <1>1, <1>5, Zenon DEF vars
<1>6. QED
  BY <1>2, <1>3, <1>4, <1>5, AgreesOpen, AgreesClose, Steps, Zenon

(* What is trusted in a cache is what the device has.                       *)
THEOREM CacheCorrect == Spec => []CacheAgrees
<1>1. Init => Bookkeeping /\ CacheAgrees
  BY SpiInit
<1>2. Bookkeeping /\ CacheAgrees /\ [Next]_vars => CacheAgrees'
  BY AgreesStep
<1>3. QED
  BY <1>1, <1>2, BookkeepingCorrect, PTL DEF Spec

(* A setter of the mode writes the cached mode with its own bits changed, so *)
(* the other bits of the device stay, if the cache is trusted.             *)
LEMMA OthersKeptByMode ==
  ASSUME Bookkeeping, CacheAgrees, NEW o \in Objects, DeviceOf(o) # None,
         "mode" \in trust[o], NEW mode \in SUBSET ModeBits, NEW bits,
         WriteMode(o, mode), mode \subseteq obj[o].mode \cup bits,
         obj[o].mode \subseteq mode \cup bits
  PROVE  Changed(DeviceOf(o)) \subseteq bits
<1> USE DEF Bookkeeping
<1>1. DeviceOf(o) \in Devices
  BY DeviceKnown
<1>2. device[DeviceOf(o)].mode = obj[o].mode
  BY SMT DEF CacheAgrees
<1>3. device'[DeviceOf(o)].mode \in {mode, obj[o].mode}
  <2>1. CASE device' = [device EXCEPT ![DeviceOf(o)].mode = mode]
    BY <1>1, <2>1, Typed, SMT DEF DeviceType
  <2>2. CASE device' = device
    BY <1>2, <2>2, SMT
  <2>3. QED
    BY <2>1, <2>2, Zenon DEF WriteMode
<1>4. QED
  BY <1>2, <1>3, SMT DEF Changed

LEMMA OthersKeptStep ==
  ASSUME Bookkeeping, CacheAgrees
  PROVE  \A o \in Objects :
           DeviceOf(o) # None /\ "mode" \in trust[o] =>
             /\ \A m \in Modes : SetMode(o, m) => Changed(DeviceOf(o)) \subseteq {"CPHA", "CPOL"}
             /\ \A bit \in Bits, on \in BOOLEAN :
                  SetBit(o, bit, on) => Changed(DeviceOf(o)) \subseteq {bit}
<1> TAKE o \in Objects
<1> HAVE DeviceOf(o) # None /\ "mode" \in trust[o]
<1> USE DEF Bookkeeping
<1>1. ASSUME NEW m \in Modes, SetMode(o, m)
      PROVE  Changed(DeviceOf(o)) \subseteq {"CPHA", "CPOL"}
  <2> DEFINE mode == WithMode(obj[o].mode, m % 256)
  <2>1. mode \in SUBSET ModeBits /\ WriteMode(o, mode)
    <3>1. m % 256 \in Nat
      BY SpiAssumption, SMT
    <3>2. QED
      BY <1>1, <3>1, ModesWritten, Zenon DEF SetMode
  <2>2. mode \subseteq obj[o].mode \cup {"CPHA", "CPOL"}
    BY SMT DEF WithMode, PolarityAndPhase
  <2>3. obj[o].mode \subseteq mode \cup {"CPHA", "CPOL"}
    BY SMT DEF WithMode
  <2> HIDE DEF mode
  <2>4. QED
    BY <2>1, <2>2, <2>3, OthersKeptByMode, Zenon
<1>2. ASSUME NEW bit \in Bits, NEW on \in BOOLEAN, SetBit(o, bit, on)
      PROVE  Changed(DeviceOf(o)) \subseteq {bit}
  <2> DEFINE mode == IF on THEN obj[o].mode \cup {bit} ELSE obj[o].mode \ {bit}
  <2>1. mode \in SUBSET ModeBits /\ WriteMode(o, mode)
    BY <1>2, ModesWritten, Zenon DEF SetBit
  <2>2. mode \subseteq obj[o].mode \cup {bit} /\ obj[o].mode \subseteq mode \cup {bit}
    BY SMT
  <2> HIDE DEF mode
  <2>3. QED
    BY <2>1, <2>2, OthersKeptByMode, Zenon
<1>3. QED
  BY <1>1, <1>2

(* Setting one attribute changes no other of the device.                    *)
THEOREM SettersKeepOthers == Spec => OthersKept
<1>1. Init => Bookkeeping /\ CacheAgrees
  BY SpiInit
<1>2. Bookkeeping /\ CacheAgrees =>
        \A o \in Objects :
          DeviceOf(o) # None /\ "mode" \in trust[o] =>
            /\ \A m \in Modes : SetMode(o, m) => Changed(DeviceOf(o)) \subseteq {"CPHA", "CPOL"}
            /\ \A bit \in Bits, on \in BOOLEAN :
                 SetBit(o, bit, on) => Changed(DeviceOf(o)) \subseteq {bit}
  BY OthersKeptStep
<1>3. QED
  BY <1>1, <1>2, BookkeepingCorrect, CacheCorrect, PTL DEF OthersKept

-----------------------------------------------------------------------------
(* Transfers.                                                              *)
LEMMA WholeStep == TransfersWhole /\ [Next]_vars => TransfersWhole'
<1> SUFFICES ASSUME TransfersWhole, [Next]_vars PROVE TransfersWhole'
  OBVIOUS
<1>1. ASSUME last' = last \/ last' = NoTransfer PROVE TransfersWhole'
  BY <1>1, SMT DEF TransfersWhole, NoTransfer, MAXMSGLEN
<1>2. ASSUME NEW n \in Lengths, NEW fn \in {"writebytes", "xfer", "xfer2"}, NEW o, NEW sent,
             Transfer(o, fn, n, sent),
             sent = ListLength(n) \/ (fn = "xfer" /\ sent = Messages(ListLength(n)))
      PROVE  TransfersWhole'
  <2>1. n \in Nat /\ ListLength(n) <= MAXMSGLEN
    BY <1>2, SpiAssumption, SMT DEF Transfer, TooLong, ListLength, MAXMSGLEN
  <2>2. n \in 1 .. MAXMSGLEN => ListLength(n) = n /\ (n < 512 => Messages(ListLength(n)) = n)
    BY SMT DEF ListLength, Messages, MAXMSGLEN
  <2>3. \/ last' = [fn |-> fn, asked |-> n, stored |-> ListLength(n), sent |-> sent]
        \/ last' = [NoTransfer EXCEPT !.stored = ListLength(n)]
    BY <1>2, Zenon DEF Transfer
  <2>4. QED
    <3> HIDE DEF ListLength, Messages
    <3>1. QED
      BY <1>2, <2>1, <2>2, <2>3, SMT DEF TransfersWhole, NoTransfer, MAXMSGLEN
<1>3. ASSUME NEW o, NEW n \in Lengths, ReadBytes(o, n) PROVE TransfersWhole'
  BY <1>3, SpiAssumption, SMT DEF ReadBytes, TransfersWhole, NoTransfer, MAXMSGLEN
<1>4. ASSUME NEW o \in Objects, NEW n \in Lengths,
             WriteBytes(o, n) \/ Xfer(o, n) \/ Xfer2(o, n)
      PROVE  TransfersWhole'
  BY <1>2, <1>4, SMT DEF WriteBytes, Xfer, Xfer2
<1>5. CASE UNCHANGED vars
  BY <1>1, <1>5, Zenon DEF vars
<1>6. ASSUME NEW o \in Objects,
             \/ \E d \in Devices : Open(o, d)
             \/ OpenFails(o) \/ Close(o)
             \/ \E m \in Modes : SetMode(o, m)
             \/ \E bit \in Bits, on \in BOOLEAN : SetBit(o, bit, on)
             \/ \E v \in Words : SetBpw(o, v)
             \/ \E v \in Speeds : SetMsh(o, v)
      PROVE  last' = NoTransfer
  BY <1>6, Zenon DEF Open, OpenFails, Close, SetMode, SetBit, SetBpw, SetMsh, WriteMode,
     WriteSetting
<1>7. QED
  BY <1>1, <1>3, <1>4, <1>5, <1>6, Zenon DEF Next

(* What is sent is what was asked for, and nothing is stored past the buffer. *)
THEOREM TransfersCorrect == Spec => []TransfersWhole
<1>1. Init => TransfersWhole
  BY SpiInit
<1>2. TransfersWhole /\ [Next]_vars => TransfersWhole'
  BY WholeStep
<1>3. QED
  BY <1>1, <1>2, PTL DEF Spec
=============================================================================
