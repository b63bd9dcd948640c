---------------------------------- MODULE Spi ----------------------------------
(***************************************************************************)
(* Adafruit_BBIO.SPI (spimodule.c).  An object caches the mode, the bits    *)
(* per word and the speed of the device it is connected to; the kernel      *)
(* keeps them per device, whoever set them.  A mode is rewritten whenever   *)
(* one of its attributes is set, from the cache; bits per word and speed    *)
(* are only written when they differ from the cache.                       *)
(*                                                                         *)
(* Objects may share a device, a controller may not support every mode      *)
(* bit, and a file operation may fail.  close() of a device file does not.  *)
(* What is transferred is modelled by its length; the exceptions raised    *)
(* are modelled as a call that is not "ok".  Speeds are below 2^32.         *)
(***************************************************************************)
EXTENDS Naturals, FiniteSets

CONSTANTS
  Objects, Devices,
  None,               \* no open file behind a descriptor
  Unsupported,        \* mode bits the controllers refuse
  Bits, Modes, Words, Speeds, Lengths,  \* what a program sets and passes
  MaxFd, MaxFaults    \* bounds: descriptor numbers, failing file operations

ModeBits == {"CPHA", "CPOL", "CS_HIGH", "LSB_FIRST", "3WIRE", "LOOP"}

ASSUME SpiAssumption ==
  /\ None \notin Devices /\ Unsupported \subseteq ModeBits
  /\ Bits \subseteq ModeBits \ {"CPHA", "CPOL"}
  /\ Objects # {} /\ Modes \subseteq Nat /\ Words \subseteq Nat /\ Speeds \subseteq Nat
  /\ Lengths \subseteq Nat /\ MaxFd \in Nat /\ MaxFaults \in Nat

VARIABLES
  obj,     \* the objects: fd (0 for -1), mode, bpw, msh
  file,    \* kernel: the device behind each descriptor number
  device,  \* kernel: mode, bpw and msh of each device
  faults,
  last,    \* the last call if it was a transfer: values asked for, stored in a buffer,
           \* and sent when it succeeded
  trust    \* history: which cached settings were not overtaken, see Overtake

vars == <<obj, file, device, faults, last, trust>>

Fds == 1 .. MaxFd
Settings == {"mode", "bpw", "msh"}

TypeOK ==
  /\ obj \in [Objects -> [fd : 0 .. MaxFd, mode : SUBSET ModeBits, bpw : 0 .. 16,
                          msh : Nat]]
  /\ file \in [Fds -> Devices \cup {None}]
  /\ device \in [Devices -> [mode : SUBSET ModeBits, bpw : 8 .. 16, msh : Nat]]
  /\ faults \in 0 .. MaxFaults
  /\ last \in [fn : {"none", "writebytes", "xfer", "xfer2"}, asked : Nat, stored : Nat,
               sent : Nat]
  /\ trust \in [Objects -> SUBSET Settings]

NoTransfer == [fn |-> "none", asked |-> 0, stored |-> 0, sent |-> 0]
\* SPI_new() and SPI_close(): nothing known, nothing open
Closed == [fd |-> 0, mode |-> {}, bpw |-> 0, msh |-> 0]

Init ==
  /\ obj = [o \in Objects |-> Closed] /\ file = [f \in Fds |-> None]
  /\ device = [d \in Devices |-> [mode |-> {}, bpw |-> 8, msh |-> 1]]
  /\ faults = 0 /\ last = NoTransfer /\ trust = [o \in Objects |-> {}]

-----------------------------------------------------------------------------

DeviceOf(o) == IF obj[o].fd = 0 THEN None ELSE file[obj[o].fd]
Fault == faults < MaxFaults /\ faults' = faults + 1

FreeFds == {f \in Fds : file[f] = None}
LowestFree == CHOOSE f \in FreeFds : \A g \in FreeFds : f <= g

\* o has written a setting of d, so that no other object connected to d knows it
Overtake(o, d, setting) ==
  [p \in Objects |-> IF p = o THEN trust[p] \cup {setting}
                     ELSE IF DeviceOf(p) = d THEN trust[p] \ {setting} ELSE trust[p]]

-----------------------------------------------------------------------------
(* open(): the descriptor is stored before it is known to be one, a former  *)
(* one is forgotten, and the settings are read one by one.                 *)

\* o with a new descriptor, after the first n settings were read
ReadSettings(o, d, n) ==
  [fd   |-> LowestFree,
   mode |-> IF n >= 1 THEN device[d].mode ELSE obj[o].mode,
   bpw  |-> IF n >= 2 THEN device[d].bpw ELSE obj[o].bpw,
   msh  |-> IF n >= 3 THEN device[d].msh ELSE obj[o].msh]
WereRead(n) == (IF n >= 1 THEN {"mode"} ELSE {}) \cup (IF n >= 2 THEN {"bpw"} ELSE {})
                 \cup (IF n >= 3 THEN {"msh"} ELSE {})

Open(o, d) ==
  /\ \E n \in 0 .. 3 :
       /\ FreeFds # {}
       /\ file' = [file EXCEPT ![LowestFree] = d]
       /\ obj' = [obj EXCEPT ![o] = ReadSettings(o, d, n)]
       /\ trust' = [trust EXCEPT ![o] = WereRead(n)]
       /\ IF n = 3 THEN UNCHANGED faults ELSE Fault
  /\ last' = NoTransfer /\ UNCHANGED device

\* no cape, which is seen first, or no such file
OpenFails(o) ==
  /\ Fault /\ last' = NoTransfer
  /\ \/ UNCHANGED <<obj, trust>>
     \/ obj' = [obj EXCEPT ![o].fd = 0] /\ trust' = [trust EXCEPT ![o] = {}]
  /\ UNCHANGED <<file, device>>

\* SPI_close(), by the program or when the object is freed; the variant keeps the number
ClosedObjectKept(o) == [Closed EXCEPT !.fd = obj[o].fd]
ClosedObject(o) == Closed
Close(o) ==
  /\ file' = IF obj[o].fd = 0 THEN file ELSE [file EXCEPT ![obj[o].fd] = None]
  /\ obj' = [obj EXCEPT ![o] = ClosedObject(o)]
  /\ trust' = [trust EXCEPT ![o] = {}]
  /\ last' = NoTransfer
  /\ UNCHANGED <<device, faults>>

-----------------------------------------------------------------------------
(* The setters.                                                            *)

\* __SPI_set_mode() and the assignment after it, which does not look at its result
WriteMode(o, mode) ==
  /\ \/ /\ DeviceOf(o) # None /\ mode \cap Unsupported = {}
        /\ device' = [device EXCEPT ![DeviceOf(o)].mode = mode]
        /\ trust' = Overtake(o, DeviceOf(o), "mode")
        /\ UNCHANGED faults
     \/ /\ IF DeviceOf(o) # None /\ mode \cap Unsupported = {} THEN Fault
           ELSE UNCHANGED faults
        /\ trust' = [trust EXCEPT ![o] = @ \ {"mode"}]
        /\ UNCHANGED device
  /\ obj' = [obj EXCEPT ![o].mode = mode]
  /\ last' = NoTransfer
  /\ UNCHANGED file

\* the mode attribute is two bits of a uint8_t
PolarityAndPhase(m) == (IF m % 2 = 1 THEN {"CPHA"} ELSE {}) \cup
                       (IF m \div 2 = 1 THEN {"CPOL"} ELSE {})
WithModeOnly(mode, m) == PolarityAndPhase(m)   \* the variant forgets the other bits
WithMode(mode, m) == (mode \ {"CPHA", "CPOL"}) \cup PolarityAndPhase(m)
SetMode(o, val) ==
  /\ val % 256 <= 3
  /\ WriteMode(o, WithMode(obj[o].mode, val % 256))

\* cshigh, lsbfirst, threewire and loop
SetBit(o, bit, on) ==
  WriteMode(o, IF on THEN obj[o].mode \cup {bit} ELSE obj[o].mode \ {bit})

\* bpw and msh: nothing is written when the cache has the value already; the variant
\* caches before it knows that the device took the value
WriteSettingEarly(o, setting, v) ==
  /\ obj' = [obj EXCEPT ![o][setting] = v]
  /\ IF obj[o][setting] = v THEN UNCHANGED <<device, faults, trust>>
     ELSE \/ /\ DeviceOf(o) # None /\ UNCHANGED faults
             /\ device' = [device EXCEPT ![DeviceOf(o)][setting] = v]
             /\ trust' = Overtake(o, DeviceOf(o), setting)
          \/ /\ IF DeviceOf(o) # None THEN Fault ELSE UNCHANGED faults
             /\ UNCHANGED <<device, trust>>
  /\ last' = NoTransfer /\ UNCHANGED file
WriteSetting(o, setting, v) ==
  /\ IF obj[o][setting] = v THEN UNCHANGED <<obj, device, faults, trust>>
     ELSE \/ /\ DeviceOf(o) # None /\ UNCHANGED faults
             /\ device' = [device EXCEPT ![DeviceOf(o)][setting] = v]
             /\ obj' = [obj EXCEPT ![o][setting] = v]
             /\ trust' = Overtake(o, DeviceOf(o), setting)
          \/ /\ IF DeviceOf(o) # None THEN Fault ELSE UNCHANGED faults
             /\ UNCHANGED <<obj, device, trust>>
  /\ last' = NoTransfer /\ UNCHANGED file

SetAnyBpw(o, val) == WriteSetting(o, "bpw", val % 256)  \* the variant: no range
SetBpw(o, val) == val % 256 \in 8 .. 16 /\ WriteSetting(o, "bpw", val % 256)
SetMsh(o, val) == WriteSetting(o, "msh", val)

-----------------------------------------------------------------------------
(* Transfers.  The answers of xfer() and xfer2() replace the values in the   *)
(* program's list, so a list of n values always comes back with n.          *)

MAXMSGLEN == 1024

\* the length of a list is assigned to a uint16_t before it is compared; in the variants
\* to a uint8_t, and not compared
ListLengthByte(n) == n % 256
ListLength(n) == n % 65536
TooLongNever(len) == FALSE
TooLong(len) == len > MAXMSGLEN

\* kernel: SPI_IOC_MESSAGE(n) has 14 bits for the size of n 32-byte structures; when they
\* do not fit the size is 0, which the driver takes for no message at all
Messages(n) == IF n * 32 < 16384 THEN n ELSE 0

\* a call that returns a result, or one that raises
Transfer(o, fn, n, sent) ==
  /\ ~TooLong(ListLength(n))
  /\ \/ /\ DeviceOf(o) # None /\ UNCHANGED faults
        /\ last' = [fn |-> fn, asked |-> n, stored |-> ListLength(n), sent |-> sent]
     \/ /\ IF DeviceOf(o) # None THEN Fault ELSE UNCHANGED faults
        /\ last' = [NoTransfer EXCEPT !.stored = ListLength(n)]
  /\ UNCHANGED <<obj, file, device, trust>>

\* one write(), one message per value, one message of all values
WriteBytes(o, n) == Transfer(o, "writebytes", n, ListLength(n))
Xfer(o, n) == Transfer(o, "xfer", n, Messages(ListLength(n)))
Xfer2(o, n) == Transfer(o, "xfer2", n, ListLength(n))

\* 1 to MAXMSGLEN bytes, whatever the program asks for
ReadBytes(o, n) ==
  /\ IF DeviceOf(o) # None THEN UNCHANGED faults \/ Fault ELSE UNCHANGED faults
  /\ last' = [NoTransfer EXCEPT !.stored =
                IF n < 1 THEN 1 ELSE IF n > MAXMSGLEN THEN MAXMSGLEN ELSE n]
  /\ UNCHANGED <<obj, file, device, trust>>

Next ==
  \E o \in Objects :
    \/ \E d \in Devices : Open(o, d)
    \/ OpenFails(o)
    \/ Close(o)
    \/ \E m \in Modes : SetMode(o, m)
    \/ \E bit \in Bits, on \in BOOLEAN : SetBit(o, bit, on)
    \/ \E v \in Words : SetBpw(o, v)
    \/ \E v \in Speeds : SetMsh(o, v)
    \/ \E n \in Lengths : WriteBytes(o, n) \/ Xfer(o, n) \/ Xfer2(o, n) \/ ReadBytes(o, n)

Spec == Init /\ [][Next]_vars

-----------------------------------------------------------------------------
(* Properties.                                                             *)

\* What an object has cached is the device's setting, as long as no other object has
\* changed it and no write of a mode was refused: also after bits per word or speed could
\* not be set, and after an open() that failed between two reads.
CacheAgrees ==
  \A o \in Objects : \A s \in trust[o] :
    DeviceOf(o) # None => obj[o][s] = device[DeviceOf(o)][s]

\* Two objects never use one descriptor number, and an object's number is open: closing
\* the one, also when it is freed, does not disconnect the other.
DescriptorsApart ==
  /\ \A o, p \in Objects : obj[o].fd = obj[p].fd /\ obj[o].fd # 0 => o = p
  /\ \A o \in Objects : obj[o].fd # 0 => file[obj[o].fd] # None

\* So are the descriptors kept, and the cache in the range its C types and the checks of
\* the setters allow, whatever was passed, failed or refused.
Bookkeeping == TypeOK /\ DescriptorsApart

\* Setting one attribute leaves the others of the device alone, for an object whose
\* cached mode was not overtaken.
Changed(d) == (device[d].mode \ device'[d].mode) \cup (device'[d].mode \ device[d].mode)
OthersKept ==
  [][\A o \in Objects :
       DeviceOf(o) # None /\ "mode" \in trust[o] =>
         /\ \A m \in Modes : SetMode(o, m) => Changed(DeviceOf(o)) \subseteq {"CPHA", "CPOL"}
         /\ \A bit \in Bits, on \in BOOLEAN :
              SetBit(o, bit, on) => Changed(DeviceOf(o)) \subseteq {bit}]_vars

\* "at least one, but not more than 1024 integers" (spimodule.c:113): a transfer of so many
\* that returns has sent every one of them.
EveryValueSent ==
  last.fn # "none" /\ last.asked \in 1 .. MAXMSGLEN => last.sent = last.asked

\* So it is, but for an xfer() whose messages the ioctl's size field cannot count; and the
\* buffer of MAXMSGLEN holds what is stored, whatever the list's length is modulo 2^16.
TransfersWhole ==
  /\ last.fn # "none" /\ last.asked \in 1 .. MAXMSGLEN =>
       last.sent = last.asked \/ (last.fn = "xfer" /\ last.asked >= 512)
  /\ last.stored <= MAXMSGLEN

=============================================================================
