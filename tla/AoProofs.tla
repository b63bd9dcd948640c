------------------------------- MODULE AoProofs -------------------------------
(***************************************************************************)
(* The audio device for every set of options, formats, installations and    *)
(* defaults.  AoInv is inductive: it says how the options grow while the     *)
(* chain is walked, which device the attempts of an opening hold, and that  *)
(* of the drivers libao lacks at most one is set and not yet tried.  What   *)
(* the run checks of AoDevice follows from it.                              *)
(***************************************************************************)
EXTENDS AoDevice, FiniteSetTheorems, TLAPS

\* what CrashAfterFallback excludes otherwise: a lone sun, and two drivers asked for
Single == requested # {"sun"} /\ \A f, g \in requested \cap Drivers : f = g

\* the drivers of the chain that are still to come
Ahead == CASE pc \in {"specified", "alsa"} -> Chain
           [] pc = "alsa09" -> Chain \ {"alsa"}
           [] pc = "oss" -> {"oss", "sun", "esd", "arts"}
           [] pc = "sun" -> {"sun", "esd", "arts"}
           [] pc = "esd" -> {"esd", "arts"}
           [] pc = "arts" -> {"arts"}
           [] OTHER -> {}
\* the file without a name that OpenUserdef does not open
Nameless(flag) == flag = "userdef" /\ devicetype = "file" /\ device = "none"

\* what was chosen, and what was added to it
OptInv ==
  /\ device # "none" => opt = chosen
  /\ pc = "check" => opt = requested /\ chosen = requested
  /\ requested \notin {{}, {"sun"}} =>
       /\ chosen = requested
       /\ opt \subseteq requested \/ requested \cap tried # {}
  /\ requested \in {{}, {"sun"}} =>
       chosen = requested \/ \E d \in Drivers : chosen = requested \cup {d}
  /\ chosen \subseteq opt
  /\ opt # chosen => opt \subseteq Chain

\* the device that the attempts of this opening have left open
Held == IF buffered THEN pldev ELSE IF closed THEN None ELSE playdevice
\* a device that the options can have opened
Suits(d) == /\ d.flag \in opt /\ Has(d.flag)
            /\ ~(opt \subseteq Chain) => d.flag = Specified /\ ~Nameless(d.flag)
DeviceInv ==
  /\ pldev # None => buffered /\ pc \in Chain \cup {"restore"} \cup Ends
  /\ playdevice # None => Suits(playdevice)
  /\ pldev # None => Suits(pldev)
  /\ pc \in {"check", "frame"} => playdevice = None
  /\ closed => playdevice # None /\ pc \in Opening \cup Ends
  /\ pc = "restore" /\ ~buffered => ~closed
  /\ closed /\ ~buffered /\ pc \in Chain => opt \cap Ahead # {}
  /\ buffered /\ pc \in Opening => closed \/ playdevice = None

\* the formats agree, and an attempt finds nothing open but sun's device
OpeningInv ==
  /\ pc \in Opening => format = frame
  /\ pc = "specified" => Held = None
  /\ pc \in Chain /\ Held # None => pc \in {"esd", "arts"} /\ Held.flag = "sun"
  /\ pc \in Chain => opt \subseteq Chain
  /\ pc \in Opening /\ Held # None => Held.format = format
  /\ pc = "play" /\ playdevice # None =>
       playdevice.format = format /\ (Live(playdevice.flag) => format = frame)
  /\ pc = "play" => sigint = "handler"
  /\ pc \in {"frame", "play", "check"} => ~closed

\* a driver is added to the options only behind one that is there
Pred == [alsa |-> "alsa", alsa09 |-> "alsa", oss |-> "alsa09", sun |-> "oss", esd |-> "sun",
         arts |-> "esd"]
AddedBehind ==
  \A f \in opt \ chosen : f \in Chain \ {"alsa"} /\ Pred[f] \in opt

\* of the drivers that libao lacks at most one is set and not yet tried: the only one set
\* at first, and the last one added later
Unseen == {u \in opt : ~Has(u) /\ u \notin tried}
SeenInv ==
  Single /\ opt \subseteq Chain /\ Unseen # {} =>
    \/ pc \in {"check", "frame", "specified"} /\ playdevice = None /\ \E u \in Chain : opt = {u}
    \/ pc \in Chain /\ \E u \in Chain : opt \cap Ahead = {u} /\ Unseen = {u}
    \/ pc \in Ends \ {"segfault"}
AoInv == TypeOK /\ OptInv /\ DeviceInv /\ OpeningInv /\ LeaksBehindSun
         /\ AddedBehind /\ SeenInv /\ CrashAfterFallback

-----------------------------------------------------------------------------
(* The first flag of an order: a nonempty set of positions has a least one. *)
LEMMA LeastNumber ==
  ASSUME NEW A, A \subseteq Nat, A # {}
  PROVE  \E m \in A : \A n \in A : m <= n
<1> DEFINE R == StrictSubsetOrdering(Nat)
           T == {0 .. a : a \in A}
<1>1. IsWellFoundedOn(R, FiniteSubsetsOf(Nat))
  BY FS_StrictSubsetOrderingWellFounded, Zenon
<1>2. T \subseteq FiniteSubsetsOf(Nat) /\ T # {}
  <2>1. \A a \in A : IsFiniteSet(0 .. a) /\ 0 .. a \subseteq Nat
    BY FS_Interval, SMT
  <2>2. QED
    BY <2>1, Zenon DEF FiniteSubsetsOf
<1>3. \E x \in T : \A y \in T : <<y, x>> \notin R
  <2> HIDE DEF R, T
  <2>1. QED
    BY <1>1, <1>2, WFMin, Zenon
<1>4. PICK m \in A : \A n \in A : <<0 .. n, 0 .. m>> \notin R
  BY <1>3, Zenon
<1>5. ASSUME NEW n \in A, n < m PROVE FALSE
  <2>1. 0 .. n \subseteq 0 .. m /\ m \in 0 .. m /\ m \notin 0 .. n /\ 0 .. m \subseteq Nat
    BY <1>5, SMT
  <2>2. <<0 .. n, 0 .. m>> \in R
    BY <2>1, Zenon DEF StrictSubsetOrdering
  <2>3. QED
    BY <2>2, <1>4, Zenon
<1>6. QED
  BY <1>5, SMT


LEMMA FirstIsLeast ==
  ASSUME NEW order, NEW n \in Nat, DOMAIN order = 1 .. n, \E i \in 1 .. n : order[i] \in opt
  PROVE  \E i \in 1 .. n : /\ AskedFirst(order) = order[i] /\ order[i] \in opt
                           /\ \A j \in 1 .. i - 1 : order[j] \notin opt
<1> DEFINE A == {i \in 1 .. n : order[i] \in opt}
           P(i) == i \in DOMAIN order /\ order[i] \in opt /\ \A j \in 1 .. i - 1 : order[j] \notin opt
<1>1. A \subseteq Nat /\ A # {}
  BY SMT
<1>2. PICK m \in A : \A i \in A : m <= i
  BY <1>1, LeastNumber, Zenon
<1>3. P(m)
  BY <1>2, SMT
<1>4. P(CHOOSE i \in DOMAIN order : order[i] \in opt /\ \A j \in 1 .. i - 1 : order[j] \notin opt)
  BY <1>3, Zenon
<1>5. QED
  BY <1>4, Zenon DEF AskedFirst

(* What the two orders say of the flags that are set.                      *)
LEMMA AskedSet ==
  ASSUME opt \subseteq Flags, opt # {}
  PROVE  /\ Asked \in opt
         /\ Asked = "userdef" => opt = {"userdef"}
         /\ Asked \in Chain => opt \subseteq Chain \cup {"userdef"}
<1>1. DOMAIN Order = 1 .. 12 /\ \A f \in Flags : \E i \in 1 .. 12 : Order[i] = f
  BY SMT DEF Order, Flags, Chain, FileFlags
<1>2. \E i \in 1 .. 12 : Order[i] \in opt
  BY <1>1, Zenon
<1>3. PICK i \in 1 .. 12 : /\ Asked = Order[i] /\ Order[i] \in opt
                           /\ \A j \in 1 .. i - 1 : Order[j] \notin opt
  <2>1. 12 \in Nat
    OBVIOUS
  <2>2. QED
    BY <1>1, <1>2, <2>1, FirstIsLeast, Zenon DEF Asked
<1>4. Asked = "userdef" => opt = {"userdef"}
  <2>1. Order[i] = "userdef" => i = 12
    BY SMT DEF Order
  <2>2. \A f \in Flags \ {"userdef"} : \E j \in 1 .. 12 - 1 : Order[j] = f
    BY SMT DEF Order, Flags, Chain, FileFlags
  <2>3. ASSUME Asked = "userdef" PROVE \A j \in 1 .. 12 - 1 : Order[j] \notin opt
    BY <1>3, <2>1, <2>3, Zenon
  <2>4. ASSUME Asked = "userdef", NEW f \in Flags, f # "userdef" PROVE f \notin opt
    BY <2>2, <2>3, <2>4, Zenon
  <2>5. QED
    BY <1>3, <2>4, Zenon
<1>5. Asked \in Chain => opt \subseteq Chain \cup {"userdef"}
  BY <1>3, SMT DEF Order, Flags, Chain, FileFlags
<1>6. QED
  BY <1>3, <1>4, <1>5

LEMMA SpecifiedSet ==
  ASSUME opt \subseteq Flags, ~(opt \subseteq Chain)
  PROVE  /\ Specified \in opt \ Chain
         /\ Asked \notin Chain \cup {"userdef"} => Specified = Asked
<1> DEFINE order == <<"au", "cdr", "wav", "null", "stdout", "userdef">>
<1>1. DOMAIN order = 1 .. 6 /\ \A f \in Flags \ Chain : \E i \in 1 .. 6 : order[i] = f
  BY SMT DEF Flags, Chain, FileFlags
<1>2. \E i \in 1 .. 6 : order[i] \in opt
  BY <1>1, Zenon
<1>3. PICK i \in 1 .. 6 : /\ Specified = order[i] /\ order[i] \in opt
                          /\ \A j \in 1 .. i - 1 : order[j] \notin opt
  <2>1. 6 \in Nat
    OBVIOUS
  <2>2. QED
    BY <1>1, <1>2, <2>1, FirstIsLeast, Zenon DEF Specified
<1>4. DOMAIN Order = 1 .. 12 /\ \A f \in Flags : \E k \in 1 .. 12 : Order[k] = f
  BY SMT DEF Order, Flags, Chain, FileFlags
<1>5. \E k \in 1 .. 12 : Order[k] \in opt
  BY <1>4, Zenon
<1>6. PICK k \in 1 .. 12 : /\ Asked = Order[k] /\ Order[k] \in opt
                           /\ \A j \in 1 .. k - 1 : Order[j] \notin opt
  <2>1. 12 \in Nat
    OBVIOUS
  <2>2. QED
    BY <1>4, <1>5, <2>1, FirstIsLeast, Zenon DEF Asked
<1>7. Specified \in opt \ Chain
  BY <1>3, SMT DEF Chain
<1>8. Asked \notin Chain \cup {"userdef"} => Specified = Asked
  BY <1>3, <1>6, SMT DEF Order, Chain
<1>9. QED
  BY <1>7, <1>8

LEMMA AoInit == Init => AoInv
<1> SUFFICES ASSUME Init PROVE AoInv
  OBVIOUS
<1>1. TypeOK
  <2>1. opt \subseteq Flags /\ chosen \subseteq Flags
    BY AoAssumption, Zenon DEF Init
  <2>2. buffered \in BOOLEAN /\ closed \in BOOLEAN /\ gaveUp \in BOOLEAN
    BY Zenon DEF Init
  <2>3. sigint \in {"default", "handler"}
    BY Zenon DEF Init
  <2>4. QED
    BY <2>1, <2>2, <2>3, SMT DEF Init, TypeOK
<1>2. OptInv
  BY AoAssumption, SMT DEF Init, OptInv
<1>3. DeviceInv
  BY AoAssumption, SMT DEF Init, DeviceInv, Opening, Chain, Ends
<1>4. OpeningInv
  BY AoAssumption, SMT DEF Init, OpeningInv, Opening, Chain, Ends, Held
<1>5. AddedBehind /\ SeenInv
  <2>1. ASSUME NEW u \in opt, Single, opt \subseteq Chain PROVE opt = {u}
    BY <2>1, SMT DEF Init, Single, Drivers
  <2>2. QED
    BY <2>1, Zenon DEF Init, AddedBehind, SeenInv, Unseen
<1>6. LeaksBehindSun /\ CrashAfterFallback
  BY SMT DEF Init, LeaksBehindSun, CrashAfterFallback
<1>7. QED
  BY <1>1, <1>2, <1>3, <1>4, <1>5, <1>6 DEF AoInv

-----------------------------------------------------------------------------
(* The steps of Next, the buffered and the unbuffered variant of an attempt *)
(* told apart only where they differ, in a failure.                        *)
Kept == UNCHANGED <<given, format, frame, sigint, chosen>>
ToChain == /\ pc = "specified" /\ opt \subseteq Chain /\ pc' = "alsa"
           /\ NotAssigned /\ Kept
Unknown == /\ pc \in {"specified", "alsa"} /\ pc' = "exited" /\ NotAssigned /\ Kept
Crashed == /\ pc = "specified" /\ ~(opt \subseteq Chain) /\ Specified = "userdef"
           /\ Has("userdef") /\ ~Has(Asked) /\ pc' = "segfault" /\ NotAssigned /\ Kept
NoName == /\ pc = "specified" /\ ~(opt \subseteq Chain) /\ Nameless(Specified)
          /\ pc' = "restore" /\ NotAssigned /\ Kept
SpecifiedOpened ==
  /\ pc = "specified" /\ ~(opt \subseteq Chain) /\ ~Nameless(Specified)
  /\ Opened(Specified, "restore") /\ Kept
FailedExit(flag) ==
  /\ ~buffered /\ pc \in Opening /\ tried' = tried \cup {flag} /\ UNCHANGED opt /\ Exit /\ Kept
FailedNull(flag) ==
  /\ buffered /\ pc \in Opening /\ tried' = tried \cup {flag} /\ UNCHANGED opt /\ ReturnNull
  /\ (pc \in Chain /\ flag = pc /\ pc \in opt) \/ (pc = "specified" /\ ~(opt \subseteq Chain))
  /\ Kept
Skipped == /\ pc \in Chain /\ pc \notin opt /\ pc' = NextDriver(pc) /\ NotAssigned /\ Kept
DriverOpened == /\ pc \in Chain /\ pc \in opt /\ Opened(pc, AfterOpened(pc)) /\ Kept
DriverFell ==
  /\ pc \in Chain /\ pc \in opt /\ FallsThrough(pc) /\ tried' = tried \cup {pc}
  /\ opt' = opt \cup {NextDriver(pc)} /\ Assign(None) /\ pc' = NextDriver(pc)
  /\ UNCHANGED gaveUp /\ Kept
Ended ==
  /\ pc \notin Ends /\ pc' \in {"ended", "killed", "closedTwice"}
  /\ pc' = "closedTwice" => closed
  /\ UNCHANGED <<given, opt, playdevice, pldev, closed, format, frame, sigint, gaveUp,
                 chosen, tried, leaked>>
Checked ==
  /\ pc = "check"
  /\ \/ /\ opt \cap (Flags \ {"sun"}) # {} /\ UNCHANGED opt /\ pc' = "frame"
     \/ /\ opt \cap (Flags \ {"sun"}) = {} /\ pc' = "frame"
        /\ \E flag \in Drivers : opt' = opt \cup {flag}
     \/ opt \cap (Flags \ {"sun"}) = {} /\ UNCHANGED opt /\ pc' = IF buffered THEN "frame" ELSE "exited"
  /\ chosen' = opt' /\ gaveUp' \in BOOLEAN
  /\ UNCHANGED <<given, playdevice, pldev, closed, format, frame, sigint, tried, leaked>>

\* the file without a name, and the file driver that is opened as one
LEMMA UserdefFile ==
  ASSUME opt \subseteq Flags, ~(opt \subseteq Chain), Specified = "userdef", Has(Asked), ~Live(Asked),
         devicetype \in {"live", "file", "unknown"}
  PROVE  devicetype = "file"
<1>1. Asked \notin Chain
  BY Zenon DEF Live
<1>2. opt # {}
  OBVIOUS
<1>3. Specified = Asked \/ Asked = "userdef"
  BY <1>1, SpecifiedSet, Zenon
<1>4. Asked = "userdef"
  BY <1>3, Zenon
<1>5. QED
  BY <1>4, SMT DEF Has, Live, Chain

LEMMA SpecifiedMoves ==
  ASSUME TypeOK, open_ao_playdevice \/ open_ao_playdevice_buffer
  PROVE  \/ ToChain \/ Unknown \/ Crashed \/ NoName \/ SpecifiedOpened
         \/ \E flag \in Flags : FailedExit(flag) \/ FailedNull(flag)
<1> DEFINE Ways(failed) ==
             IF opt \subseteq Chain THEN pc' = "alsa" /\ NotAssigned
             ELSE IF Specified = "userdef" THEN OpenUserdef(failed)
             ELSE OpenedOrFailed(Specified, failed)
           Fails(flag, failed) == failed /\ tried' = tried \cup {flag} /\ UNCHANGED opt
<1>0. opt \subseteq Flags /\ devicetype \in {"live", "file", "unknown"}
  BY DEF TypeOK
<1>1. pc = "specified" /\ Kept /\ ((~buffered /\ Ways(Exit)) \/ (buffered /\ Ways(ReturnNull)))
  BY Zenon DEF open_ao_playdevice, open_ao_playdevice_buffer, OpenSpecified, Kept
<1>2. pc \in Opening
  BY <1>1, Zenon DEF Opening
<1>3. CASE opt \subseteq Chain
  BY <1>1, <1>3, Zenon DEF ToChain
<1>4. CASE ~(opt \subseteq Chain)
  <2>1. Specified \in Flags
    BY <1>0, <1>4, SpecifiedSet, Zenon
  <2>2. ASSUME NEW failed \in BOOLEAN, Ways(failed)
        PROVE  \/ Unknown \/ Crashed \/ NoName \/ SpecifiedOpened
               \/ Fails(Specified, failed)
    <3>1. CASE Specified # "userdef"
      <4>1. ~Nameless(Specified)
        BY <3>1, Zenon DEF Nameless
      <4>2. OpenedOrFailed(Specified, failed)
        BY <1>4, <2>2, <3>1, Zenon
      <4>3. QED
        BY <1>1, <1>4, <4>1, <4>2, Zenon DEF OpenedOrFailed, SpecifiedOpened
    <3>2. CASE Specified = "userdef"
      <4>1. OpenUserdef(failed)
        BY <1>4, <2>2, <3>2, Zenon
      <4>2. CASE devicetype = "unknown" /\ pc' = "exited" /\ NotAssigned
        BY <1>1, <4>2, Zenon DEF Unknown
      <4>3. CASE devicetype # "unknown" /\ ~Has(Asked) /\ pc' = "segfault" /\ NotAssigned
        <5>1. Has("userdef")
          BY <4>3, SMT DEF Has, Chain
        <5>2. QED
          BY <1>1, <1>4, <3>2, <4>3, <5>1, Zenon DEF Crashed
      <4>4. CASE devicetype = "live" /\ Opened("userdef", "restore")
        <5>1. ~Nameless(Specified)
          BY <4>4, SMT DEF Nameless
        <5>2. QED
          BY <1>1, <1>4, <3>2, <4>4, <5>1, Zenon DEF SpecifiedOpened
      <4>5. CASE Has(Asked) /\ ~Live(Asked) /\ device = "none" /\ pc' = "restore" /\ NotAssigned
        <5>1. Nameless(Specified)
          BY <1>0, <1>4, <3>2, <4>5, UserdefFile, Zenon DEF Nameless
        <5>2. QED
          BY <1>1, <1>4, <4>5, <5>1, Zenon DEF NoName
      <4>6. CASE device # "none" /\ Opened("userdef", "restore")
        <5>1. ~Nameless(Specified)
          BY <4>6, Zenon DEF Nameless
        <5>2. QED
          BY <1>1, <1>4, <3>2, <4>6, <5>1, Zenon DEF SpecifiedOpened
      <4>7. CASE Fails("userdef", failed)
        BY <3>2, <4>7
      <4>8. QED
        BY <4>1, <4>2, <4>3, <4>4, <4>5, <4>6, <4>7, Zenon DEF OpenUserdef, OpenedOrFailed
    <3>3. QED
      BY <3>1, <3>2
  <2>3. CASE ~buffered /\ Ways(Exit)
    <3>1. PICK b \in BOOLEAN : b <=> Exit
      OBVIOUS
    <3>2. Ways(b)
      BY <2>3, <3>1, Zenon DEF OpenUserdef, OpenedOrFailed
    <3>3. Unknown \/ Crashed \/ NoName \/ SpecifiedOpened \/ Fails(Specified, b)
      BY <2>2, <3>2, Zenon
    <3>4. QED
      BY <1>1, <1>2, <2>1, <2>3, <3>1, <3>3, Zenon DEF FailedExit
  <2>4. CASE buffered /\ Ways(ReturnNull)
    <3>1. PICK b \in BOOLEAN : b <=> ReturnNull
      OBVIOUS
    <3>2. Ways(b)
      BY <2>4, <3>1, Zenon DEF OpenUserdef, OpenedOrFailed
    <3>3. Unknown \/ Crashed \/ NoName \/ SpecifiedOpened \/ Fails(Specified, b)
      BY <2>2, <3>2, Zenon
    <3>4. QED
      BY <1>1, <1>2, <1>4, <2>1, <2>4, <3>1, <3>3, Zenon DEF FailedNull
  <2>5. QED
    BY <1>1, <2>3, <2>4, Zenon
<1>5. QED
  BY <1>3, <1>4

LEMMA DriverMoves ==
  ASSUME FallThrough \/ FallThroughBuffer
  PROVE  \/ Skipped \/ Unknown \/ DriverOpened \/ DriverFell
         \/ \E flag \in Flags : FailedExit(flag) \/ FailedNull(flag)
<1> DEFINE Attempt(flag, failed) ==
             \/ flag \notin opt /\ pc' = NextDriver(flag) /\ NotAssigned
             \/ flag = "alsa" /\ pc' = "exited" /\ NotAssigned
             \/ /\ flag \in opt
                /\ \/ Opened(flag, AfterOpened(flag))
                   \/ /\ FallsThrough(flag) /\ tried' = tried \cup {flag}
                      /\ opt' = opt \cup {NextDriver(flag)} /\ Assign(None)
                      /\ pc' = NextDriver(flag) /\ UNCHANGED gaveUp
                   \/ failed /\ tried' = tried \cup {flag} /\ UNCHANGED opt
<1>1. PICK flag \in Chain :
        /\ pc = flag /\ Kept
        /\ (~buffered /\ Attempt(flag, Exit)) \/ (buffered /\ Attempt(flag, ReturnNull))
  BY Zenon DEF FallThrough, FallThroughBuffer, TryDriver, Kept
<1>2. pc \in Opening /\ flag \in Flags
  BY <1>1, Zenon DEF Opening, Flags
<1>3. CASE ~buffered /\ Attempt(flag, Exit)
  BY <1>1, <1>2, <1>3, Zenon DEF Skipped, Unknown, DriverOpened, DriverFell, FailedExit
<1>4. CASE buffered /\ Attempt(flag, ReturnNull)
  BY <1>1, <1>2, <1>4, Zenon DEF Skipped, Unknown, DriverOpened, DriverFell, FailedNull
<1>5. QED
  BY <1>1, <1>3, <1>4, Zenon

LEMMA CheckMoves ==
  ASSUME TypeOK, check_default_play_device \/ check_default_play_device_buffer
  PROVE  Checked
<1>1. \A name \in DefaultDevices :
        (IF name \in Chain THEN name ELSE "userdef") \in Drivers
  BY Zenon DEF Drivers
<1>2. gaveUp \in BOOLEAN
  BY DEF TypeOK
<1>3. QED
  BY <1>1, <1>2, Zenon DEF check_default_play_device, check_default_play_device_buffer, DefaultChosen,
     NothingSelected, set_play_device, Checked

LEMMA Moves ==
  ASSUME TypeOK, Next
  PROVE  \/ Checked \/ OutputFrame \/ ToChain \/ Unknown \/ Crashed \/ NoName
         \/ SpecifiedOpened
         \/ \E flag \in Flags : FailedExit(flag) \/ FailedNull(flag)
         \/ Skipped \/ DriverOpened \/ DriverFell \/ Restore \/ RestoreBuffer \/ Ended
<1>1. CASE CloseAtEnd
  <2>1. pc \notin Ends
    BY <1>1, SMT DEF CloseAtEnd, Ends
  <2>2. QED
    BY <1>1, <2>1, SMT DEF CloseAtEnd, Ended
<1>2. CASE output_sighandler
  BY <1>2, SMT DEF output_sighandler, Ended
<1>3. CASE Interrupt
  BY <1>3, SMT DEF Interrupt, Ended
<1>4. opt \subseteq Flags
  BY DEF TypeOK
<1>5. QED
  BY <1>1, <1>2, <1>3, <1>4, CheckMoves, SpecifiedMoves, DriverMoves, Zenon DEF Next

-----------------------------------------------------------------------------
(* What a step that leaves the options alone keeps.                        *)
LEMMA Stable ==
  ASSUME UNCHANGED <<given, opt>>
  PROVE  /\ Specified' = Specified /\ Asked' = Asked /\ Single' = Single
         /\ \A flag : Has(flag)' = Has(flag) /\ Nameless(flag)' = Nameless(flag)
         /\ \A flag : Live(flag)' = Live(flag)
         /\ \A d : Suits(d)' = Suits(d)
<1>1. opt' = opt /\ device' = device /\ devicetype' = devicetype /\ installed' = installed
      /\ requested' = requested
  BY Zenon DEF given
<1>2. Specified' = Specified /\ Asked' = Asked /\ Single' = Single
  BY <1>1, Zenon DEF Specified, Asked, AskedFirst, Single
<1>3. ASSUME NEW flag
      PROVE /\ Has(flag)' = Has(flag) /\ Nameless(flag)' = Nameless(flag)
            /\ Live(flag)' = Live(flag)
  BY <1>1, Zenon DEF Has, Nameless, Live
<1>4. ASSUME NEW d PROVE Suits(d)' = Suits(d)
  BY <1>1, <1>2, <1>3, Zenon DEF Suits
<1>5. QED
  BY <1>2, <1>3, <1>4, Zenon

LEMMA OptKept ==
  ASSUME OptInv, AddedBehind, UNCHANGED <<given, opt, chosen>>, tried \subseteq tried', pc' # "check"
  PROVE  OptInv' /\ AddedBehind'
<1>1. opt' = opt /\ chosen' = chosen /\ requested' = requested /\ device' = device
  BY Zenon DEF given
<1>2. requested \cap tried # {} => requested \cap tried' # {}
  OBVIOUS
<1>3. QED
  BY <1>1, <1>2, Zenon DEF OptInv, AddedBehind

LEMMA SunIsFlag == {"sun"} \subseteq Flags /\ Chain \subseteq Flags
  BY Zenon DEF Flags, Chain

LEMMA OneChosen ==
  ASSUME OptInv, Single, opt \subseteq Chain, NEW f \in chosen, NEW g \in chosen
  PROVE  f = g
<1>1. f \in Drivers /\ g \in Drivers /\ Chain \subseteq Drivers
  BY Zenon DEF OptInv, Drivers
<1>2. CASE chosen = requested
  BY <1>1, <1>2, Zenon DEF Single
<1>3. CASE chosen # requested
  <2>1. requested = {} /\ \E d \in Drivers : chosen = requested \cup {d}
    BY <1>3, Zenon DEF OptInv, Single
  <2>2. QED
    BY <2>1, SMT
<1>4. QED
  BY <1>2, <1>3

(* The options are drivers one behind the other, from the one chosen on.    *)
LEMMA NoneFurther ==
  ASSUME OptInv, AddedBehind, Single, opt \subseteq Chain, pc \in opt, pc # "arts",
         NextDriver(pc) \notin opt
  PROVE  opt \cap (Ahead \ {pc}) = {}
<1>1. /\ "alsa" \in opt => "alsa" \in chosen
      /\ "alsa09" \in opt => "alsa09" \in chosen \/ "alsa" \in opt
      /\ "oss" \in opt => "oss" \in chosen \/ "alsa09" \in opt
      /\ "sun" \in opt => "sun" \in chosen \/ "oss" \in opt
      /\ "esd" \in opt => "esd" \in chosen \/ "sun" \in opt
      /\ "arts" \in opt => "arts" \in chosen \/ "esd" \in opt
  BY SMT DEF AddedBehind, Pred
<1>2. \A f, g \in chosen : f = g
  BY OneChosen, Zenon
<1>3. pc \in Chain
  OBVIOUS
<1>4. QED
  BY <1>1, <1>2, <1>3, SMT DEF Ahead, NextDriver, Chain

LEMMA AheadOfDriver ==
  ASSUME pc \in Chain
  PROVE  /\ pc \in Ahead
         /\ pc' = NextDriver(pc) =>
              /\ Ahead' = Ahead \ {pc}
              /\ (pc' \in Chain /\ pc' \in Ahead' /\ pc' # pc) \/ (pc' = "restore" /\ pc = "arts")
BY SMT DEF Ahead, NextDriver, Chain

LEMMA EndedStep == AoInv /\ Ended => AoInv'
<1> SUFFICES ASSUME AoInv, Ended PROVE AoInv'
  OBVIOUS
<1>1. TypeOK'
  BY SMT DEF AoInv, Ended, TypeOK, Ends, given
<1>2. OptInv' /\ AddedBehind'
  <2>1. pc' # "check"
    BY SMT DEF Ended
  <2>2. QED
    BY <2>1, OptKept, Zenon DEF AoInv, Ended
<1>3. DeviceInv'
  BY Stable, SMT DEF AoInv, Ended, DeviceInv, Ends, given, Chain, Opening
<1>4. OpeningInv'
  BY Stable, SMT DEF AoInv, Ended, OpeningInv, Ends, given, Held, Opening, Chain
<1>5. LeaksBehindSun' /\ CrashAfterFallback' /\ SeenInv'
  <2>1. pc' \in Ends \ {"segfault"} /\ pc' # "segfault"
    BY SMT DEF Ended, Ends
  <2>2. QED
    BY <2>1, Zenon DEF AoInv, Ended, LeaksBehindSun, CrashAfterFallback, SeenInv
<1>6. QED
  BY <1>1, <1>2, <1>3, <1>4, <1>5 DEF AoInv

LEMMA CheckedStep == AoInv /\ Checked => AoInv'
<1> SUFFICES ASSUME AoInv, Checked PROVE AoInv'
  OBVIOUS
<1>1. /\ pc = "check" /\ opt = requested /\ chosen = requested /\ playdevice = None
      /\ pldev = None /\ closed = FALSE /\ requested \subseteq Flags /\ chosen' = opt' /\ gaveUp' \in BOOLEAN
      /\ UNCHANGED <<given, requested, buffered>> /\ UNCHANGED <<playdevice, pldev, closed, format, frame, sigint, tried, leaked>>
  BY SMT DEF AoInv, Checked, OptInv, DeviceInv, TypeOK, Chain, Ends, given
<1>2. pc' \in {"frame", "exited"}
  BY SMT DEF Checked
<1>3. \/ opt' = requested
      \/ requested \in {{}, {"sun"}} /\ \E flag \in Drivers : opt' = requested \cup {flag}
  <2>1. requested \cap (Flags \ {"sun"}) = {} => requested = {} \/ requested = {"sun"}
    BY <1>1, SMT
  <2>2. QED
    BY <1>1, <2>1, Zenon DEF Checked
<1>4. opt' \subseteq Flags
  <2>1. Drivers \subseteq Flags
    BY Zenon DEF Drivers, Flags
  <2>2. QED
    BY <1>1, <1>3, <2>1, SMT
<1>5. TypeOK'
  BY <1>1, <1>2, <1>4, SMT DEF AoInv, TypeOK, Ends, given
<1>6. OptInv' /\ AddedBehind'
  <2>1. requested \subseteq opt'
    BY <1>3, Zenon
  <2>2. requested \notin {{}, {"sun"}} => opt' = requested
    BY <1>3, Zenon
  <2>3. pc' # "check"
    BY <1>2, SMT
  <2>4. QED
    BY <1>1, <1>3, <2>1, <2>2, <2>3, Zenon DEF OptInv, AddedBehind
<1>7. DeviceInv'
  BY <1>1, <1>2, SMT DEF DeviceInv, Ends, Chain, Opening
<1>8. OpeningInv'
  BY <1>1, <1>2, SMT DEF OpeningInv, Ends, Held, Opening, Chain
<1>9. SeenInv'
  <2>1. Single' <=> Single
    BY <1>1, Zenon DEF Single
  <2>2. ASSUME Single, opt' \subseteq Chain, NEW u \in opt' PROVE opt' = {u}
    <3>1. CASE opt' = requested
      BY <2>2, <3>1, SMT DEF Single, Drivers
    <3>2. CASE requested = {} /\ \E flag \in Drivers : opt' = {} \cup {flag}
      BY <2>2, <3>2, SMT
    <3>3. QED
      BY <1>3, <2>2, <3>1, <3>2, Zenon DEF Single
  <2>3. pc' \in {"check", "frame", "specified"} \/ pc' \in Ends \ {"segfault"}
    BY <1>2, SMT DEF Ends
  <2>4. QED
    BY <1>1, <2>1, <2>2, <2>3, Zenon DEF SeenInv, Unseen
<1>10. LeaksBehindSun' /\ CrashAfterFallback'
  BY <1>1, <1>2, SMT DEF AoInv, LeaksBehindSun, CrashAfterFallback
<1>11. QED
  BY <1>5, <1>6, <1>7, <1>8, <1>9, <1>10 DEF AoInv

LEMMA ToChainStep == AoInv /\ ToChain => AoInv'
<1> SUFFICES ASSUME AoInv, ToChain PROVE AoInv'
  OBVIOUS
<1>1. /\ pc = "specified" /\ pc' = "alsa" /\ opt \subseteq Chain
      /\ UNCHANGED <<given, opt, buffered, playdevice, pldev, closed, format, frame, sigint, gaveUp,
                     chosen, tried, leaked>>
  BY Zenon DEF ToChain, Kept, NotAssigned, given
<1>2. TypeOK'
  BY <1>1, SMT DEF AoInv, TypeOK, Opening, Chain, given
<1>3. OptInv' /\ AddedBehind'
  <2>1. pc' # "check"
    BY <1>1, SMT
  <2>2. QED
    BY <1>1, <2>1, OptKept, Zenon DEF AoInv
<1>4. DeviceInv'
  BY <1>1, Stable, SMT DEF AoInv, DeviceInv, Ends, Chain, Opening, Ahead, Suits
<1>5. OpeningInv'
  BY <1>1, Stable, SMT DEF AoInv, OpeningInv, Held, Opening, Chain
<1>6. SeenInv'
  <2>1. Single' = Single /\ Unseen' = Unseen
    BY <1>1, Stable, Zenon DEF Unseen
  <2>2. ASSUME Single, Unseen # {} PROVE \E u \in Chain : opt = {u} /\ opt \cap Chain = {u} /\ Unseen = {u}
    BY <1>1, <2>2, SMT DEF AoInv, SeenInv, Unseen, Chain, Ends
  <2>3. Ahead' = Chain /\ pc' \in Chain
    BY <1>1, SMT DEF Ahead, Chain
  <2>4. QED
    BY <1>1, <2>1, <2>2, <2>3, Zenon DEF SeenInv
<1>7. LeaksBehindSun' /\ CrashAfterFallback'
  BY <1>1, SMT DEF AoInv, LeaksBehindSun, CrashAfterFallback
<1>8. QED
  BY <1>2, <1>3, <1>4, <1>5, <1>6, <1>7 DEF AoInv

LEMMA UnknownStep == AoInv /\ Unknown => AoInv'
<1> SUFFICES ASSUME AoInv, Unknown PROVE AoInv'
  OBVIOUS
<1>1. /\ pc \in Opening /\ pc' = "exited"
      /\ UNCHANGED <<given, opt, buffered, playdevice, pldev, closed, format, frame, sigint, gaveUp,
                     chosen, tried, leaked>>
  BY SMT DEF Unknown, Kept, NotAssigned, given, Opening, Chain
<1>2. TypeOK'
  BY <1>1, SMT DEF AoInv, TypeOK, Ends, given
<1>3. OptInv' /\ AddedBehind'
  <2>1. pc' # "check"
    BY <1>1, SMT
  <2>2. QED
    BY <1>1, <2>1, OptKept, Zenon DEF AoInv
<1>4. DeviceInv'
  BY <1>1, Stable, SMT DEF AoInv, DeviceInv, Ends, Chain, Opening
<1>5. OpeningInv'
  BY <1>1, Stable, SMT DEF AoInv, OpeningInv, Held, Opening, Chain
<1>6. SeenInv' /\ LeaksBehindSun' /\ CrashAfterFallback'
  BY <1>1, SMT DEF AoInv, SeenInv, LeaksBehindSun, CrashAfterFallback, Ends
<1>7. QED
  BY <1>2, <1>3, <1>4, <1>5, <1>6 DEF AoInv

(* Opening userdef asks about another driver only when the options name two.  *)
LEMMA TwoNamed ==
  ASSUME AoInv, ~(opt \subseteq Chain), Has(Specified), ~Has(Asked)
  PROVE  requested = {"sun"} \/ \E f, g \in requested \cap Drivers : f # g
<1> SUFFICES ASSUME Single PROVE FALSE
  BY Zenon DEF Single
<1>1. opt \subseteq Flags /\ opt # {}
  BY Zenon DEF AoInv, TypeOK
<1>2. Asked \in opt /\ Asked \in Drivers
  BY <1>1, AskedSet, Zenon DEF Has, Drivers
<1>3. Asked # "userdef"
  <2>1. ASSUME Asked = "userdef" PROVE FALSE
    <3>1. Specified \in opt /\ opt = {"userdef"}
      BY <1>1, <2>1, AskedSet, SpecifiedSet, Zenon
    <3>2. Specified = Asked
      BY <2>1, <3>1, Zenon
    <3>3. QED
      BY <3>2, Zenon
  <2>2. QED
    BY <2>1, Zenon
<1>4. opt \subseteq Chain \cup {"userdef"}
  BY <1>1, <1>2, <1>3, AskedSet, Zenon DEF Drivers
<1>5. "userdef" \in opt
  BY <1>4, Zenon
<1>6. opt = chosen /\ "userdef" \in Drivers
  BY Zenon DEF AoInv, OptInv, Drivers
<1>7. Asked # "userdef" /\ Asked \in chosen /\ "userdef" \in chosen
  BY <1>2, <1>3, <1>5, <1>6, Zenon
<1>8. CASE chosen = requested
  BY <1>2, <1>6, <1>7, <1>8, Zenon DEF Single
<1>9. CASE chosen # requested
  <2>1. requested = {} /\ \E e \in Drivers : chosen = requested \cup {e}
    BY <1>9, Zenon DEF AoInv, OptInv, Single
  <2>2. QED
    BY <1>7, <2>1, SMT
<1>10. QED
  BY <1>8, <1>9

LEMMA CrashedStep == AoInv /\ Crashed => AoInv'
<1> SUFFICES ASSUME AoInv, Crashed PROVE AoInv'
  OBVIOUS
<1>1. /\ pc = "specified" /\ pc' = "segfault" /\ ~(opt \subseteq Chain) /\ pc \in Opening
      /\ Specified = "userdef" /\ Has("userdef") /\ ~Has(Asked)
      /\ UNCHANGED <<given, opt, buffered, requested, playdevice, pldev, closed, format, frame,
                     sigint, gaveUp, chosen, tried, leaked>>
  BY Zenon DEF Crashed, Kept, NotAssigned, given, Opening
<1>2. TypeOK'
  BY <1>1, SMT DEF AoInv, TypeOK, Ends, given
<1>3. OptInv' /\ AddedBehind'
  <2>1. pc' # "check"
    BY <1>1, SMT
  <2>2. QED
    BY <1>1, <2>1, OptKept, Zenon DEF AoInv
<1>4. DeviceInv'
  BY <1>1, Stable, SMT DEF AoInv, DeviceInv, Ends, Chain, Opening
<1>5. OpeningInv'
  BY <1>1, Stable, SMT DEF AoInv, OpeningInv, Held, Opening, Chain
<1>6. SeenInv' /\ LeaksBehindSun'
  BY <1>1, Zenon DEF AoInv, SeenInv, LeaksBehindSun
<1>7. CrashAfterFallback'
  BY <1>1, TwoNamed, Zenon DEF CrashAfterFallback
<1>8. QED
  BY <1>2, <1>3, <1>4, <1>5, <1>6, <1>7 DEF AoInv

LEMMA NoNameStep == AoInv /\ NoName => AoInv'
<1> SUFFICES ASSUME AoInv, NoName PROVE AoInv'
  OBVIOUS
<1>1. /\ pc = "specified" /\ pc' = "restore" /\ ~(opt \subseteq Chain) /\ Nameless(Specified)
      /\ UNCHANGED <<given, opt, buffered, playdevice, pldev, closed, format, frame, sigint, gaveUp,
                     chosen, tried, leaked>>
  BY Zenon DEF NoName, Kept, NotAssigned, given
<1>2. TypeOK'
  BY <1>1, SMT DEF AoInv, TypeOK, Opening, given
<1>3. OptInv' /\ AddedBehind'
  <2>1. pc' # "check"
    BY <1>1, SMT
  <2>2. QED
    BY <1>1, <2>1, OptKept, Zenon DEF AoInv
<1>4. playdevice = None /\ pldev = None
  BY <1>1, Zenon DEF AoInv, DeviceInv, Suits
<1>5. DeviceInv'
  BY <1>1, <1>4, Stable, SMT DEF AoInv, DeviceInv, Ends, Chain, Opening
<1>6. OpeningInv'
  BY <1>1, <1>4, Stable, SMT DEF AoInv, OpeningInv, Held, Opening, Chain
<1>7. SeenInv' /\ LeaksBehindSun' /\ CrashAfterFallback'
  BY <1>1, SMT DEF AoInv, SeenInv, LeaksBehindSun, CrashAfterFallback
<1>8. QED
  BY <1>2, <1>3, <1>5, <1>6, <1>7 DEF AoInv

LEMMA FailedExitStep == ASSUME NEW flag \in Flags PROVE AoInv /\ FailedExit(flag) => AoInv'
<1> SUFFICES ASSUME AoInv, FailedExit(flag) PROVE AoInv'
  OBVIOUS
<1>1. /\ pc \in Opening /\ pc' = "exited" /\ tried' = tried \cup {flag}
      /\ UNCHANGED <<given, opt, buffered, playdevice, pldev, closed, format, frame, sigint, gaveUp,
                     chosen, leaked>>
  BY Zenon DEF FailedExit, Exit, Kept, given
<1>2. TypeOK'
  BY <1>1, SMT DEF AoInv, TypeOK, Ends, given
<1>3. OptInv' /\ AddedBehind'
  <2>1. pc' # "check" /\ tried \subseteq tried'
    BY <1>1, SMT
  <2>2. QED
    BY <1>1, <2>1, OptKept, Zenon DEF AoInv
<1>4. DeviceInv'
  BY <1>1, Stable, SMT DEF AoInv, DeviceInv, Ends, Chain, Opening
<1>5. OpeningInv'
  BY <1>1, Stable, SMT DEF AoInv, OpeningInv, Held, Opening, Chain
<1>6. SeenInv' /\ LeaksBehindSun' /\ CrashAfterFallback'
  BY <1>1, SMT DEF AoInv, SeenInv, LeaksBehindSun, CrashAfterFallback, Ends
<1>7. QED
  BY <1>2, <1>3, <1>4, <1>5, <1>6 DEF AoInv

LEMMA FailedNullStep == ASSUME NEW flag \in Flags PROVE AoInv /\ FailedNull(flag) => AoInv'
<1> SUFFICES ASSUME AoInv, FailedNull(flag) PROVE AoInv'
  OBVIOUS
<1>1. /\ pc \in Opening /\ pc' = "frame" /\ tried' = tried \cup {flag} /\ buffered
      /\ playdevice' = None /\ pldev' = None /\ closed' = FALSE /\ leaked' = leaked \cup Lost(pldev)
      /\ gaveUp' = TRUE
      /\ (pc \in Chain /\ flag = pc /\ pc \in opt) \/ (pc = "specified" /\ ~(opt \subseteq Chain))
      /\ UNCHANGED <<given, opt, buffered, format, frame, sigint, chosen>>
  BY Zenon DEF FailedNull, ReturnNull, Kept, given
<1>2. Lost(pldev) \subseteq {"sun"}
  BY <1>1, SMT DEF AoInv, OpeningInv, DeviceInv, Held, Lost, Opening, Ends, Chain
<1>3. TypeOK'
  <2>1. leaked' \subseteq Flags /\ tried' \subseteq Flags /\ gaveUp' \in BOOLEAN
    BY <1>1, <1>2, SunIsFlag, Zenon DEF AoInv, TypeOK
  <2>2. QED
    BY <1>1, <2>1, Zenon DEF AoInv, TypeOK, given
<1>4. OptInv' /\ AddedBehind'
  <2>1. pc' # "check" /\ tried \subseteq tried'
    BY <1>1, SMT
  <2>2. QED
    BY <1>1, <2>1, OptKept, Zenon DEF AoInv
<1>5. DeviceInv'
  BY <1>1, SMT DEF DeviceInv, Ends, Chain, Opening
<1>6. OpeningInv'
  BY <1>1, SMT DEF OpeningInv, Held, Opening, Chain
<1>7. SeenInv'
  <2>1. Single' = Single /\ Unseen' = Unseen \ {flag}
    BY <1>1, Stable, SMT DEF Unseen
  <2>2. CASE ~(opt \subseteq Chain) \/ ~Single \/ Unseen = {}
    BY <1>1, <2>1, <2>2, Zenon DEF SeenInv
  <2>3. CASE opt \subseteq Chain /\ Single /\ Unseen # {}
    <3>1. pc \in Chain /\ flag = pc /\ pc \in opt /\ pc \in Ahead
      BY <1>1, <2>3, AheadOfDriver, Zenon
    <3>2. PICK u \in Chain : opt \cap Ahead = {u} /\ Unseen = {u}
      BY <2>3, <3>1, SMT DEF AoInv, SeenInv, Chain, Ends
    <3>3. Unseen' = {}
      BY <2>1, <3>1, <3>2, SMT
    <3>4. QED
      BY <3>3, Zenon DEF SeenInv
  <2>4. QED
    BY <2>2, <2>3, Zenon
<1>8. LeaksBehindSun' /\ CrashAfterFallback'
  <2>1. pc' # "segfault"
    BY <1>1, SMT
  <2>2. QED
    BY <1>1, <1>2, <2>1, Zenon DEF AoInv, LeaksBehindSun, CrashAfterFallback
<1>9. QED
  BY <1>3, <1>4, <1>5, <1>6, <1>7, <1>8 DEF AoInv

LEMMA SkippedStep == AoInv /\ Skipped => AoInv'
<1> SUFFICES ASSUME AoInv, Skipped PROVE AoInv'
  OBVIOUS
<1>1. /\ pc \in Chain /\ pc' = NextDriver(pc) /\ pc \notin opt
      /\ UNCHANGED <<given, opt, buffered, playdevice, pldev, closed, format, frame, sigint, gaveUp,
                     chosen, tried, leaked>>
  BY Zenon DEF Skipped, Kept, NotAssigned, given
<1>2. /\ pc \in Ahead /\ Ahead' = Ahead \ {pc} /\ opt \cap Ahead' = opt \cap Ahead
      /\ (pc' \in Chain /\ pc' \in Ahead' /\ pc' # pc) \/ (pc' = "restore" /\ pc = "arts")
  BY <1>1, AheadOfDriver, SMT
<1>3. TypeOK'
  BY <1>1, <1>2, SMT DEF AoInv, TypeOK, Opening, Chain, given
<1>4. OptInv' /\ AddedBehind'
  <2>1. pc' # "check"
    BY <1>2, SMT DEF Chain
  <2>2. QED
    BY <1>1, <2>1, OptKept, Zenon DEF AoInv
<1>5. DeviceInv'
  BY <1>1, <1>2, Stable, SMT DEF AoInv, DeviceInv, Ends, Chain, Opening, Ahead
<1>6. OpeningInv'
  BY <1>1, <1>2, Stable, SMT DEF AoInv, OpeningInv, DeviceInv, Held, Opening, Chain, NextDriver
<1>7. SeenInv'
  <2>1. Single' = Single /\ Unseen' = Unseen
    BY <1>1, Stable, Zenon DEF Unseen
  <2>2. ASSUME Single, opt \subseteq Chain, Unseen # {}
        PROVE  \E u \in Chain : opt \cap Ahead = {u} /\ Unseen = {u}
    BY <1>1, <2>2, SMT DEF AoInv, SeenInv, Chain, Ends
  <2>3. pc' = "restore" => opt \cap Ahead = {}
    BY <1>1, <1>2, SMT DEF Ahead, Chain
  <2>4. QED
    BY <1>1, <1>2, <2>1, <2>2, <2>3, Zenon DEF SeenInv
<1>8. LeaksBehindSun' /\ CrashAfterFallback'
  <2>1. pc' # "segfault"
    BY <1>2, SMT DEF Chain
  <2>2. QED
    BY <1>1, <2>1, Zenon DEF AoInv, LeaksBehindSun, CrashAfterFallback
<1>9. QED
  BY <1>3, <1>4, <1>5, <1>6, <1>7, <1>8 DEF AoInv

LEMMA DriverFellStep == AoInv /\ DriverFell => AoInv'
<1> SUFFICES ASSUME AoInv, DriverFell PROVE AoInv'
  OBVIOUS
<1>1. /\ pc \in Chain /\ pc' = NextDriver(pc) /\ pc \in opt /\ pc # "arts" /\ device = "none"
      /\ tried' = tried \cup {pc} /\ opt' = opt \cup {pc'}
      /\ Assign(None)
      /\ UNCHANGED <<given, buffered, requested, device, devicetype, installed, format, frame,
                     sigint, gaveUp, chosen>>
  BY Zenon DEF DriverFell, FallsThrough, Kept, given
<1>2. /\ pc \in Ahead /\ Ahead' = Ahead \ {pc} /\ pc' \in Chain /\ pc' \in Ahead' /\ pc' # pc
  BY <1>1, AheadOfDriver, Zenon
<1>3. opt \subseteq Chain /\ opt' \subseteq Chain /\ opt \subseteq opt'
  BY <1>1, <1>2, Zenon DEF AoInv, OpeningInv
<1>4. Lost(Held) \subseteq {"sun"} /\ pldev' = None /\ leaked' = leaked \cup Lost(Held)
  BY <1>1, SMT DEF AoInv, OpeningInv, DeviceInv, Held, Lost, Assign
<1>5. \/ ~buffered /\ playdevice' = None /\ closed' = FALSE
      \/ buffered /\ playdevice' = playdevice /\ closed' = closed
  BY <1>1, Zenon DEF Assign
<1>6. TypeOK'
  <2>1. leaked' \subseteq Flags /\ tried' \subseteq Flags /\ opt' \subseteq Flags
    BY <1>1, <1>3, <1>4, SunIsFlag, Zenon DEF AoInv, TypeOK
  <2>2. closed' \in BOOLEAN /\ playdevice' \in Devices \cup {None}
    BY <1>5, Zenon DEF AoInv, TypeOK
  <2>3. QED
    BY <1>1, <1>2, <1>4, <2>1, <2>2, SMT DEF AoInv, TypeOK, Opening
<1>7. OptInv'
  <2>1. chosen \subseteq opt' /\ pc' # "check"
    BY <1>2, <1>3, SMT DEF AoInv, OptInv, Chain
  <2>2. requested \notin {{}, {"sun"}} => requested \cap tried' # {}
    BY <1>1, Zenon DEF AoInv, OptInv
  <2>3. QED
    BY <1>1, <1>3, <2>1, <2>2, Zenon DEF AoInv, OptInv
<1>8. AddedBehind'
  <2>1. pc' # "alsa" /\ Pred[pc'] = pc
    BY <1>1, SMT DEF NextDriver, Chain, Pred
  <2>2. QED
    BY <1>1, <1>2, <2>1, Zenon DEF AoInv, AddedBehind
<1>9. \A d : Suits(d) => Suits(d)'
  BY <1>1, <1>3, Zenon DEF Suits, Has
<1>10. DeviceInv'
  BY <1>1, <1>2, <1>4, <1>5, <1>9, SMT DEF AoInv, DeviceInv, Ends, Chain, Opening
<1>11. OpeningInv'
  BY <1>1, <1>2, <1>3, <1>4, <1>5, SMT DEF AoInv, OpeningInv, Held, Opening, Chain
<1>12. SeenInv'
  <2>1. Single' = Single /\ Unseen' \subseteq (Unseen \ {pc}) \cup ({pc'} \ opt)
    BY <1>1, Zenon DEF Single, Unseen, Has
  <2>2. ASSUME Single, Unseen' # {}
        PROVE  \E u \in Chain : opt' \cap Ahead' = {u} /\ Unseen' = {u}
    <3>1. CASE Unseen # {}
      <4>1. PICK u \in Chain : opt \cap Ahead = {u} /\ Unseen = {u}
        BY <1>1, <1>3, <2>2, <3>1, SMT DEF AoInv, SeenInv, Chain, Ends
      <4>2. u = pc
        BY <1>1, <1>2, <4>1
      <4>3. opt' \cap Ahead' = {pc'} /\ Unseen' = {pc'}
        BY <1>1, <1>2, <2>1, <2>2, <4>1, <4>2, SMT
      <4>4. QED
        BY <1>2, <4>3, Zenon
    <3>2. CASE Unseen = {}
      <4>1. Unseen' = {pc'} /\ pc' \notin opt
        BY <2>1, <2>2, <3>2, SMT
      <4>2. opt \cap (Ahead \ {pc}) = {}
        BY <1>1, <1>3, <2>2, <4>1, NoneFurther, Zenon DEF AoInv
      <4>3. opt' \cap Ahead' = {pc'}
        BY <1>1, <1>2, <4>2, SMT
      <4>4. QED
        BY <1>2, <4>1, <4>3, Zenon
    <3>3. QED
      BY <3>1, <3>2
  <2>3. QED
    BY <1>2, <2>1, <2>2, Zenon DEF SeenInv
<1>13. LeaksBehindSun' /\ CrashAfterFallback'
  <2>1. pc' # "segfault"
    BY <1>2, SMT DEF Chain
  <2>2. QED
    BY <1>4, <2>1, Zenon DEF AoInv, LeaksBehindSun, CrashAfterFallback
<1>14. QED
  BY <1>6, <1>7, <1>8, <1>10, <1>11, <1>12, <1>13 DEF AoInv

LEMMA DriverOpenedStep == AoInv /\ DriverOpened => AoInv'
<1> SUFFICES ASSUME AoInv, DriverOpened PROVE AoInv'
  OBVIOUS
<1>0. PICK d : d = [flag |-> pc, format |-> frame]
  OBVIOUS
<1>1. /\ pc \in Chain /\ pc' = AfterOpened(pc) /\ pc \in opt /\ Has(pc) /\ Assign(d)
      /\ UNCHANGED <<given, opt, buffered, requested, format, frame, sigint, gaveUp, chosen, tried>>
  BY <1>0, Zenon DEF DriverOpened, Opened, Kept, given
<1>2. (pc = "sun" /\ pc' = "esd") \/ pc' = "restore"
  BY <1>1, SMT DEF AfterOpened, NextDriver
<1>3. d \in Devices /\ d # None /\ d.flag = pc /\ d.format = frame
  <2>1. d \in Devices /\ d.flag = pc /\ d.format = frame
    BY <1>0, <1>1, SunIsFlag, SMT DEF AoInv, TypeOK, Devices
  <2>2. QED
    BY <2>1, AoAssumption, Zenon DEF Devices
<1>4. opt \subseteq Chain /\ Suits(d) /\ Suits(d)'
  BY <1>1, <1>3, Stable, Zenon DEF AoInv, OpeningInv, Suits
<1>5. Lost(Held) \subseteq {"sun"} /\ leaked' = leaked \cup Lost(Held) /\ Held' = d
  BY <1>1, SMT DEF AoInv, OpeningInv, DeviceInv, Held, Lost, Assign, given
<1>6. \/ ~buffered /\ playdevice' = d /\ closed' = FALSE /\ pldev' = pldev
      \/ buffered /\ pldev' = d /\ playdevice' = playdevice /\ closed' = closed
  BY <1>1, Zenon DEF Assign
<1>7. TypeOK'
  <2>1. leaked' \subseteq Flags
    BY <1>5, SunIsFlag, Zenon DEF AoInv, TypeOK
  <2>2. /\ closed' \in BOOLEAN /\ playdevice' \in Devices \cup {None}
        /\ pldev' \in Devices \cup {None}
    BY <1>3, <1>6, Zenon DEF AoInv, TypeOK
  <2>3. pc' \in Opening
    BY <1>2, Zenon DEF Opening, Chain
  <2>4. QED
    BY <1>1, <2>1, <2>2, <2>3, Zenon DEF AoInv, TypeOK, given
<1>8. OptInv' /\ AddedBehind'
  <2>1. pc' # "check" /\ tried \subseteq tried'
    BY <1>1, <1>2, SMT
  <2>2. QED
    BY <1>1, <2>1, OptKept, Zenon DEF AoInv
<1>9. DeviceInv'
  BY <1>1, <1>2, <1>3, <1>4, <1>6, Stable, SMT DEF AoInv, DeviceInv, Ends, Chain, Opening
<1>10. OpeningInv'
  BY <1>1, <1>2, <1>3, <1>4, <1>5, SMT DEF AoInv, OpeningInv, Opening, Chain
<1>11. SeenInv'
  <2>1. Single' = Single /\ Unseen' = Unseen
    BY <1>1, Stable, Zenon DEF Unseen
  <2>2. Single => Unseen = {}
    <3>1. ASSUME Single, Unseen # {} PROVE FALSE
      <4>1. PICK u \in Chain : opt \cap Ahead = {u} /\ Unseen = {u}
        BY <1>1, <1>4, <3>1, SMT DEF AoInv, SeenInv, Chain, Ends
      <4>2. u = pc
        BY <1>1, <4>1, AheadOfDriver, Zenon
      <4>3. QED
        BY <1>1, <4>1, <4>2, Zenon DEF Unseen
    <3>2. QED
      BY <3>1, Zenon
  <2>3. QED
    BY <2>1, <2>2, Zenon DEF SeenInv
<1>12. LeaksBehindSun' /\ CrashAfterFallback'
  <2>1. pc' # "segfault"
    BY <1>2, SMT
  <2>2. QED
    BY <1>5, <2>1, Zenon DEF AoInv, LeaksBehindSun, CrashAfterFallback
<1>13. QED
  BY <1>7, <1>8, <1>9, <1>10, <1>11, <1>12 DEF AoInv

LEMMA SpecifiedOpenedStep == AoInv /\ SpecifiedOpened => AoInv'
<1> SUFFICES ASSUME AoInv, SpecifiedOpened PROVE AoInv'
  OBVIOUS
<1>0. PICK d : d = [flag |-> Specified, format |-> frame]
  OBVIOUS
<1>1. /\ pc = "specified" /\ pc' = "restore" /\ ~(opt \subseteq Chain) /\ ~Nameless(Specified)
      /\ Has(Specified) /\ Assign(d)
      /\ UNCHANGED <<given, opt, buffered, requested, format, frame, sigint, gaveUp, chosen, tried>>
  BY <1>0, Zenon DEF SpecifiedOpened, Opened, Kept, given
<1>2. Specified \in opt /\ Specified \in Flags
  BY <1>1, SpecifiedSet, Zenon DEF AoInv, TypeOK
<1>3. d \in Devices /\ d # None /\ d.flag = Specified /\ d.format = frame
  <2>1. d \in Devices /\ d.flag = Specified /\ d.format = frame
    BY <1>0, <1>1, <1>2, SMT DEF AoInv, TypeOK, Devices
  <2>2. QED
    BY <2>1, AoAssumption, Zenon DEF Devices
<1>4. Suits(d) /\ Suits(d)'
  BY <1>1, <1>2, <1>3, Stable, Zenon DEF Suits
<1>5. Held = None /\ leaked' = leaked /\ Held' = d
  BY <1>1, SMT DEF AoInv, OpeningInv, DeviceInv, Held, Lost, Assign, given
<1>6. \/ ~buffered /\ playdevice' = d /\ closed' = FALSE /\ pldev' = pldev
      \/ buffered /\ pldev' = d /\ playdevice' = playdevice /\ closed' = closed
  BY <1>1, Zenon DEF Assign
<1>7. TypeOK'
  <2>1. /\ closed' \in BOOLEAN /\ playdevice' \in Devices \cup {None}
        /\ pldev' \in Devices \cup {None}
    BY <1>3, <1>6, Zenon DEF AoInv, TypeOK
  <2>2. pc' \in Opening
    BY <1>1, Zenon DEF Opening
  <2>3. QED
    BY <1>1, <1>5, <2>1, <2>2, Zenon DEF AoInv, TypeOK, given
<1>8. OptInv' /\ AddedBehind'
  <2>1. pc' # "check" /\ tried \subseteq tried'
    BY <1>1, SMT
  <2>2. QED
    BY <1>1, <2>1, OptKept, Zenon DEF AoInv
<1>9. DeviceInv'
  BY <1>1, <1>3, <1>4, <1>6, Stable, SMT DEF AoInv, DeviceInv, Ends, Chain, Opening
<1>10. OpeningInv'
  BY <1>1, <1>3, <1>4, <1>5, SMT DEF AoInv, OpeningInv, Opening, Chain
<1>11. SeenInv' /\ LeaksBehindSun' /\ CrashAfterFallback'
  <2>1. pc' # "segfault"
    BY <1>1, SMT
  <2>2. QED
    BY <1>1, <1>5, <2>1, Zenon DEF AoInv, SeenInv, LeaksBehindSun, CrashAfterFallback
<1>12. QED
  BY <1>7, <1>8, <1>9, <1>10, <1>11 DEF AoInv

(* Where no driver of the chain is next, none is unseen.                   *)
LEMMA AllSeen ==
  ASSUME AoInv, Single, opt \subseteq Chain,
         pc \in {"restore", "play"} \/ (pc = "frame" /\ playdevice # None)
  PROVE  Unseen = {}
BY SMT DEF AoInv, SeenInv, Chain, Ends

LEMMA RestoreStep == AoInv /\ Restore => AoInv'
<1> SUFFICES ASSUME AoInv, Restore PROVE AoInv'
  OBVIOUS
<1>1. /\ pc = "restore" /\ pc' = "play" /\ ~buffered /\ sigint' = "handler"
      /\ UNCHANGED <<given, opt, buffered, requested, playdevice, pldev, closed, format, frame, gaveUp,
                     chosen, tried, leaked>>
  BY Zenon DEF Restore, Restored, given
<1>2. TypeOK'
  BY <1>1, Zenon DEF AoInv, TypeOK, given
<1>3. OptInv' /\ AddedBehind'
  <2>1. pc' # "check" /\ tried \subseteq tried'
    BY <1>1, SMT
  <2>2. QED
    BY <1>1, <2>1, OptKept, Zenon DEF AoInv
<1>4. DeviceInv'
  BY <1>1, Stable, SMT DEF AoInv, DeviceInv, Ends, Chain, Opening
<1>5. OpeningInv'
  BY <1>1, SMT DEF AoInv, OpeningInv, DeviceInv, Held, Opening, Chain
<1>6. SeenInv' /\ LeaksBehindSun' /\ CrashAfterFallback'
  <2>1. Single' = Single /\ Unseen' = Unseen
    BY <1>1, Stable, Zenon DEF Unseen
  <2>2. pc' # "segfault"
    BY <1>1, SMT
  <2>3. QED
    BY <1>1, <2>1, <2>2, AllSeen, Zenon DEF AoInv, SeenInv, LeaksBehindSun, CrashAfterFallback
<1>7. QED
  BY <1>2, <1>3, <1>4, <1>5, <1>6 DEF AoInv

LEMMA RestoreBufferStep == AoInv /\ RestoreBuffer => AoInv'
<1> SUFFICES ASSUME AoInv, RestoreBuffer PROVE AoInv'
  OBVIOUS
<1>1. /\ pc = "restore" /\ buffered /\ sigint' = "handler" /\ playdevice' = pldev
      /\ closed' = FALSE /\ pldev' = None /\ gaveUp' \in BOOLEAN
      /\ (pldev = None /\ pc' = "frame") \/ (pldev # None /\ pc' = "play")
      /\ UNCHANGED <<given, opt, buffered, requested, format, frame, chosen, tried, leaked>>
  BY Zenon DEF RestoreBuffer, Restored, given, AoInv, TypeOK
<1>2. TypeOK'
  BY <1>1, Zenon DEF AoInv, TypeOK, given
<1>3. OptInv' /\ AddedBehind'
  <2>1. pc' # "check" /\ tried \subseteq tried'
    BY <1>1, SMT
  <2>2. QED
    BY <1>1, <2>1, OptKept, Zenon DEF AoInv
<1>4. DeviceInv'
  BY <1>1, Stable, SMT DEF AoInv, DeviceInv, Ends, Chain, Opening
<1>5. OpeningInv'
  BY <1>1, SMT DEF AoInv, OpeningInv, DeviceInv, Held, Opening, Chain
<1>6. SeenInv' /\ LeaksBehindSun' /\ CrashAfterFallback'
  <2>1. Single' = Single /\ Unseen' = Unseen
    BY <1>1, Stable, Zenon DEF Unseen
  <2>2. pc' # "segfault"
    BY <1>1, SMT
  <2>3. QED
    BY <1>1, <2>1, <2>2, AllSeen, Zenon DEF AoInv, SeenInv, LeaksBehindSun, CrashAfterFallback
<1>7. QED
  BY <1>2, <1>3, <1>4, <1>5, <1>6 DEF AoInv

-----------------------------------------------------------------------------
(* What playdevice_is_live() asks about and what is open are one device, or *)
(* of one kind, as far as the answer goes.                                 *)
LEMMA AskedIsOpen ==
  ASSUME AoInv, playdevice # None, ~Live(Asked)
  PROVE  ~Live(playdevice.flag)
<1>1. opt \subseteq Flags /\ playdevice.flag \in opt /\ Suits(playdevice)
  BY Zenon DEF AoInv, TypeOK, DeviceInv, Suits
<1>2. Asked \notin Chain
  BY Zenon DEF Live
<1>3. CASE Asked = "userdef"
  <2>1. opt = {"userdef"}
    BY <1>1, <1>3, AskedSet, Zenon
  <2>2. playdevice.flag = Asked
    BY <1>1, <1>3, <2>1, Zenon
  <2>3. QED
    BY <2>2, Zenon
<1>4. CASE Asked # "userdef"
  <2>1. ~(opt \subseteq Chain)
    BY <1>1, <1>2, AskedSet, Zenon
  <2>2. Specified = Asked
    BY <1>1, <1>2, <1>4, <2>1, SpecifiedSet, Zenon
  <2>3. playdevice.flag = Asked
    BY <1>1, <2>1, <2>2, Zenon DEF Suits
  <2>4. QED
    BY <2>3, Zenon
<1>5. QED
  BY <1>3, <1>4

(* With a device open that libao has, the question has no answer only for a *)
(* driver that failed before, or when the options name two.                *)
LEMMA NoAnswer ==
  ASSUME AoInv, playdevice # None, pc \in {"frame", "play"}, ~Has(Asked)
  PROVE  \/ Asked \in tried \/ requested = {"sun"}
         \/ \E f, g \in requested \cap Drivers : f # g
<1> SUFFICES ASSUME Asked \notin tried, Single PROVE FALSE
  BY Zenon DEF Single
<1>1. opt \subseteq Flags /\ playdevice.flag \in opt /\ Suits(playdevice)
  BY Zenon DEF AoInv, TypeOK, DeviceInv, Suits
<1>2. Asked \in opt
  BY <1>1, AskedSet, Zenon
<1>3. Asked \in Drivers
  BY Zenon DEF Has, Drivers
<1>4. CASE opt \subseteq Chain
  <2>1. Unseen = {}
    BY <1>4, AllSeen, SMT
  <2>2. QED
    BY <1>2, <2>1, Zenon DEF Unseen
<1>5. CASE ~(opt \subseteq Chain)
  <2>1. Has(Specified)
    BY <1>1, <1>5, Zenon DEF Suits
  <2>2. QED
    BY <1>5, <2>1, TwoNamed, Zenon DEF Single
<1>6. QED
  BY <1>4, <1>5

LEMMA OutputFrameStep == AoInv /\ OutputFrame => AoInv'
<1> SUFFICES ASSUME AoInv, OutputFrame PROVE AoInv'
  OBVIOUS
<1>1. PICK f \in Formats :
        /\ pc \in {"frame", "play"} /\ frame' = f
        /\ \/ /\ playdevice = None
              /\ format' = f /\ pc' = "specified" /\ sigint' = "default" /\ UNCHANGED closed
           \/ /\ playdevice # None /\ closed' = TRUE
              /\ format' = f /\ pc' = "specified" /\ sigint' = "default"
           \/ /\ playdevice # None /\ ~Has(Asked)
              /\ pc' = "segfault" /\ UNCHANGED <<closed, format, sigint>>
           \/ /\ playdevice # None /\ (f # format => ~Live(Asked))
              /\ pc' = "play" /\ UNCHANGED <<closed, format, sigint>>
        /\ UNCHANGED <<given, opt, buffered, requested, playdevice, pldev, gaveUp, chosen, tried,
                       leaked>>
  BY Zenon DEF OutputFrame, Differs, given
<1>2. /\ pldev = None /\ ~closed /\ closed = FALSE /\ (playdevice # None => pc = "play")
      /\ (playdevice # None => sigint = "handler" /\ playdevice.format = format)
  BY <1>1, SMT DEF AoInv, OpeningInv, DeviceInv, TypeOK, Chain, Ends
<1>3. pc' # "check" /\ tried \subseteq tried' /\ pc' \in {"specified", "play", "segfault"}
  BY <1>1, SMT
<1>4. TypeOK'
  <2>1. /\ format' \in Formats \cup {None} /\ sigint' \in {"default", "handler"}
        /\ closed' \in BOOLEAN /\ frame' \in Formats
    BY <1>1, Zenon DEF AoInv, TypeOK
  <2>2. pc' \in {"check", "frame", "play"} \cup Opening \cup Ends
    BY <1>3, Zenon DEF Opening, Ends
  <2>3. QED
    BY <1>1, <2>1, <2>2, Zenon DEF AoInv, TypeOK, given
<1>5. OptInv' /\ AddedBehind'
  BY <1>1, <1>3, OptKept, Zenon DEF AoInv
<1>6. DeviceInv'
  BY <1>1, <1>2, <1>3, Stable, SMT DEF AoInv, DeviceInv, Ends, Chain, Opening
<1>7. OpeningInv'
  <2>1. CASE pc' = "specified"
    BY <1>1, <1>2, <2>1, SMT DEF OpeningInv, Held, Opening, Chain
  <2>2. CASE pc' = "segfault"
    BY <2>2, SMT DEF OpeningInv, Opening, Chain
  <2>3. CASE pc' = "play"
    <3>1. playdevice # None /\ format' = format /\ closed' = FALSE /\ sigint' = "handler"
      BY <1>1, <1>2, <2>3, SMT
    <3>2. Live(playdevice.flag)' => format = frame'
      BY <1>1, <2>3, AskedIsOpen, Stable, SMT
    <3>3. QED
      BY <1>1, <1>2, <2>3, <3>1, <3>2, SMT DEF OpeningInv, Opening, Chain
  <2>4. QED
    BY <1>3, <2>1, <2>2, <2>3, Zenon
<1>8. SeenInv'
  <2>1. Single' = Single /\ Unseen' = Unseen
    BY <1>1, Stable, Zenon DEF Unseen
  <2>2. playdevice # None /\ Single /\ opt \subseteq Chain => Unseen = {}
    BY <1>2, AllSeen, SMT
  <2>3. playdevice = None /\ Single /\ opt \subseteq Chain /\ Unseen # {} =>
          pc' = "specified" /\ \E u \in Chain : opt = {u}
    BY <1>1, SMT DEF AoInv, SeenInv, Chain, Ends
  <2>4. QED
    BY <1>1, <2>1, <2>2, <2>3, Zenon DEF SeenInv
<1>9. CrashAfterFallback'
  <2>1. ASSUME pc' = "segfault"
        PROVE  \/ Asked \in tried \/ requested = {"sun"}
               \/ \E g, h \in requested \cap Drivers : g # h
    BY <1>1, <2>1, NoAnswer, SMT
  <2>2. Asked' = Asked
    BY <1>1, Stable, Zenon
  <2>3. QED
    BY <1>1, <2>1, <2>2, Zenon DEF CrashAfterFallback
<1>10. LeaksBehindSun'
  BY <1>1, Zenon DEF AoInv, LeaksBehindSun
<1>11. QED
  BY <1>4, <1>5, <1>6, <1>7, <1>8, <1>9, <1>10 DEF AoInv

-----------------------------------------------------------------------------
(* AoInv is inductive, and what follows from it.                          *)
LEMMA AoStep == AoInv /\ [Next]_vars => AoInv'
<1>1. ASSUME AoInv, Next PROVE AoInv'
  BY <1>1, Moves, CheckedStep, OutputFrameStep, ToChainStep, UnknownStep, CrashedStep, NoNameStep,
     SpecifiedOpenedStep, FailedExitStep, FailedNullStep, SkippedStep, DriverOpenedStep,
     DriverFellStep, RestoreStep, RestoreBufferStep, EndedStep, Zenon DEF AoInv
<1>2. ASSUME AoInv, UNCHANGED vars PROVE AoInv'
  <2>1. UNCHANGED <<given, opt, pc, playdevice, pldev, closed, format, frame, sigint, gaveUp,
                    chosen, tried, leaked>>
    BY <1>2, Zenon DEF vars
  <2>2. UNCHANGED <<buffered, requested, device, devicetype, installed>>
    BY <2>1, Zenon DEF given
  <2>3. TypeOK' /\ LeaksBehindSun'
    BY <1>2, <2>1, <2>2, SMT DEF AoInv, TypeOK, LeaksBehindSun
  <2>4. OptInv' /\ AddedBehind'
    BY <1>2, <2>1, <2>2, Zenon DEF AoInv, OptInv, AddedBehind
  <2>5. DeviceInv' /\ OpeningInv'
    BY <1>2, <2>1, <2>2, Stable, Zenon DEF AoInv, DeviceInv, OpeningInv, Held, Ahead
  <2>6. SeenInv'
    <3>1. Single' = Single /\ Unseen' = Unseen /\ Ahead' = Ahead
      BY <2>1, <2>2, Stable, Zenon DEF Unseen, Ahead
    <3>2. QED
      BY <1>2, <2>1, <3>1, Zenon DEF AoInv, SeenInv
  <2>7. CrashAfterFallback'
    <3>1. Asked' = Asked
      BY <2>1, <2>2, Stable, Zenon
    <3>2. QED
      BY <1>2, <2>1, <2>2, <3>1, Zenon DEF AoInv, CrashAfterFallback
  <2>8. QED
    BY <2>3, <2>4, <2>5, <2>6, <2>7 DEF AoInv
<1>3. QED
  BY <1>1, <1>2

LEMMA AoAlways == Spec => []AoInv
<1>1. QED
  BY AoInit, AoStep, PTL DEF Spec

\* The types, and that no device is lost but behind sun's, whose opening does not count.
THEOREM LeaksOnlyBehindSun == Spec => []Bookkeeping
<1>1. AoInv => Bookkeeping
  BY DEF AoInv, Bookkeeping
<1>2. QED
  BY AoAlways, <1>1, PTL

\* A named device is never replaced by another type, and the type of -o comes first.
THEOREM UserIsObeyed == Spec => []UserObeyed
<1>1. AoInv => NoFallThrough
  BY DEF AoInv, OptInv, NoFallThrough
<1>2. ASSUME AoInv, requested # {"sun"}, ~WavAndOther, playdevice # None, requested # {}
      PROVE  playdevice.flag \in requested \/ requested \cap tried # {}
  <2>1. playdevice.flag \in opt
    BY <1>2, Zenon DEF AoInv, DeviceInv, Suits
  <2>2. opt \subseteq requested \/ requested \cap tried # {}
    BY <1>2, Zenon DEF AoInv, OptInv
  <2>3. QED
    BY <2>1, <2>2, Zenon
<1>3. AoInv => UserObeyed
  BY <1>1, <1>2, Zenon DEF UserObeyed, SpecifiedFirstButSun, SpecifiedFirst
<1>4. QED
  BY AoAlways, <1>3, PTL

\* A frame is played on an open device, on a live one in its own format, with Ctrl-C handled.
THEOREM FramesSuitDevice == Spec => []PlaysRight
<1>1. AoInv => PlaysRight
  BY SMT DEF AoInv, OpeningInv, PlaysRight
<1>2. QED
  BY AoAlways, <1>1, PTL

\* playdevice_is_live() dereferences a driver libao lacks, in the output of a frame or in an
\* opening, only after a fallback, for sun or for two -o.
THEOREM CrashesExplained == Spec => []CrashAfterFallback
<1>1. AoInv => CrashAfterFallback
  BY DEF AoInv
<1>2. QED
  BY AoAlways, <1>1, PTL

\* A device is closed twice only by a signal during the opening that follows ao_close().
THEOREM ClosedOnceButOpening == Spec => ClosedTwiceOnlyOpening
<1>1. ASSUME AoInv, Next, pc' = "closedTwice" PROVE pc \in Opening
  <2>1. \/ Checked \/ OutputFrame \/ ToChain \/ Unknown \/ Crashed \/ NoName \/ SpecifiedOpened
        \/ \E flag \in Flags : FailedExit(flag) \/ FailedNull(flag)
        \/ Skipped \/ DriverOpened \/ DriverFell \/ Restore \/ RestoreBuffer \/ Ended
    BY <1>1, Moves, Zenon DEF AoInv
  <2>2. ~Checked /\ ~OutputFrame
    BY <1>1, SMT DEF Checked, OutputFrame
  <2>3. ~ToChain /\ ~Unknown /\ ~Crashed /\ ~NoName /\ ~SpecifiedOpened
    BY <1>1, SMT DEF ToChain, Unknown, Crashed, NoName, SpecifiedOpened, Opened
  <2>4. \A flag \in Flags : ~FailedExit(flag) /\ ~FailedNull(flag)
    BY <1>1, SMT DEF FailedExit, Exit, FailedNull, ReturnNull
  <2>5. \A flag \in Chain : NextDriver(flag) # "closedTwice" /\ AfterOpened(flag) # "closedTwice"
    BY SMT DEF NextDriver, AfterOpened, Chain
  <2>6. ~Skipped /\ ~DriverOpened /\ ~DriverFell
    BY <1>1, <2>5, Zenon DEF Skipped, DriverOpened, DriverFell, Opened
  <2>7. ~Restore /\ ~RestoreBuffer
    BY <1>1, SMT DEF Restore, RestoreBuffer
  <2>8. closed /\ pc \notin Ends
    BY <1>1, <2>1, <2>2, <2>3, <2>4, <2>6, <2>7, Zenon DEF Ended
  <2>9. QED
    BY <1>1, <2>8, SMT DEF AoInv, DeviceInv
<1>2. AoInv /\ [Next]_vars => [pc' = "closedTwice" => pc \in Opening]_vars
  BY <1>1
<1>3. QED
  BY AoAlways, <1>2, PTL DEF Spec, ClosedTwiceOnlyOpening
===============================================================================
