----------------------------- MODULE GpioProofs -----------------------------
(***************************************************************************)
(* Edge detection for every number of pins, calls, threads and descriptors.  *)
(* GpioInv is inductive for every program: it says what a call knows of fd_list at *)
(* its steps (CallInv), how the callback lists differ in the middle of one   *)
(* (ListsInv), and which descriptors are open (DescriptorsConsistent).       *)
(* Three more parts hold of programs that do not clean up, or take no        *)
(* detection back: the poll threads stay (ServeInv); a pin without an edge   *)
(* has at most one report on its way, which finds it marked as initial       *)
(* (ReportInv); and what the walks over the callback lists have run and are  *)
(* still to run is paid for by edges (WorkInv).                              *)
(***************************************************************************)
EXTENDS GpioEvents, FiniteSetTheorems, SequenceTheorems, TLAPS

\* The calls that are about a pin; two callbacks of the budget belong to each call.
PinSteps == {"addopen", "addepoll", "addthread", "cbpy", "cbc", "rmc", "rmepoll", "rmflag",
             "waitopen", "waitfirst", "waitedge"}
Pending == CASE mpc \in {"addopen", "addepoll", "addthread", "cbpy"} -> 2
             [] mpc = "cbc" -> 1
             [] OTHER -> 0

\* what a call knows at its steps
CallInv ==
  /\ mpc \in PinSteps => mpin \in Pins
  /\ mpc \in {"addopen", "addepoll", "rmepoll", "waitopen"} => mfd = fd_lookup(mpin)
  /\ mpc = "addepoll" => mfd # 0 /\ mpin \in edge
  /\ mpc \in {"stop", "unexport"} => ~epLive
  /\ mpc \in {"waitopen", "waitfirst", "waitedge"} =>
       wfd \in used /\ wfd \notin Live /\ (wfd \in Listed => wfd \in Stale)

\* the two callback lists
ListsInv ==
  /\ IsFiniteSet(cCallbacks) /\ IsFiniteSet(pyCallbacks)
  /\ nodes + Pending <= 2 * calls
  /\ \A n \in cCallbacks \cup pyCallbacks : n.id <= nodes
  /\ mpc \notin {"cbc", "rmc", "crashed"} =>
       \A p \in Pins : Count(cCallbacks, p) = Count(pyCallbacks, p)
  /\ mpc = "cbc" =>
       \A p \in Pins : Count(pyCallbacks, p) = IF p = mpin THEN Count(cCallbacks, p) + 1
                                               ELSE Count(cCallbacks, p)
  /\ mpc = "rmc" =>
       \A p \in Pins : Count(pyCallbacks, p) = IF p = mpin THEN 0 ELSE Count(cCallbacks, p)

\* descriptors
EpollInv ==
  /\ epLive => epfd # 0
  /\ epfd = 0 => epSet = {}

GpioInv == TypeOK /\ CallInv /\ ListsInv /\ EpollInv /\ DescriptorsConsistent

\* without cleanup() only a signal takes a poll thread away
ServeInv ==
  /\ mpc \notin {"stop", "unexport"}
  /\ (epfd # 0 => epLive) /\ (mpc = "addthread" => epLive)
  /\ \A t \in Threads : Alive(t) => epLive
  /\ \A t \in Threads : thread[t].pc \in {"read", "look"} => thread[t].fd \in Listed
  /\ running => \E t \in Threads : Alive(t)
  /\ interrupts = 0 => \A t \in Threads :
       thread[t].pc \notin {"gone", "leave"} /\ (thread[t].pc \notin {"none", "start"} => running)
  /\ epSet # {} /\ mpc # "addthread" =>
       (\E t \in Threads : Alive(t)) \/ (interrupts > 0 /\ ~running)

\* reports of a pin
Maps(p, f) == \E i \in DOMAIN fdList : fdList[i].gpio = p /\ fdList[i].fd = f
Registered(p) == \E f \in epSet : Maps(p, f)
Ready(p) == \E f \in ready : Maps(p, f)
Handles(t, p) ==
  \/ thread[t].pc \in {"read", "look"} /\ Maps(p, thread[t].fd)
  \/ thread[t].pc = "test" /\ thread[t].gpio = p
ReportOf(p) ==
  /\ p \notin real =>
       /\ ~occurred[p]
       /\ Ready(p) => gpio_initial(p) /\ \A t \in Threads : ~Handles(t, p)
       /\ \A t \in Threads : Handles(t, p) => gpio_initial(p)
       /\ \A t, u \in Threads : Handles(t, p) /\ Handles(u, p) => t = u
  /\ ~Registered(p) =>
       /\ ~occurred[p] /\ \A t \in Threads : ~Handles(t, p)
       /\ \A i \in EntriesOf(p) : fdList[i].initial
ReportInv == mpc \notin {"rmc", "rmepoll", "rmflag"} /\ \A p \in Pins : ReportOf(p)

(* The types of the parts.                                                  *)
EntryType  == [fd : Fds, gpio : Pins, initial : BOOLEAN, evented : BOOLEAN]
ThreadType == [pc : ThreadPCs, fd : Fds \cup {0}, gpio : Pins \cup {0}, c : Nat, py : Nat]
NodeType   == [id : NodeIds, gpio : Pins]

LibTypes ==
  /\ exported \in [Pins -> {"no", "us", "other"}] /\ direction \in [Pins -> {"unset", "in"}]
  /\ fdList \in Seq(EntryType) /\ epfd \in Fds \cup {0}
FlagTypes ==
  /\ epLive \in BOOLEAN /\ running \in BOOLEAN /\ mcb \in BOOLEAN /\ wready \in BOOLEAN
  /\ occurred \in [Pins \cup {0} -> BOOLEAN]
KernelTypes ==
  /\ sysfs \subseteq Pins /\ edge \subseteq Pins /\ used \subseteq Fds
  /\ epSet \subseteq Fds /\ ready \subseteq epSet
NodeTypes == cCallbacks \subseteq NodeType /\ pyCallbacks \subseteq NodeType /\ nodes \in Nat
ThreadTypes == thread \in [Threads -> ThreadType]
CallTypes ==
  /\ mpc \in MainPCs /\ mpin \in Pins \cup {0} /\ mfd \in Fds \cup {0} /\ wfd \in Fds \cup {0}
  /\ result \in Results /\ calls \in 0 .. MaxCalls
HistoryTypes ==
  edges \in 0 .. MaxEdges /\ interrupts \in 0 .. MaxInterrupts /\ real \subseteq Pins /\ invoked \in [NodeIds -> Nat]

LEMMA Typed ==
  TypeOK <=> /\ LibTypes /\ FlagTypes /\ KernelTypes /\ NodeTypes /\ ThreadTypes
             /\ CallTypes /\ HistoryTypes
  BY Zenon DEF TypeOK, LibTypes, FlagTypes, KernelTypes, NodeTypes, ThreadTypes, CallTypes,
     HistoryTypes, EntryType, ThreadType, NodeType

LEMMA TypedNext ==
  ASSUME LibTypes', FlagTypes', KernelTypes', NodeTypes', ThreadTypes', CallTypes', HistoryTypes'
  PROVE  TypeOK'
  BY Zenon DEF TypeOK, LibTypes, FlagTypes, KernelTypes, NodeTypes, ThreadTypes, CallTypes,
     HistoryTypes, EntryType, ThreadType, NodeType

(* What an action leaves alone keeps its type.                              *)
LEMMA TypesKept ==
  ASSUME TypeOK
  PROVE  /\ UNCHANGED <<exported, direction, fdList, epfd>> => LibTypes'
         /\ UNCHANGED <<epLive, running, mcb, wready, occurred>> => FlagTypes'
         /\ UNCHANGED kernelVars => KernelTypes'
         /\ UNCHANGED <<sysfs, edge, used, epSet, ready>> => KernelTypes'
         /\ UNCHANGED listVars => NodeTypes'
         /\ UNCHANGED thread => ThreadTypes'
         /\ UNCHANGED <<mpc, mpin, mfd, wfd, result, calls>> => CallTypes'
         /\ UNCHANGED histVars => HistoryTypes'
<1>1. /\ LibTypes /\ FlagTypes /\ KernelTypes /\ NodeTypes /\ ThreadTypes
      /\ CallTypes /\ HistoryTypes
  BY Typed, Zenon
<1>2. UNCHANGED <<exported, direction, fdList, epfd>> => LibTypes'
  BY <1>1, Zenon DEF LibTypes
<1>3. UNCHANGED <<epLive, running, mcb, wready, occurred>> => FlagTypes'
  BY <1>1, Zenon DEF FlagTypes
<1>4. UNCHANGED <<sysfs, edge, used, epSet, ready>> => KernelTypes'
  BY <1>1, Zenon DEF KernelTypes
<1>5. UNCHANGED kernelVars => UNCHANGED <<sysfs, edge, used, epSet, ready>>
  BY Zenon DEF kernelVars
<1>6. (UNCHANGED listVars => NodeTypes') /\ (UNCHANGED thread => ThreadTypes')
  BY <1>1, Zenon DEF listVars, NodeTypes, ThreadTypes
<1>7. UNCHANGED <<mpc, mpin, mfd, wfd, result, calls>> => CallTypes'
  BY <1>1, Zenon DEF CallTypes
<1>8. UNCHANGED histVars => HistoryTypes'
  BY <1>1, Zenon DEF histVars, HistoryTypes
<1>9. QED
  BY <1>2, <1>3, <1>4, <1>5, <1>6, <1>7, <1>8, Zenon

-----------------------------------------------------------------------------
(* The first match of a list, and the lowest free descriptor: a nonempty set *)
(* of numbers has a least element, since the intervals 0 .. a of its         *)
(* elements are finite and these are well founded under inclusion.          *)
LEMMA LeastNumber ==
  ASSUME NEW A, A \subseteq Nat, A # {}
  PROVE  \E m \in A : \A n \in A : m <= n
<1> DEFINE R == StrictSubsetOrdering(Nat)
           T == {0 .. a : a \in A}
<1>1. IsWellFoundedOn(R, FiniteSubsetsOf(Nat))
  BY FS_StrictSubsetOrderingWellFounded, Zenon
<1>2. T \subseteq FiniteSubsetsOf(Nat) /\ T # {}
  <2>1. \A a \in A : IsFiniteSet(0 .. a) /\ 0 .. a \subseteq Nat
    BY FS_Interval, SMT
  <2>2. QED
    BY <2>1, Zenon DEF FiniteSubsetsOf
<1>3. \E x \in T : \A y \in T : <<y, x>> \notin R
  <2> HIDE DEF R, T
  <2>1. QED
    BY <1>1, <1>2, WFMin, Zenon
<1>4. PICK m \in A : \A n \in A : <<0 .. n, 0 .. m>> \notin R
  BY <1>3, Zenon
<1>5. ASSUME NEW n \in A, n < m PROVE FALSE
  <2>1. 0 .. n \subseteq 0 .. m /\ m \in 0 .. m /\ m \notin 0 .. n /\ 0 .. m \subseteq Nat
    BY <1>5, SMT
  <2>2. <<0 .. n, 0 .. m>> \in R
    BY <2>1, Zenon DEF StrictSubsetOrdering
  <2>3. QED
    BY <2>2, <1>4, Zenon
<1>6. QED
  BY <1>5, SMT

LEMMA FirstIsIn ==
  ASSUME NEW S, S \subseteq Nat, S # {}
  PROVE  FirstOf(S) \in S /\ \A j \in S : FirstOf(S) <= j
  BY LeastNumber, Zenon DEF FirstOf

LEMMA LowestFreeIsFree == FreeFds # {} => LowestFree \in Fds /\ LowestFree \notin used
<1>1. FreeFds \subseteq Nat
  BY SMT DEF FreeFds, Fds
<1>2. FreeFds # {} => LowestFree \in FreeFds
  BY <1>1, LeastNumber, Zenon DEF LowestFree
<1>3. QED
  BY <1>2, Zenon DEF FreeFds

LEMMA ListFields ==
  ASSUME NEW s \in Seq(EntryType)
  PROVE  /\ Len(s) \in Nat /\ DOMAIN s = 1 .. Len(s)
         /\ \A i \in DOMAIN s : s[i] \in EntryType /\ s[i].fd \in Fds /\ s[i].gpio \in Pins
<1>1. Len(s) \in Nat /\ DOMAIN s = 1 .. Len(s) /\ \A i \in 1 .. Len(s) : s[i] \in EntryType
  BY LenProperties, SMT
<1>2. QED
  BY <1>1, SMT DEF EntryType

LEMMA PinsPositive == Pins \subseteq Nat /\ 0 \notin Pins /\ 0 \notin Fds
  BY GpioAssumption, SMT DEF Fds

(* fd_lookup() and gpio_lookup() of a list.                                 *)
FdIn(s, p) == LET S == {i \in DOMAIN s : s[i].gpio = p}
              IN  IF S = {} THEN 0 ELSE s[FirstOf(S)].fd
PinIn(s, f) == LET S == {i \in DOMAIN s : s[i].fd = f}
               IN  IF S = {} THEN 0 ELSE s[FirstOf(S)].gpio
MapsIn(s, p, f) == \E i \in DOMAIN s : s[i].gpio = p /\ s[i].fd = f
OnePerPin(s) == \A i, j \in DOMAIN s : i # j => s[i].gpio # s[j].gpio

LEMMA Lookups ==
  ASSUME NEW p, NEW f
  PROVE  /\ fd_lookup(p) = FdIn(fdList, p) /\ fd_lookup(p)' = FdIn(fdList', p)
         /\ gpio_lookup(f) = PinIn(fdList, f) /\ gpio_lookup(f)' = PinIn(fdList', f)
         /\ Maps(p, f) = MapsIn(fdList, p, f) /\ Maps(p, f)' = MapsIn(fdList', p, f)
  BY Zenon DEF fd_lookup, EntriesOf, FdIn, gpio_lookup, PinIn, Maps, MapsIn

LEMMA FdFound ==
  ASSUME NEW s \in Seq(EntryType), NEW p \in Pins
  PROVE  /\ FdIn(s, p) \in Fds \cup {0}
         /\ FdIn(s, p) = 0 <=> \A i \in DOMAIN s : s[i].gpio # p
         /\ FdIn(s, p) # 0 => MapsIn(s, p, FdIn(s, p))
         /\ OnePerPin(s) => \A f \in Fds : MapsIn(s, p, f) => f = FdIn(s, p)
<1> DEFINE S == {i \in DOMAIN s : s[i].gpio = p}
<1>1. S \subseteq Nat /\ \A i \in S : i \in DOMAIN s /\ s[i].gpio = p /\ s[i].fd \in Fds
  BY ListFields, SMT
<1>2. CASE S = {}
  <2>1. FdIn(s, p) = 0 /\ \A i \in DOMAIN s : s[i].gpio # p
    BY <1>2, Zenon DEF FdIn
  <2>2. \A f : ~MapsIn(s, p, f)
    BY <2>1, Zenon DEF MapsIn
  <2>3. QED
    BY <2>1, <2>2, Zenon
<1>3. CASE S # {}
  <2>1. FirstOf(S) \in S
    BY <1>1, <1>3, FirstIsIn, Zenon
  <2>2. FdIn(s, p) = s[FirstOf(S)].fd
    BY <1>3, Zenon DEF FdIn
  <2>3. FdIn(s, p) \in Fds /\ FdIn(s, p) # 0 /\ MapsIn(s, p, FdIn(s, p))
    BY <2>1, <2>2, <1>1, PinsPositive, Zenon DEF MapsIn
  <2>4. ~ \A i \in DOMAIN s : s[i].gpio # p
    BY <2>1, <1>1, Zenon
  <2>5. ASSUME OnePerPin(s), NEW f \in Fds, MapsIn(s, p, f)
        PROVE  f = FdIn(s, p)
    <3>1. PICK i \in DOMAIN s : s[i].gpio = p /\ s[i].fd = f
      BY <2>5, Zenon DEF MapsIn
    <3>2. i = FirstOf(S)
      BY <2>1, <1>1, <3>1, <2>5, Zenon DEF OnePerPin
    <3>3. QED
      BY <3>1, <3>2, <2>2, Zenon
  <2>6. QED
    BY <2>3, <2>4, <2>5, Zenon
<1>4. QED
  BY <1>2, <1>3, Zenon

LEMMA PinFound ==
  ASSUME NEW s \in Seq(EntryType), NEW f
  PROVE  /\ PinIn(s, f) \in Pins \cup {0}
         /\ PinIn(s, f) = 0 <=> f \notin {s[i].fd : i \in DOMAIN s}
         /\ PinIn(s, f) # 0 => MapsIn(s, PinIn(s, f), f)
         /\ (\A i, j \in DOMAIN s : i # j /\ s[i].fd = f => s[j].fd # f) =>
              \A p \in Pins : MapsIn(s, p, f) => p = PinIn(s, f)
<1> DEFINE S == {i \in DOMAIN s : s[i].fd = f}
<1>1. S \subseteq Nat /\ \A i \in S : i \in DOMAIN s /\ s[i].fd = f /\ s[i].gpio \in Pins
  BY ListFields, SMT
<1>2. CASE S = {}
  <2>1. PinIn(s, f) = 0 /\ \A i \in DOMAIN s : s[i].fd # f
    BY <1>2, Zenon DEF PinIn
  <2>2. \A p : ~MapsIn(s, p, f)
    BY <2>1, Zenon DEF MapsIn
  <2>3. QED
    BY <2>1, <2>2, Zenon
<1>3. CASE S # {}
  <2>1. FirstOf(S) \in S
    BY <1>1, <1>3, FirstIsIn, Zenon
  <2>2. PinIn(s, f) = s[FirstOf(S)].gpio
    BY <1>3, Zenon DEF PinIn
  <2>3. PinIn(s, f) \in Pins /\ PinIn(s, f) # 0 /\ MapsIn(s, PinIn(s, f), f)
    BY <2>1, <2>2, <1>1, PinsPositive, Zenon DEF MapsIn
  <2>4. f \in {s[i].fd : i \in DOMAIN s}
    BY <2>1, <1>1, Zenon
  <2>5. ASSUME \A i, j \in DOMAIN s : i # j /\ s[i].fd = f => s[j].fd # f,
               NEW p \in Pins, MapsIn(s, p, f)
        PROVE  p = PinIn(s, f)
    <3>1. PICK i \in DOMAIN s : s[i].gpio = p /\ s[i].fd = f
      BY <2>5, Zenon DEF MapsIn
    <3>2. i = FirstOf(S)
      BY <2>1, <1>1, <3>1, <2>5, Zenon
    <3>3. QED
      BY <3>1, <3>2, <2>2, Zenon
  <2>6. QED
    BY <2>3, <2>4, <2>5, Zenon
<1>4. QED
  BY <1>2, <1>3, Zenon

-----------------------------------------------------------------------------
(* How fd_list changes: entries keep their pin and descriptor, or one is added *)
(* in front, or one is taken out.                                           *)
SameList(s, t) ==
  /\ t \in Seq(EntryType) /\ DOMAIN t = DOMAIN s
  /\ \A i \in DOMAIN s : t[i].gpio = s[i].gpio /\ t[i].fd = s[i].fd
Longer(s, t, p, f) ==
  /\ t \in Seq(EntryType) /\ DOMAIN t = 1 .. Len(s) + 1
  /\ t[1] = Entry(p, f) /\ \A i \in DOMAIN s : t[i + 1] = s[i]
Shorter(s, t, k) ==
  /\ t \in Seq(EntryType) /\ DOMAIN t = 1 .. Len(s) - 1
  /\ \A i \in DOMAIN t : t[i] = IF i < k THEN s[i] ELSE s[i + 1]
FdsOf(s) == {s[i].fd : i \in DOMAIN s}
Apart(s, S) == \A i, j \in DOMAIN s : i # j => s[i].fd # s[j].fd \/ s[i].fd \in S

LEMMA MarkSame ==
  ASSUME fdList \in Seq(EntryType), NEW p \in Pins, NEW e \in BOOLEAN
  PROVE  /\ SameList(fdList, Mark(p, e))
         /\ \A i \in DOMAIN fdList : Mark(p, e)[i].initial = fdList[i].initial
<1> DEFINE k == FirstOf(EntriesOf(p))
<1>1. CASE EntriesOf(p) = {}
  BY <1>1, Zenon DEF Mark, SameList
<1>2. CASE EntriesOf(p) # {}
  <2>1. DOMAIN fdList = 1 .. Len(fdList) /\ Len(fdList) \in Nat
        /\ \A i \in DOMAIN fdList : fdList[i] \in EntryType
    BY ListFields, Zenon
  <2>2. k \in DOMAIN fdList
    <3>1. EntriesOf(p) \subseteq Nat /\ EntriesOf(p) \subseteq DOMAIN fdList
      BY <2>1, SMT DEF EntriesOf
    <3>2. QED
      BY <3>1, <1>2, FirstIsIn, Zenon
  <2>3. Mark(p, e) = [fdList EXCEPT ![k].evented = e]
    BY <1>2, Zenon DEF Mark
  <2> HIDE DEF k
  <2>4. [fdList[k] EXCEPT !.evented = e] \in EntryType
        /\ [fdList[k] EXCEPT !.evented = e].gpio = fdList[k].gpio
        /\ [fdList[k] EXCEPT !.evented = e].fd = fdList[k].fd
        /\ [fdList[k] EXCEPT !.evented = e].initial = fdList[k].initial
    BY <2>1, <2>2, SMT DEF EntryType
  <2>5. PICK en \in EntryType : en = [fdList[k] EXCEPT !.evented = e]
    BY <2>4, Zenon
  <2>6. Mark(p, e) = [fdList EXCEPT ![k] = en]
    BY <2>3, <2>5, Zenon
  <2>7. Mark(p, e) \in Seq(EntryType) /\ DOMAIN Mark(p, e) = DOMAIN fdList
        /\ \A i \in DOMAIN fdList : Mark(p, e)[i] = IF i = k THEN en ELSE fdList[i]
    BY <2>6, <2>2, <2>1, SMT
  <2>8. QED
    BY <2>7, <2>5, <2>4, <2>2, Zenon DEF SameList
<1>3. QED
  BY <1>1, <1>2

LEMMA InitialSame ==
  ASSUME fdList \in Seq(EntryType), NEW p \in Pins \cup {0}
  PROVE  /\ SameList(fdList, set_initial_false(p))
         /\ \A i \in DOMAIN fdList :
              IF fdList[i].gpio = p THEN set_initial_false(p)[i].initial = FALSE
              ELSE set_initial_false(p)[i].initial = fdList[i].initial
<1> DEFINE t == set_initial_false(p)
<1>1. DOMAIN fdList = 1 .. Len(fdList) /\ Len(fdList) \in Nat
      /\ \A i \in DOMAIN fdList : fdList[i] \in EntryType
  BY ListFields, Zenon
<1>2. t = [i \in DOMAIN fdList |-> IF fdList[i].gpio = p THEN [fdList[i] EXCEPT !.initial = FALSE]
                                                 ELSE fdList[i]]
  BY SMT DEF set_initial_false, EntriesOf
<1>3. \A i \in DOMAIN fdList :
        /\ [fdList[i] EXCEPT !.initial = FALSE] \in EntryType
        /\ [fdList[i] EXCEPT !.initial = FALSE].gpio = fdList[i].gpio
        /\ [fdList[i] EXCEPT !.initial = FALSE].fd = fdList[i].fd
        /\ [fdList[i] EXCEPT !.initial = FALSE].initial = FALSE
  <2>1. SUFFICES ASSUME NEW e \in EntryType
                 PROVE  /\ [e EXCEPT !.initial = FALSE] \in EntryType
                        /\ [e EXCEPT !.initial = FALSE].gpio = e.gpio
                        /\ [e EXCEPT !.initial = FALSE].fd = e.fd
                        /\ [e EXCEPT !.initial = FALSE].initial = FALSE
    BY <1>1, Zenon
  <2>2. PICK b \in BOOLEAN : b = FALSE
    OBVIOUS
  <2>3. /\ [e EXCEPT !.initial = b] \in EntryType
        /\ [e EXCEPT !.initial = b].gpio = e.gpio /\ [e EXCEPT !.initial = b].fd = e.fd
        /\ [e EXCEPT !.initial = b].initial = b
    BY SMT DEF EntryType
  <2>4. QED
    BY <2>2, <2>3, Zenon
<1> HIDE DEF t
<1>4. DOMAIN t = DOMAIN fdList
      /\ \A i \in DOMAIN fdList : t[i] = IF fdList[i].gpio = p THEN [fdList[i] EXCEPT !.initial = FALSE]
                                         ELSE fdList[i]
  BY <1>2, Zenon
<1>5. \A i \in 1 .. Len(fdList) : t[i] \in EntryType
  BY <1>1, <1>3, <1>4, Zenon
<1>6. t \in Seq(EntryType)
  <2>1. t = [i \in 1 .. Len(fdList) |-> t[i]]
    BY <1>1, <1>2, <1>4, Zenon
  <2>2. QED
    BY <2>1, <1>5, <1>1, SMT
<1>7. SameList(fdList, t)
  BY <1>4, <1>3, <1>6, Zenon DEF SameList
<1>8. QED
  BY <1>7, <1>4, <1>3, Zenon DEF t

LEMMA EntryLonger ==
  ASSUME NEW s \in Seq(EntryType), NEW p \in Pins, NEW f \in Fds
  PROVE  Longer(s, <<Entry(p, f)>> \o s, p, f)
<1>1. Entry(p, f) \in EntryType
  BY SMT DEF Entry, EntryType
<1>2. <<Entry(p, f)>> \in Seq(EntryType) /\ Len(<<Entry(p, f)>>) = 1 /\ <<Entry(p, f)>>[1] = Entry(p, f)
  BY <1>1, SMT
<1>3. DOMAIN s = 1 .. Len(s) /\ Len(s) \in Nat
  BY ListFields, Zenon
<1> DEFINE one == <<Entry(p, f)>>
           t == one \o s
<1> HIDE DEF one
<1>4. /\ t \in Seq(EntryType) /\ Len(t) = 1 + Len(s)
      /\ \A i \in 1 .. 1 + Len(s) : t[i] = IF i <= 1 THEN one[i] ELSE s[i - 1]
  BY <1>2, ConcatProperties, Zenon DEF one
<1> HIDE DEF t
<1>5. DOMAIN t = 1 .. Len(s) + 1
  BY <1>4, <1>3, LenProperties, SMT
<1>6. t[1] = Entry(p, f)
  <2>1. 1 \in 1 .. 1 + Len(s) /\ 1 <= 1
    BY <1>3, SMT
  <2>2. QED
    BY <2>1, <1>4, <1>2, Zenon DEF one
<1>7. ASSUME NEW i \in DOMAIN s PROVE t[i + 1] = s[i]
  <2>1. i + 1 \in 1 .. 1 + Len(s) /\ ~(i + 1 <= 1) /\ (i + 1) - 1 = i
    BY <1>3, SMT
  <2>2. t[i + 1] = s[(i + 1) - 1]
    BY <2>1, <1>4, Zenon
  <2>3. QED
    BY <2>1, <2>2, Zenon
<1>8. QED
  BY <1>4, <1>5, <1>6, <1>7, Zenon DEF Longer, t, one

LEMMA Removed ==
  ASSUME NEW S, NEW s \in Seq(S), NEW p \in 1 .. Len(s)
  PROVE  /\ RemoveAt(s, p) \in Seq(S) /\ Len(RemoveAt(s, p)) = Len(s) - 1
         /\ \A j \in 1 .. Len(s) - 1 : RemoveAt(s, p)[j] = IF j < p THEN s[j] ELSE s[j + 1]
<1> DEFINE l == SubSeq(s, 1, p - 1)
           r == SubSeq(s, p + 1, Len(s))
<1>1. Len(s) \in Nat /\ \A j \in 1 .. Len(s) : s[j] \in S
  BY LenProperties, SMT
<1>2. l \in Seq(S) /\ Len(l) = p - 1 /\ \A j \in 1 .. p - 1 : l[j] = s[j]
  BY <1>1, SMT
<1>3. r \in Seq(S) /\ Len(r) = Len(s) - p /\ \A j \in 1 .. Len(s) - p : r[j] = s[j + p]
  BY <1>1, SMT
<1> HIDE DEF l, r
<1>4. /\ l \o r \in Seq(S) /\ Len(l \o r) = Len(l) + Len(r)
      /\ \A j \in 1 .. Len(l) + Len(r) : (l \o r)[j] = IF j <= Len(l) THEN l[j] ELSE r[j - Len(l)]
  BY <1>2, <1>3, ConcatProperties, Zenon
<1>5. RemoveAt(s, p) = l \o r
  BY DEF RemoveAt, l, r
<1>6. Len(l) + Len(r) = Len(s) - 1
  BY <1>1, <1>2, <1>3, SMT
<1>7. ASSUME NEW j \in 1 .. Len(s) - 1
      PROVE  (l \o r)[j] = IF j < p THEN s[j] ELSE s[j + 1]
  <2>1. (l \o r)[j] = IF j <= Len(l) THEN l[j] ELSE r[j - Len(l)]
    BY <1>4, <1>6, Zenon
  <2>2. CASE j < p
    BY <1>1, <1>2, <2>1, <2>2, SMT
  <2>3. CASE ~(j < p)
    <3>1. j - (p - 1) \in 1 .. Len(s) - p /\ j - (p - 1) + p = j + 1 /\ ~(j <= p - 1)
      BY <1>1, <2>3, SMT
    <3>2. r[j - (p - 1)] = s[j + 1]
      BY <1>3, <3>1, SMT
    <3>3. QED
      BY <1>2, <2>1, <2>3, <3>1, <3>2, SMT
  <2>4. QED
    BY <2>2, <2>3
<1>8. QED
  BY <1>4, <1>5, <1>6, <1>7, Zenon


LEMMA RemovedShorter ==
  ASSUME NEW s \in Seq(EntryType), NEW k \in DOMAIN s
  PROVE  Shorter(s, RemoveAt(s, k), k)
<1>1. DOMAIN s = 1 .. Len(s) /\ Len(s) \in Nat
  BY ListFields, Zenon
<1>2. /\ RemoveAt(s, k) \in Seq(EntryType) /\ Len(RemoveAt(s, k)) = Len(s) - 1
      /\ \A j \in 1 .. Len(s) - 1 : RemoveAt(s, k)[j] = IF j < k THEN s[j] ELSE s[j + 1]
  BY <1>1, Removed, Zenon
<1>3. DOMAIN RemoveAt(s, k) = 1 .. Len(s) - 1
  BY <1>2, LenProperties, Zenon
<1>4. QED
  BY <1>2, <1>3, Zenon DEF Shorter

(* What each change does to the lookups.                                    *)
LEMMA SameLookups ==
  ASSUME NEW s \in Seq(EntryType), NEW t, SameList(s, t)
  PROVE  /\ \A p : FdIn(t, p) = FdIn(s, p) /\ \A f : PinIn(t, f) = PinIn(s, f)
         /\ \A p, f : MapsIn(t, p, f) = MapsIn(s, p, f)
         /\ FdsOf(t) = FdsOf(s) /\ (OnePerPin(s) => OnePerPin(t))
         /\ \A S : Apart(s, S) => Apart(t, S)
<1>1. DOMAIN t = DOMAIN s /\ \A i \in DOMAIN s : t[i].gpio = s[i].gpio /\ t[i].fd = s[i].fd
  BY Zenon DEF SameList
<1>2. ASSUME NEW p PROVE FdIn(t, p) = FdIn(s, p)
  <2> DEFINE S == {i \in DOMAIN s : s[i].gpio = p}
  <2>1. {i \in DOMAIN t : t[i].gpio = p} = S
    BY <1>1, Zenon
  <2>2. S # {} => FirstOf(S) \in DOMAIN s
    <3>1. S \subseteq Nat /\ S \subseteq DOMAIN s
      BY ListFields, SMT
    <3>2. QED
      BY <3>1, FirstIsIn, Zenon
  <2> HIDE DEF S
  <2>3. FdIn(t, p) = (IF S = {} THEN 0 ELSE t[FirstOf(S)].fd)
    BY <2>1, Zenon DEF FdIn
  <2>4. FdIn(s, p) = (IF S = {} THEN 0 ELSE s[FirstOf(S)].fd)
    BY Zenon DEF FdIn, S
  <2>5. CASE S = {}
    BY <2>3, <2>4, <2>5, Zenon
  <2>6. CASE S # {}
    BY <2>2, <2>3, <2>4, <2>6, <1>1, Zenon
  <2>7. QED
    BY <2>5, <2>6, Zenon
<1>3. ASSUME NEW f PROVE PinIn(t, f) = PinIn(s, f)
  <2> DEFINE S == {i \in DOMAIN s : s[i].fd = f}
  <2>1. {i \in DOMAIN t : t[i].fd = f} = S
    BY <1>1, Zenon
  <2>2. S # {} => FirstOf(S) \in DOMAIN s
    <3>1. S \subseteq Nat /\ S \subseteq DOMAIN s
      BY ListFields, SMT
    <3>2. QED
      BY <3>1, FirstIsIn, Zenon
  <2> HIDE DEF S
  <2>3. PinIn(t, f) = (IF S = {} THEN 0 ELSE t[FirstOf(S)].gpio)
    BY <2>1, Zenon DEF PinIn
  <2>4. PinIn(s, f) = (IF S = {} THEN 0 ELSE s[FirstOf(S)].gpio)
    BY Zenon DEF PinIn, S
  <2>5. CASE S = {}
    BY <2>3, <2>4, <2>5, Zenon
  <2>6. CASE S # {}
    BY <2>2, <2>3, <2>4, <2>6, <1>1, Zenon
  <2>7. QED
    BY <2>5, <2>6, Zenon
<1>4. \A p, f : MapsIn(t, p, f) = MapsIn(s, p, f)
  BY <1>1, Zenon DEF MapsIn
<1>5. FdsOf(t) = FdsOf(s)
  BY <1>1, Zenon DEF FdsOf
<1>6. OnePerPin(s) => OnePerPin(t)
  BY <1>1, Zenon DEF OnePerPin
<1>7. \A S : Apart(s, S) => Apart(t, S)
  BY <1>1, Zenon DEF Apart
<1>8. QED
  BY <1>2, <1>3, <1>4, <1>5, <1>6, <1>7, Zenon

LEMMA LongerLookups ==
  ASSUME NEW s \in Seq(EntryType), NEW p \in Pins, NEW f \in Fds, NEW t, Longer(s, t, p, f)
  PROVE  /\ \A q, g : MapsIn(t, q, g) <=> MapsIn(s, q, g) \/ (q = p /\ g = f)
         /\ FdsOf(t) = FdsOf(s) \cup {f}
         /\ OnePerPin(s) /\ (\A i \in DOMAIN s : s[i].gpio # p) => OnePerPin(t)
         /\ \A S : Apart(s, S) /\ (f \in FdsOf(s) => f \in S) => Apart(t, S)
<1>1. DOMAIN s = 1 .. Len(s) /\ Len(s) \in Nat
  BY ListFields, Zenon
<1>2. /\ DOMAIN t = 1 .. Len(s) + 1 /\ t[1].gpio = p /\ t[1].fd = f
      /\ \A i \in DOMAIN s : t[i + 1] = s[i]
  BY SMT DEF Longer, Entry
<1>3. 1 \in DOMAIN t /\ \A i \in DOMAIN s : i + 1 \in DOMAIN t
  BY <1>1, <1>2, SMT
<1>4. \A j \in DOMAIN t : j = 1 \/ \E i \in DOMAIN s : j = i + 1
  <2>1. SUFFICES ASSUME NEW j \in DOMAIN t, j # 1 PROVE \E i \in DOMAIN s : j = i + 1
    BY Zenon
  <2>2. j - 1 \in DOMAIN s /\ j = (j - 1) + 1
    BY <2>1, <1>1, <1>2, SMT
  <2>3. QED
    BY <2>2, Zenon
<1> DEFINE up(i) == i + 1
<1>5. /\ \A i \in DOMAIN s : up(i) \in DOMAIN t /\ t[up(i)] = s[i]
      /\ \A j \in DOMAIN t : j = 1 \/ \E i \in DOMAIN s : j = up(i)
  BY <1>2, <1>3, <1>4, Zenon
<1> HIDE DEF up
<1>6. ASSUME NEW q, NEW g PROVE MapsIn(t, q, g) <=> MapsIn(s, q, g) \/ (q = p /\ g = f)
  <2>1. ASSUME MapsIn(t, q, g) PROVE MapsIn(s, q, g) \/ (q = p /\ g = f)
    <3>1. PICK j \in DOMAIN t : t[j].gpio = q /\ t[j].fd = g
      BY <2>1, Zenon DEF MapsIn
    <3>2. CASE j = 1
      BY <3>1, <3>2, <1>2, Zenon
    <3>3. CASE \E i \in DOMAIN s : j = up(i)
      <4>1. PICK i \in DOMAIN s : j = up(i)
        BY <3>3, Zenon
      <4>2. s[i].gpio = q /\ s[i].fd = g
        BY <3>1, <4>1, <1>5, Zenon
      <4>3. QED
        BY <4>2, Zenon DEF MapsIn
    <3>4. QED
      BY <3>2, <3>3, <1>5, Zenon
  <2>2. ASSUME MapsIn(s, q, g) PROVE MapsIn(t, q, g)
    <3>1. PICK i \in DOMAIN s : s[i].gpio = q /\ s[i].fd = g
      BY <2>2, Zenon DEF MapsIn
    <3>2. up(i) \in DOMAIN t /\ t[up(i)].gpio = q /\ t[up(i)].fd = g
      BY <3>1, <1>5, Zenon
    <3>3. QED
      BY <3>2, Zenon DEF MapsIn
  <2>3. ASSUME q = p, g = f PROVE MapsIn(t, q, g)
    BY <2>3, <1>2, <1>3, Zenon DEF MapsIn
  <2>4. QED
    BY <2>1, <2>2, <2>3, Zenon
<1>7. \A g : g \in FdsOf(t) <=> g \in FdsOf(s) \cup {f}
  <2>1. ASSUME NEW g, g \in FdsOf(t) PROVE g \in FdsOf(s) \cup {f}
    <3>1. PICK j \in DOMAIN t : t[j].fd = g
      BY <2>1, Zenon DEF FdsOf
    <3>2. CASE j = 1
      BY <3>1, <3>2, <1>2, Zenon
    <3>3. CASE \E i \in DOMAIN s : j = up(i)
      <4>1. PICK i \in DOMAIN s : j = up(i)
        BY <3>3, Zenon
      <4>2. s[i].fd = g
        BY <3>1, <4>1, <1>5, Zenon
      <4>3. QED
        BY <4>2, Zenon DEF FdsOf
    <3>4. QED
      BY <3>2, <3>3, <1>5, Zenon
  <2>2. ASSUME NEW g, g \in FdsOf(s) PROVE g \in FdsOf(t)
    <3>1. PICK i \in DOMAIN s : s[i].fd = g
      BY <2>2, Zenon DEF FdsOf
    <3>2. up(i) \in DOMAIN t /\ t[up(i)].fd = g
      BY <3>1, <1>5, Zenon
    <3>3. QED
      BY <3>2, Zenon DEF FdsOf
  <2>3. f \in FdsOf(t)
    BY <1>2, <1>3, Zenon DEF FdsOf
  <2>4. QED
    BY <2>1, <2>2, <2>3, Zenon
<1>8. ASSUME OnePerPin(s), \A i \in DOMAIN s : s[i].gpio # p,
             NEW j \in DOMAIN t, NEW l \in DOMAIN t, j # l
      PROVE  t[j].gpio # t[l].gpio
  <2>1. /\ j = 1 \/ \E i \in DOMAIN s : j = up(i)
        /\ l = 1 \/ \E i \in DOMAIN s : l = up(i)
    BY <1>5, Zenon
  <2>2. ASSUME NEW i \in DOMAIN s, j = up(i), NEW m \in DOMAIN s, l = up(m)
        PROVE  t[j].gpio # t[l].gpio
    <3>1. i # m /\ t[j] = s[i] /\ t[l] = s[m]
      BY <2>2, <1>8, <1>5, Zenon
    <3>2. QED
      BY <3>1, <1>8, Zenon DEF OnePerPin
  <2>3. \A i \in DOMAIN s : t[up(i)].gpio # p
    BY <1>5, <1>8, Zenon
  <2>4. QED
    BY <2>1, <2>2, <2>3, <1>8, <1>2, Zenon
<1>9. ASSUME NEW S, Apart(s, S), f \in FdsOf(s) => f \in S,
             NEW j \in DOMAIN t, NEW l \in DOMAIN t, j # l
      PROVE  t[j].fd # t[l].fd \/ t[j].fd \in S
  <2>1. /\ j = 1 \/ \E i \in DOMAIN s : j = up(i)
        /\ l = 1 \/ \E i \in DOMAIN s : l = up(i)
    BY <1>5, Zenon
  <2>2. ASSUME NEW i \in DOMAIN s, j = up(i), NEW m \in DOMAIN s, l = up(m)
        PROVE  t[j].fd # t[l].fd \/ t[j].fd \in S
    <3>1. i # m /\ t[j] = s[i] /\ t[l] = s[m]
      BY <2>2, <1>9, <1>5, Zenon
    <3>2. QED
      BY <3>1, <1>9, Zenon DEF Apart
  <2>3. \A i \in DOMAIN s : t[up(i)].fd = f => f \in S
    BY <1>5, <1>9, Zenon DEF FdsOf
  <2>4. QED
    BY <2>1, <2>2, <2>3, <1>9, <1>2, Zenon
<1>10. FdsOf(t) = FdsOf(s) \cup {f}
  BY <1>7, Zenon
<1>11. OnePerPin(s) /\ (\A i \in DOMAIN s : s[i].gpio # p) => OnePerPin(t)
  BY <1>8, Zenon DEF OnePerPin
<1>12. \A S : Apart(s, S) /\ (f \in FdsOf(s) => f \in S) => Apart(t, S)
  BY <1>9, Zenon DEF Apart
<1>13. QED
  BY <1>6, <1>10, <1>11, <1>12, Zenon

LEMMA ShorterLookups ==
  ASSUME NEW s \in Seq(EntryType), NEW k \in DOMAIN s, NEW t, Shorter(s, t, k)
  PROVE  /\ FdsOf(t) \subseteq FdsOf(s) /\ FdsOf(s) \subseteq FdsOf(t) \cup {s[k].fd}
         /\ (OnePerPin(s) => OnePerPin(t)) /\ \A S : Apart(s, S) => Apart(t, S)
         /\ \A S : Apart(s, S) /\ s[k].fd \notin S => s[k].fd \notin FdsOf(t)
<1>1. DOMAIN s = 1 .. Len(s) /\ Len(s) \in Nat
  BY ListFields, Zenon
<1> DEFINE old(i) == IF i < k THEN i ELSE i + 1
<1>2. /\ \A i \in DOMAIN t : t[i] = s[old(i)] /\ old(i) \in DOMAIN s /\ old(i) # k
      /\ \A i, j \in DOMAIN t : i # j => old(i) # old(j)
  BY <1>1, SMT DEF Shorter
<1>3. \A j \in DOMAIN s : j = k \/ \E i \in DOMAIN t : j = old(i)
  <2>1. SUFFICES ASSUME NEW j \in DOMAIN s, j # k PROVE \E i \in DOMAIN t : j = old(i)
    BY Zenon
  <2>2. IF j < k THEN j \in DOMAIN t /\ j = old(j) ELSE j - 1 \in DOMAIN t /\ j = old(j - 1)
    BY <2>1, <1>1, SMT DEF Shorter
  <2> HIDE DEF old
  <2>3. QED
    BY <2>2, Zenon
<1> HIDE DEF old
<1>4. FdsOf(t) \subseteq FdsOf(s) /\ FdsOf(s) \subseteq FdsOf(t) \cup {s[k].fd}
  <2>1. FdsOf(t) \subseteq FdsOf(s)
    BY <1>2, Zenon DEF FdsOf
  <2>2. ASSUME NEW j \in DOMAIN s PROVE s[j].fd \in FdsOf(t) \cup {s[k].fd}
    <3>1. CASE j = k
      BY <3>1, Zenon
    <3>2. CASE \E i \in DOMAIN t : j = old(i)
      <4>1. PICK i \in DOMAIN t : j = old(i)
        BY <3>2, Zenon
      <4>2. t[i].fd = s[j].fd
        BY <4>1, <1>2, Zenon
      <4>3. QED
        BY <4>2, Zenon DEF FdsOf
    <3>3. QED
      BY <3>1, <3>2, <1>3, Zenon
  <2>3. QED
    BY <2>1, <2>2, Zenon DEF FdsOf
<1> HIDE DEF old
<1>5. OnePerPin(s) => OnePerPin(t)
  <2>1. SUFFICES ASSUME OnePerPin(s), NEW i \in DOMAIN t, NEW j \in DOMAIN t, i # j
                 PROVE  t[i].gpio # t[j].gpio
    BY Zenon DEF OnePerPin
  <2>2. s[old(i)].gpio # s[old(j)].gpio
    BY <2>1, <1>2, Zenon DEF OnePerPin
  <2>3. QED
    BY <2>2, <1>2, Zenon
<1>6. \A S : Apart(s, S) => Apart(t, S)
  BY <1>2, Zenon DEF Apart
<1>7. \A S : Apart(s, S) /\ s[k].fd \notin S => s[k].fd \notin FdsOf(t)
  BY <1>2, Zenon DEF FdsOf, Apart
<1>8. QED
  BY <1>4, <1>5, <1>6, <1>7, Zenon

-----------------------------------------------------------------------------
(* The types.                                                              *)
LEMMA LookupTypes ==
  ASSUME TypeOK
  PROVE  /\ \A p \in Pins : fd_lookup(p) \in Fds \cup {0}
         /\ \A f : gpio_lookup(f) \in Pins \cup {0}
<1>1. fdList \in Seq(EntryType)
  BY Typed, Zenon DEF LibTypes
<1>2. \A p \in Pins : fd_lookup(p) \in Fds \cup {0}
  <2>1. SUFFICES ASSUME NEW p \in Pins PROVE fd_lookup(p) \in Fds \cup {0}
    OBVIOUS
  <2>2. FdIn(fdList, p) \in Fds \cup {0}
    BY <1>1, FdFound, Zenon
  <2>3. fd_lookup(p) = FdIn(fdList, p)
    BY Zenon DEF fd_lookup, EntriesOf, FdIn
  <2>4. QED
    BY <2>2, <2>3, Zenon
<1>3. \A f : gpio_lookup(f) \in Pins \cup {0}
  <2>1. SUFFICES ASSUME NEW f PROVE gpio_lookup(f) \in Pins \cup {0}
    OBVIOUS
  <2>2. PinIn(fdList, f) \in Pins \cup {0}
    BY <1>1, PinFound, Zenon
  <2>3. gpio_lookup(f) = PinIn(fdList, f)
    BY Zenon DEF gpio_lookup, PinIn
  <2>4. QED
    BY <2>2, <2>3, Zenon
<1>4. QED
  BY <1>2, <1>3, Zenon

LEMMA ExportTypes ==
  ASSUME TypeOK, NEW p \in Pins, gpio_export(p)
  PROVE  exported' \in [Pins -> {"no", "us", "other"}] /\ sysfs' \subseteq Pins
<1>1. exported \in [Pins -> {"no", "us", "other"}] /\ sysfs \subseteq Pins
  BY Typed, Zenon DEF LibTypes, KernelTypes
<1>2. QED
  BY <1>1, SMT DEF gpio_export

LEMMA ListTypes ==
  ASSUME TypeOK
  PROVE  /\ \A p \in Pins, e \in BOOLEAN : Mark(p, e) \in Seq(EntryType)
         /\ \A p \in Pins \cup {0} : set_initial_false(p) \in Seq(EntryType)
         /\ \A p \in Pins, f \in Fds : <<Entry(p, f)>> \o fdList \in Seq(EntryType)
<1>1. fdList \in Seq(EntryType)
  BY Typed, Zenon DEF LibTypes
<1>2. QED
  BY <1>1, MarkSame, InitialSame, EntryLonger, Zenon DEF SameList, Longer

LEMMA BeginTypes ==
  ASSUME TypeOK, NEW name, NEW p \in Pins \cup {0}, Begin(name, p)
  PROVE  mpin' \in Pins \cup {0} /\ calls' \in 0 .. MaxCalls
<1>1. calls \in 0 .. MaxCalls
  BY Typed, Zenon DEF CallTypes
<1>2. QED
  BY <1>1, GpioAssumption, SMT DEF Begin

LEMMA SetupType == ASSUME TypeOK, NEW p \in Pins, Setup(p) PROVE TypeOK'
<1>1. /\ exported \in [Pins -> {"no", "us", "other"}] /\ direction \in [Pins -> {"unset", "in"}]
      /\ fdList \in Seq(EntryType) /\ epfd \in Fds \cup {0} /\ KernelTypes /\ CallTypes
  BY Typed, Zenon DEF LibTypes
<1>2. exported' \in [Pins -> {"no", "us", "other"}] /\ sysfs' \subseteq Pins
  BY ExportTypes, Zenon DEF Setup
<1>3. direction' \in [Pins -> {"unset", "in"}]
  BY <1>1, SMT DEF Setup
<1>4. LibTypes'
  BY <1>1, <1>2, <1>3, Zenon DEF Setup, LibTypes
<1>5. KernelTypes'
  BY <1>1, <1>2, Zenon DEF Setup, KernelTypes
<1>6. QED
  BY <1>4, <1>5, TypesKept, TypedNext, Zenon DEF Setup, mainVars

LEMMA InputType == ASSUME TypeOK, NEW p \in Pins, Input(p) PROVE TypeOK'
<1>1. LibTypes /\ KernelTypes /\ CallTypes
  BY Typed, Zenon
<1>2. mpin' \in Pins \cup {0} /\ calls' \in 0 .. MaxCalls /\ result' \in Results
  BY BeginTypes, Zenon DEF Input, Results
<1>3. fdList' \in Seq(EntryType) /\ used' \subseteq Fds
  BY <1>1, ListTypes, LowestFreeIsFree, Zenon DEF Input, LibTypes, KernelTypes
<1>4. LibTypes'
  BY <1>1, <1>3, Zenon DEF Input, LibTypes
<1>5. KernelTypes'
  BY <1>1, <1>3, Zenon DEF Input, KernelTypes
<1>6. CallTypes'
  BY <1>1, <1>2, Zenon DEF Input, CallTypes
<1>7. QED
  BY <1>4, <1>5, <1>6, TypesKept, TypedNext, Zenon DEF Input

LEMMA EventDetectedType == ASSUME TypeOK, NEW p \in Pins, EventDetected(p) PROVE TypeOK'
<1>1. FlagTypes /\ CallTypes
  BY Typed, Zenon
<1>2. mpin' \in Pins \cup {0} /\ calls' \in 0 .. MaxCalls /\ result' \in Results
  BY BeginTypes, Zenon DEF EventDetected, Results
<1>3. occurred' \in [Pins \cup {0} -> BOOLEAN]
  BY <1>1, Zenon DEF EventDetected, FlagTypes
<1>4. FlagTypes' /\ CallTypes'
  BY <1>1, <1>2, <1>3, Zenon DEF EventDetected, FlagTypes, CallTypes, kernelVars
<1>5. QED
  BY <1>4, TypesKept, TypedNext, Zenon DEF EventDetected

LEMMA AddDetectType == ASSUME TypeOK, NEW p \in Pins, AddDetect(p) PROVE TypeOK'
<1>1. LibTypes /\ FlagTypes /\ CallTypes
  BY Typed, Zenon
<1>2. mpin' \in Pins \cup {0} /\ calls' \in 0 .. MaxCalls /\ mcb' \in BOOLEAN
  BY BeginTypes, Zenon DEF AddDetect
<1>3. fdList' \in Seq(EntryType)
  BY <1>1, ListTypes, Zenon DEF AddDetect, LibTypes
<1>4. mpc' \in MainPCs /\ result' \in Results /\ mfd' \in Fds \cup {0}
  BY <1>1, LookupTypes, Zenon DEF AddDetect, CallTypes, Return, Results, MainPCs
<1>5. LibTypes' /\ CallTypes'
  BY <1>1, <1>2, <1>3, <1>4, Zenon DEF AddDetect, LibTypes, CallTypes
<1>6. FlagTypes'
  BY <1>1, <1>2, Zenon DEF AddDetect, FlagTypes, kernelVars
<1>7. QED
  BY <1>5, <1>6, TypesKept, TypedNext, Zenon DEF AddDetect

LEMMA AddOpenType == ASSUME GpioInv, AddOpen PROVE TypeOK'
<1>1. TypeOK /\ LibTypes /\ KernelTypes /\ CallTypes /\ mpin \in Pins
  BY Typed, Zenon DEF GpioInv, CallInv, AddOpen, PinSteps
<1>2. exported' \in [Pins -> {"no", "us", "other"}] /\ sysfs' \subseteq Pins
  BY <1>1, ExportTypes, Zenon DEF AddOpen
<1>3. /\ fdList' \in Seq(EntryType) /\ used' \subseteq Fds
      /\ mfd' \in Fds \cup {0} /\ mpc' \in MainPCs /\ result' \in Results
  BY <1>1, ListTypes, LowestFreeIsFree, Zenon DEF AddOpen, OpenFailed, LibTypes, KernelTypes,
     CallTypes, Return, Results, MainPCs
<1>4. LibTypes' /\ KernelTypes'
  BY <1>1, <1>2, <1>3, Zenon DEF AddOpen, LibTypes, KernelTypes
<1>5. CallTypes'
  BY <1>1, <1>3, Zenon DEF AddOpen, CallTypes
<1>6. QED
  BY <1>1, <1>4, <1>5, TypesKept, TypedNext, Zenon DEF AddOpen

LEMMA AddEpollType == ASSUME GpioInv, AddEpoll PROVE TypeOK'
<1>1. TypeOK /\ LibTypes /\ FlagTypes /\ KernelTypes /\ CallTypes /\ HistoryTypes /\ mfd \in Fds
  BY Typed, Zenon DEF GpioInv, CallInv, AddEpoll, CallTypes
<1>2. /\ epfd' \in Fds \cup {0} /\ used' \subseteq Fds /\ epLive' \in BOOLEAN
      /\ mpc' \in MainPCs /\ result' \in Results
  BY <1>1, LowestFreeIsFree, Zenon DEF AddEpoll, NewInstance, LibTypes, KernelTypes, FlagTypes,
     CallTypes, Return, Results, MainPCs
<1>3. epSet' \subseteq Fds /\ ready' \subseteq epSet' /\ real' \subseteq Pins
  BY <1>1, Zenon DEF AddEpoll, Register, KernelTypes, HistoryTypes
<1>4. LibTypes' /\ KernelTypes'
  BY <1>1, <1>2, <1>3, Zenon DEF AddEpoll, LibTypes, KernelTypes
<1>5. CallTypes' /\ FlagTypes' /\ HistoryTypes'
  BY <1>1, <1>2, <1>3, Zenon DEF AddEpoll, CallTypes, FlagTypes, HistoryTypes
<1>6. QED
  BY <1>1, <1>4, <1>5, TypesKept, TypedNext, Zenon DEF AddEpoll

LEMMA AddThreadType == ASSUME TypeOK, AddThread PROVE TypeOK'
<1>1. CallTypes /\ ThreadTypes
  BY Typed, Zenon
<1>2. mpc' \in MainPCs /\ result' \in Results
  BY <1>1, Zenon DEF AddThread, Spawn, NextStep, Return, CallTypes, MainPCs, Results
<1>3. [Idle EXCEPT !.pc = "start"] \in ThreadType
  BY SMT DEF Idle, ThreadType, ThreadPCs
<1>4. thread' \in [Threads -> ThreadType]
  BY <1>1, <1>3, Zenon DEF AddThread, Spawn, ThreadTypes
<1>5. CallTypes' /\ ThreadTypes'
  BY <1>1, <1>2, <1>4, Zenon DEF AddThread, CallTypes, ThreadTypes
<1>6. QED
  BY <1>5, TypesKept, TypedNext, Zenon DEF AddThread, kernelVars

LEMMA AddCallbackType == ASSUME TypeOK, NEW p \in Pins, AddCallback(p) PROVE TypeOK'
<1>1. CallTypes
  BY Typed, Zenon
<1>2. mpin' \in Pins \cup {0} /\ calls' \in 0 .. MaxCalls
  BY BeginTypes, Zenon DEF AddCallback
<1>3. mpc' \in MainPCs /\ result' \in Results
  BY <1>1, Zenon DEF AddCallback, Return, CallTypes, MainPCs, Results
<1>4. CallTypes'
  BY <1>1, <1>2, <1>3, Zenon DEF AddCallback, CallTypes
<1>5. QED
  BY <1>4, TypesKept, TypedNext, Zenon DEF AddCallback, kernelVars

LEMMA NodeTyped ==
  ASSUME GpioInv, mpc \in {"cbpy", "cbc"}
  PROVE  Node \in NodeType /\ nodes + 1 \in Nat
<1>1. nodes \in Nat /\ calls \in 0 .. MaxCalls /\ mpin \in Pins /\ nodes + Pending <= 2 * calls
  BY Typed, Zenon DEF GpioInv, NodeTypes, CallTypes, CallInv, PinSteps, ListsInv
<1>2. Pending \in {1, 2}
  BY SMT DEF Pending
<1>3. nodes + 1 \in NodeIds
  BY <1>1, <1>2, GpioAssumption, SMT DEF NodeIds
<1>4. QED
  BY <1>1, <1>3, SMT DEF Node, NodeType

LEMMA AddNodeType == ASSUME GpioInv, AddPyCallback \/ AddEdgeCallback PROVE TypeOK'
<1>1. TypeOK /\ NodeTypes /\ CallTypes
  BY Typed, Zenon DEF GpioInv
<1>2. Node \in NodeType /\ nodes + 1 \in Nat
  BY NodeTyped, Zenon DEF AddPyCallback, AddEdgeCallback
<1>3. NodeTypes'
  BY <1>1, <1>2, Zenon DEF AddPyCallback, AddEdgeCallback, NodeTypes
<1>4. CallTypes'
  BY <1>1, Zenon DEF AddPyCallback, AddEdgeCallback, CallTypes, Return, MainPCs, Results
<1>5. QED
  BY <1>1, <1>3, <1>4, TypesKept, TypedNext, Zenon DEF AddPyCallback, AddEdgeCallback, kernelVars

LEMMA RemoveDetectType == ASSUME TypeOK, NEW p \in Pins, RemoveDetect(p) PROVE TypeOK'
<1>1. NodeTypes /\ CallTypes
  BY Typed, Zenon
<1>2. mpin' \in Pins \cup {0} /\ calls' \in 0 .. MaxCalls
  BY BeginTypes, Zenon DEF RemoveDetect
<1>3. NodeTypes'
  BY <1>1, Zenon DEF RemoveDetect, NodeTypes
<1>4. CallTypes'
  BY <1>1, <1>2, Zenon DEF RemoveDetect, CallTypes, MainPCs
<1>5. QED
  BY <1>3, <1>4, TypesKept, TypedNext, Zenon DEF RemoveDetect, kernelVars

LEMMA RemoveCallbacksType == ASSUME GpioInv, RemoveCallbacks PROVE TypeOK'
<1>1. TypeOK /\ NodeTypes /\ CallTypes /\ mpin \in Pins
  BY Typed, Zenon DEF GpioInv, CallInv, PinSteps, RemoveCallbacks
<1>2. mfd' \in Fds \cup {0}
  BY <1>1, LookupTypes, Zenon DEF RemoveCallbacks
<1>3. NodeTypes'
  BY <1>1, Zenon DEF RemoveCallbacks, remove_callbacks, NodeTypes
<1>4. CallTypes'
  BY <1>1, <1>2, Zenon DEF RemoveCallbacks, CallTypes, MainPCs
<1>5. QED
  BY <1>1, <1>3, <1>4, TypesKept, TypedNext, Zenon DEF RemoveCallbacks, kernelVars

LEMMA RemoveEpollType == ASSUME GpioInv, RemoveEpoll PROVE TypeOK'
<1>1. TypeOK /\ LibTypes /\ KernelTypes /\ CallTypes /\ mpin \in Pins
  BY Typed, Zenon DEF GpioInv, CallInv, PinSteps, RemoveEpoll
<1>2. fdList' \in Seq(EntryType)
  BY <1>1, ListTypes, Zenon DEF RemoveEpoll
<1>3. KernelTypes'
  BY <1>1, Zenon DEF RemoveEpoll, Unregister, KernelTypes
<1>4. LibTypes' /\ CallTypes'
  BY <1>1, <1>2, Zenon DEF RemoveEpoll, LibTypes, CallTypes, MainPCs
<1>5. QED
  BY <1>1, <1>3, <1>4, TypesKept, TypedNext, Zenon DEF RemoveEpoll

LEMMA RemoveFlagType == ASSUME GpioInv, RemoveFlag PROVE TypeOK'
<1>1. TypeOK /\ FlagTypes /\ CallTypes /\ mpin \in Pins
  BY Typed, Zenon DEF GpioInv, CallInv, PinSteps, RemoveFlag
<1>2. occurred' \in [Pins \cup {0} -> BOOLEAN]
  BY <1>1, Zenon DEF RemoveFlag, FlagTypes
<1>3. FlagTypes' /\ CallTypes'
  BY <1>1, <1>2, Zenon DEF RemoveFlag, FlagTypes, CallTypes, Return, MainPCs, Results, kernelVars
<1>4. QED
  BY <1>1, <1>3, TypesKept, TypedNext, Zenon DEF RemoveFlag

LEMMA CleanupType == ASSUME TypeOK, Cleanup PROVE TypeOK'
<1>1. FlagTypes /\ KernelTypes /\ CallTypes
  BY Typed, Zenon
<1>2. mpin' \in Pins \cup {0} /\ calls' \in 0 .. MaxCalls
  BY BeginTypes, Zenon DEF Cleanup
<1>3. epLive' \in BOOLEAN
  BY <1>1, Zenon DEF Cleanup, FlagTypes
<1>4. KernelTypes'
  BY <1>1, Zenon DEF Cleanup, Close, KernelTypes
<1>5. FlagTypes' /\ CallTypes'
  BY <1>1, <1>2, <1>3, Zenon DEF Cleanup, FlagTypes, CallTypes, MainPCs
<1>6. QED
  BY <1>4, <1>5, TypesKept, TypedNext, Zenon DEF Cleanup

LEMMA CleanupStopType == ASSUME TypeOK, CleanupStop PROVE TypeOK'
<1>1. FlagTypes /\ CallTypes
  BY Typed, Zenon
<1>2. FlagTypes' /\ CallTypes'
  BY <1>1, Zenon DEF CleanupStop, FlagTypes, CallTypes, MainPCs, kernelVars
<1>3. QED
  BY <1>2, TypesKept, TypedNext, Zenon DEF CleanupStop

(* the first of the pins exported by us, and the first entry of a pin       *)
LEMMA FirstEntry ==
  ASSUME TypeOK, NEW p \in Pins, EntriesOf(p) # {}
  PROVE  FirstOf(EntriesOf(p)) \in EntriesOf(p) /\ FirstOf(EntriesOf(p)) \in DOMAIN fdList
<1>1. fdList \in Seq(EntryType)
  BY Typed, Zenon DEF LibTypes
<1>2. EntriesOf(p) \subseteq Nat /\ EntriesOf(p) \subseteq DOMAIN fdList
  BY <1>1, ListFields, SMT DEF EntriesOf
<1>3. QED
  BY <1>2, FirstIsIn, Zenon

LEMMA FirstOurs == Ours # {} => FirstOf(Ours) \in Pins
<1>1. Ours \subseteq Nat /\ Ours \subseteq Pins
  BY PinsPositive, Zenon DEF Ours
<1>2. QED
  BY <1>1, FirstIsIn, Zenon

LEMMA CleanupExportsType == ASSUME TypeOK, CleanupExports PROVE TypeOK'
<1>1. LibTypes /\ KernelTypes /\ CallTypes
  BY Typed, Zenon
<1>2. mpc' \in MainPCs /\ result' \in Results
  BY <1>1, Zenon DEF CleanupExports, CallTypes, Return, MainPCs, Results
<1>3. CallTypes'
  BY <1>1, <1>2, Zenon DEF CleanupExports, CallTypes
<1>4. LibTypes' /\ KernelTypes'
  <2>1. CASE Ours = {}
    BY <1>1, <2>1, Zenon DEF CleanupExports, LibTypes, KernelTypes
  <2>2. CASE Ours # {}
    <3> DEFINE p == FirstOf(Ours)
    <3>1. p \in Pins /\ gpio_unexport(p) /\ UNCHANGED <<direction, epfd>>
      BY <2>2, FirstOurs, Zenon DEF CleanupExports
    <3> HIDE DEF p
    <3>2. CASE EntriesOf(p) # {}
      <4>1. FirstOf(EntriesOf(p)) \in DOMAIN fdList
        BY <3>1, <3>2, FirstEntry, Zenon
      <4>2. fdList' \in Seq(EntryType)
        BY <4>1, <3>1, <3>2, <1>1, RemovedShorter, Zenon
           DEF gpio_unexport, close_value_fd, Shorter, LibTypes
      <4>3. QED
        BY <3>1, <3>2, <4>2, <1>1, Zenon DEF gpio_unexport, close_value_fd, Close, LibTypes, KernelTypes
    <3>3. CASE EntriesOf(p) = {}
      <4>1. exported' \in [Pins -> {"no", "us", "other"}]
        BY <3>1, <3>3, <1>1, SMT DEF gpio_unexport, LibTypes
      <4>2. QED
        BY <3>1, <3>3, <4>1, <1>1, Zenon DEF gpio_unexport, LibTypes, KernelTypes
    <3>4. QED
      BY <3>2, <3>3
  <2>3. QED
    BY <2>1, <2>2
<1>5. QED
  BY <1>3, <1>4, TypesKept, TypedNext, Zenon DEF CleanupExports

LEMMA WaitForEdgeType == ASSUME TypeOK, NEW p \in Pins, WaitForEdge(p) PROVE TypeOK'
<1>1. LibTypes /\ KernelTypes /\ CallTypes
  BY Typed, Zenon
<1>2. mpin' \in Pins \cup {0} /\ calls' \in 0 .. MaxCalls
  BY BeginTypes, Zenon DEF WaitForEdge
<1>3. fdList' \in Seq(EntryType) /\ used' \subseteq Fds /\ wfd' \in Fds \cup {0}
  BY <1>1, ListTypes, LowestFreeIsFree, Zenon DEF WaitForEdge, LibTypes, KernelTypes, CallTypes
<1>4. mpc' \in MainPCs /\ result' \in Results /\ mfd' \in Fds \cup {0}
  BY <1>1, LookupTypes, Zenon DEF WaitForEdge, CallTypes, Return, Results, MainPCs
<1>5. LibTypes' /\ KernelTypes'
  BY <1>1, <1>3, Zenon DEF WaitForEdge, LibTypes, KernelTypes
<1>6. CallTypes'
  BY <1>1, <1>2, <1>3, <1>4, Zenon DEF WaitForEdge, CallTypes
<1>7. QED
  BY <1>5, <1>6, TypesKept, TypedNext, Zenon DEF WaitForEdge

LEMMA WaitOpenType == ASSUME GpioInv, WaitOpen PROVE TypeOK'
<1>1. TypeOK /\ LibTypes /\ KernelTypes /\ CallTypes /\ mpin \in Pins
  BY Typed, Zenon DEF GpioInv, CallInv, WaitOpen, PinSteps
<1>2. exported' \in [Pins -> {"no", "us", "other"}] /\ sysfs' \subseteq Pins
  BY <1>1, ExportTypes, Zenon DEF WaitOpen
<1>3. /\ fdList' \in Seq(EntryType) /\ used' \subseteq Fds /\ wfd' \in Fds \cup {0}
      /\ mfd' \in Fds \cup {0} /\ mpc' \in MainPCs /\ result' \in Results
  BY <1>1, ListTypes, LowestFreeIsFree, Zenon DEF WaitOpen, LibTypes, KernelTypes, CallTypes,
     Return, Results, MainPCs
<1>4. LibTypes' /\ KernelTypes'
  BY <1>1, <1>2, <1>3, Zenon DEF WaitOpen, LibTypes, KernelTypes
<1>5. CallTypes'
  BY <1>1, <1>3, Zenon DEF WaitOpen, CallTypes
<1>6. QED
  BY <1>1, <1>4, <1>5, TypesKept, TypedNext, Zenon DEF WaitOpen

LEMMA WaitFirstType == ASSUME GpioInv, WaitFirst PROVE TypeOK'
<1>1. TypeOK /\ LibTypes /\ FlagTypes /\ KernelTypes /\ CallTypes /\ mpin \in Pins
  BY Typed, Zenon DEF GpioInv, CallInv, PinSteps, WaitFirst
<1>2. fdList' \in Seq(EntryType)
  BY <1>1, ListTypes, Zenon DEF WaitFirst, WaitFailed, LibTypes
<1>3. /\ wfd' \in Fds \cup {0} /\ mpc' \in MainPCs /\ result' \in Results
      /\ used' = used /\ wready' \in BOOLEAN
  BY <1>1, Zenon DEF WaitFirst, WaitFailed, Return, CallTypes, Results, MainPCs
<1>4. LibTypes' /\ KernelTypes' /\ FlagTypes'
  BY <1>1, <1>2, <1>3, Zenon DEF WaitFirst, LibTypes, KernelTypes, FlagTypes
<1>5. CallTypes'
  BY <1>1, <1>3, Zenon DEF WaitFirst, CallTypes
<1>6. QED
  BY <1>1, <1>4, <1>5, TypesKept, TypedNext, Zenon DEF WaitFirst

LEMMA WaitEdgeType == ASSUME GpioInv, WaitEdge PROVE TypeOK'
<1>1. TypeOK /\ LibTypes /\ KernelTypes /\ CallTypes /\ mpin \in Pins
  BY Typed, Zenon DEF GpioInv, CallInv, PinSteps, WaitEdge
<1>2. fdList' \in Seq(EntryType)
  BY <1>1, ListTypes, Zenon DEF WaitEdge, WaitFailed
<1>3. LibTypes' /\ KernelTypes'
  BY <1>1, <1>2, Zenon DEF WaitEdge, WaitFailed, LibTypes, KernelTypes
<1>4. result' \in Results
  BY Zenon DEF WaitEdge, WaitFailed, Return, Results
<1>5. CallTypes'
  BY <1>1, <1>4, Zenon DEF WaitEdge, WaitFailed, CallTypes, Return, MainPCs
<1>6. QED
  BY <1>1, <1>3, <1>5, TypesKept, TypedNext, Zenon DEF WaitEdge

(* The poll threads.                                                        *)
Others(t) == \A u \in Threads : u # t => thread'[u] = thread[u]
LEMMA ThreadChanged ==
  ASSUME ThreadTypes, NEW t \in Threads, NEW e \in ThreadType, thread' = [thread EXCEPT ![t] = e]
  PROVE  ThreadTypes' /\ thread'[t] = e /\ Others(t)
  BY Zenon DEF ThreadTypes, Others

LEMMA ThreadFields ==
  ASSUME NEW r \in ThreadType
  PROVE  /\ \A pc \in ThreadPCs :
              /\ [r EXCEPT !.pc = pc] \in ThreadType /\ [r EXCEPT !.pc = pc].pc = pc
              /\ [r EXCEPT !.pc = pc].fd = r.fd /\ [r EXCEPT !.pc = pc].gpio = r.gpio
         /\ \A f \in Fds : /\ [r EXCEPT !.fd = f] \in ThreadType /\ [r EXCEPT !.fd = f].fd = f
                           /\ [r EXCEPT !.fd = f].pc = r.pc
         /\ \A p \in Pins \cup {0} :
              /\ [r EXCEPT !.gpio = p] \in ThreadType /\ [r EXCEPT !.gpio = p].gpio = p
              /\ [r EXCEPT !.gpio = p].pc = r.pc
         /\ \A n \in Nat : /\ [r EXCEPT !.c = n] \in ThreadType /\ [r EXCEPT !.c = n].pc = r.pc
                           /\ [r EXCEPT !.py = n] \in ThreadType /\ [r EXCEPT !.py = n].pc = r.pc
<1>1. ASSUME NEW pc \in ThreadPCs
      PROVE  /\ [r EXCEPT !.pc = pc] \in ThreadType /\ [r EXCEPT !.pc = pc].pc = pc
             /\ [r EXCEPT !.pc = pc].fd = r.fd /\ [r EXCEPT !.pc = pc].gpio = r.gpio
  BY SMT DEF ThreadType
<1>2. ASSUME NEW f \in Fds
      PROVE  /\ [r EXCEPT !.fd = f] \in ThreadType /\ [r EXCEPT !.fd = f].fd = f
             /\ [r EXCEPT !.fd = f].pc = r.pc
  BY SMT DEF ThreadType
<1>3. ASSUME NEW p \in Pins \cup {0}
      PROVE  /\ [r EXCEPT !.gpio = p] \in ThreadType /\ [r EXCEPT !.gpio = p].gpio = p
             /\ [r EXCEPT !.gpio = p].pc = r.pc
  BY SMT DEF ThreadType
<1>4. ASSUME NEW n \in Nat
      PROVE  /\ [r EXCEPT !.c = n] \in ThreadType /\ [r EXCEPT !.c = n].pc = r.pc
             /\ [r EXCEPT !.py = n] \in ThreadType /\ [r EXCEPT !.py = n].pc = r.pc
  BY SMT DEF ThreadType
<1>5. QED
  BY <1>1, <1>2, <1>3, <1>4, Zenon

LEMMA ThreadGoes ==
  ASSUME ThreadTypes, NEW t \in Threads, NEW pc \in ThreadPCs, Goto(t, pc)
  PROVE  /\ ThreadTypes' /\ Others(t)
         /\ thread'[t].pc = pc /\ thread'[t].fd = thread[t].fd /\ thread'[t].gpio = thread[t].gpio
<1>1. thread[t] \in ThreadType
  BY Zenon DEF ThreadTypes
<1>2. PICK e \in ThreadType : e = [thread[t] EXCEPT !.pc = pc]
  BY <1>1, ThreadFields, Zenon
<1>3. thread' = [thread EXCEPT ![t] = e]
  BY <1>2, Zenon DEF Goto
<1>4. e.pc = pc /\ e.fd = thread[t].fd /\ e.gpio = thread[t].gpio
  BY <1>1, <1>2, ThreadFields, Zenon
<1>5. QED
  BY <1>3, <1>4, ThreadChanged, Zenon

LEMMA ThreadTakes ==
  ASSUME ThreadTypes, NEW t \in Threads, NEW f \in Fds,
         thread' = [thread EXCEPT ![t] = [@ EXCEPT !.pc = "read", !.fd = f]]
  PROVE  ThreadTypes' /\ Others(t) /\ thread'[t].pc = "read" /\ thread'[t].fd = f
<1>1. thread[t] \in ThreadType
  BY Zenon DEF ThreadTypes
<1>2. "read" \in ThreadPCs
  BY Zenon DEF ThreadPCs
<1>3. PICK r \in ThreadType : r = [thread[t] EXCEPT !.pc = "read"]
  <2>1. [thread[t] EXCEPT !.pc = "read"] \in ThreadType
    BY <1>1, <1>2, ThreadFields, Zenon
  <2>2. QED
    BY <2>1, Zenon
<1> r.pc = "read"
  BY <1>1, <1>2, <1>3, ThreadFields, Zenon
<1>4. PICK e \in ThreadType : e = [r EXCEPT !.fd = f]
  <2>1. [r EXCEPT !.fd = f] \in ThreadType
    BY ThreadFields, Zenon
  <2>2. QED
    BY <2>1, Zenon
<1> e.pc = "read" /\ e.fd = f
  BY <1>3, <1>4, ThreadFields, Zenon
<1>5. e = [thread[t] EXCEPT !.pc = "read", !.fd = f]
  BY <1>1, <1>3, <1>4, SMT DEF ThreadType
<1>6. thread' = [thread EXCEPT ![t] = e]
  BY <1>5, Zenon
<1>7. QED
  BY <1>4, <1>6, ThreadChanged, Zenon

LEMMA ThreadLooks ==
  ASSUME ThreadTypes, NEW t \in Threads, NEW p \in Pins \cup {0},
         thread' = [thread EXCEPT ![t] = [@ EXCEPT !.pc = "test", !.gpio = p]]
  PROVE  ThreadTypes' /\ Others(t) /\ thread'[t].pc = "test" /\ thread'[t].gpio = p
<1>1. thread[t] \in ThreadType
  BY Zenon DEF ThreadTypes
<1>2. "test" \in ThreadPCs
  BY Zenon DEF ThreadPCs
<1>3. PICK r \in ThreadType : r = [thread[t] EXCEPT !.pc = "test"]
  <2>1. [thread[t] EXCEPT !.pc = "test"] \in ThreadType
    BY <1>1, <1>2, ThreadFields, Zenon
  <2>2. QED
    BY <2>1, Zenon
<1> r.pc = "test"
  BY <1>1, <1>2, <1>3, ThreadFields, Zenon
<1>4. PICK e \in ThreadType : e = [r EXCEPT !.gpio = p]
  <2>1. [r EXCEPT !.gpio = p] \in ThreadType
    BY ThreadFields, Zenon
  <2>2. QED
    BY <2>1, Zenon
<1> e.pc = "test" /\ e.gpio = p
  BY <1>3, <1>4, ThreadFields, Zenon
<1>5. e = [thread[t] EXCEPT !.pc = "test", !.gpio = p]
  BY <1>1, <1>3, <1>4, SMT DEF ThreadType
<1>6. thread' = [thread EXCEPT ![t] = e]
  BY <1>5, Zenon
<1>7. QED
  BY <1>4, <1>6, ThreadChanged, Zenon

\* a walk over the callbacks, or a crash
Walking == {"c", "py", "cnext", "gil", "call", "check"}
LEMMA ThreadWalks ==
  ASSUME ThreadTypes, NEW t \in Threads, NEW pc \in Walking, NEW n \in Nat,
         \/ thread' = [thread EXCEPT ![t] = [@ EXCEPT !.pc = pc, !.c = n]]
         \/ thread' = [thread EXCEPT ![t] = [@ EXCEPT !.pc = pc, !.py = n]]
  PROVE  ThreadTypes' /\ Others(t) /\ thread'[t].pc = pc
<1>1. thread[t] \in ThreadType
  BY Zenon DEF ThreadTypes
<1>2. pc \in ThreadPCs
  BY SMT DEF ThreadPCs, Walking
<1>3. PICK r \in ThreadType : r = [thread[t] EXCEPT !.pc = pc]
  <2>1. [thread[t] EXCEPT !.pc = pc] \in ThreadType
    BY <1>1, <1>2, ThreadFields, Zenon
  <2>2. QED
    BY <2>1, Zenon
<1> r.pc = pc
  BY <1>1, <1>2, <1>3, ThreadFields, Zenon
<1>4. /\ [r EXCEPT !.c = n] \in ThreadType /\ [r EXCEPT !.c = n].pc = pc
      /\ [r EXCEPT !.py = n] \in ThreadType /\ [r EXCEPT !.py = n].pc = pc
  BY <1>3, ThreadFields, Zenon
<1>5. /\ [r EXCEPT !.c = n] = [thread[t] EXCEPT !.pc = pc, !.c = n]
      /\ [r EXCEPT !.py = n] = [thread[t] EXCEPT !.pc = pc, !.py = n]
  BY <1>1, <1>3, <1>4, SMT DEF ThreadType
<1>6. PICK e \in ThreadType : e.pc = pc /\ thread' = [thread EXCEPT ![t] = e]
  BY <1>4, <1>5, Zenon
<1>7. QED
  BY <1>6, ThreadChanged, Zenon

LEMMA NodeNumbers ==
  ASSUME TypeOK
  PROVE  /\ HeadOf(cCallbacks) \in Nat /\ HeadOf(pyCallbacks) \in Nat
         /\ \A n \in Nat : NextOf(cCallbacks, n) \in Nat /\ NextOf(pyCallbacks, n) \in Nat
         /\ \A m \in cCallbacks \cup pyCallbacks : m.id \in NodeIds /\ m.id \in Nat
<1>1. cCallbacks \subseteq NodeType /\ pyCallbacks \subseteq NodeType
  BY Typed, Zenon DEF NodeTypes
<1>2. \A m \in NodeType : m.id \in NodeIds /\ m.id \in Nat
  BY GpioAssumption, SMT DEF NodeType, NodeIds
<1>3. ASSUME NEW list, list \subseteq NodeType, NEW n
      PROVE  (IF Behind(list, n) = {} THEN 0 ELSE FirstOf(Behind(list, n))) \in Nat
  <2>1. Behind(list, n) \subseteq Nat
    BY <1>2, <1>3, Zenon DEF Behind
  <2>2. QED
    BY <2>1, FirstIsIn, SMT
<1>4. HeadOf(cCallbacks) \in Nat /\ HeadOf(pyCallbacks) \in Nat
  BY <1>1, <1>3, Zenon DEF HeadOf
<1>5. \A n \in Nat : NextOf(cCallbacks, n) \in Nat /\ NextOf(pyCallbacks, n) \in Nat
  BY <1>1, <1>3, Zenon DEF NextOf
<1>6. QED
  BY <1>1, <1>2, <1>4, <1>5, Zenon

(* What one of the walk's actions can do.                                   *)
Moves(t) ==
  /\ thread[t].pc \in Walking \cup {"run"} /\ mpc # "crashed"
  /\ WalkUnchanged
  /\ \/ mpc' = "crashed" /\ UNCHANGED <<thread, invoked>>
     \/ /\ UNCHANGED mpc /\ ThreadTypes' /\ Others(t) /\ thread'[t].pc \in Walking
        /\ invoked' \in [NodeIds -> Nat]

LEMMA AstrayMoves ==
  ASSUME TypeOK, NEW t \in Threads, NEW pc \in Walking, NEW walk,
         NEW list, list \in {cCallbacks, pyCallbacks}, Astray(t, pc, walk, list)
  PROVE  \/ mpc' = "crashed" /\ UNCHANGED <<thread, invoked>>
         \/ /\ UNCHANGED mpc /\ ThreadTypes' /\ Others(t) /\ thread'[t].pc \in Walking
            /\ invoked' \in [NodeIds -> Nat]
<1>1. ThreadTypes /\ invoked \in [NodeIds -> Nat]
  BY Typed, Zenon DEF HistoryTypes
<1>2. CASE Crash
  BY <1>2, Zenon DEF Crash
<1>3. CASE ~Crash
  <2>1. PICK n \in {0} \cup {m.id : m \in list} :
          /\ thread' = [thread EXCEPT ![t] = IF walk = "c" THEN [@ EXCEPT !.pc = pc, !.c = n]
                                                           ELSE [@ EXCEPT !.pc = pc, !.py = n]]
          /\ UNCHANGED <<mpc, invoked>>
    BY <1>3, Zenon DEF Astray
  <2>2. n \in Nat
    <3>1. \A m \in list : m.id \in Nat
      BY NodeNumbers, Zenon
    <3>2. n = 0 \/ \E m \in list : n = m.id
      BY <2>1, Zenon
    <3>3. QED
      BY <3>1, <3>2, SMT
  <2>3. \/ thread' = [thread EXCEPT ![t] = [@ EXCEPT !.pc = pc, !.c = n]]
        \/ thread' = [thread EXCEPT ![t] = [@ EXCEPT !.pc = pc, !.py = n]]
    BY <2>1, Zenon
  <2>4. ThreadTypes' /\ Others(t) /\ thread'[t].pc = pc
    BY <1>1, <2>2, <2>3, ThreadWalks, Zenon
  <2>5. QED
    BY <1>1, <2>1, <2>4, Zenon
<1>4. QED
  BY <1>2, <1>3

LEMMA StepMoves ==
  ASSUME TypeOK, NEW t \in Threads, NEW n \in Nat,
         ToC(t, n) \/ ToPy(t, n) \/ On(t, "check") \/ On(t, "cnext") \/ On(t, "gil")
  PROVE  /\ UNCHANGED mpc /\ ThreadTypes' /\ Others(t) /\ thread'[t].pc \in Walking
         /\ invoked' \in [NodeIds -> Nat]
<1>1. ThreadTypes /\ invoked \in [NodeIds -> Nat]
  BY Typed, Zenon DEF HistoryTypes
<1>2. UNCHANGED mpc /\ invoked' \in [NodeIds -> Nat]
  BY <1>1, Zenon DEF ToC, ToPy, On
<1>3. CASE ToC(t, n) \/ ToPy(t, n)
  <2>1. \E pc \in {"c", "py"} : \/ thread' = [thread EXCEPT ![t] = [@ EXCEPT !.pc = pc, !.c = n]]
                               \/ thread' = [thread EXCEPT ![t] = [@ EXCEPT !.pc = pc, !.py = n]]
    BY <1>3, Zenon DEF ToC, ToPy
  <2>2. QED
    BY <1>1, <1>2, <2>1, ThreadWalks, Zenon DEF Walking
<1>4. CASE On(t, "check") \/ On(t, "cnext") \/ On(t, "gil")
  <2>1. \E pc \in {"check", "cnext", "gil"} : Goto(t, pc)
    BY <1>4, Zenon DEF On
  <2>2. QED
    BY <1>1, <1>2, <2>1, ThreadGoes, Zenon DEF Walking, ThreadPCs
<1>5. QED
  BY <1>3, <1>4

LEMMA WalkMoves ==
  ASSUME TypeOK, NEW t \in Threads,
         \/ RunCallbacks(t) \/ CallbackNode(t) \/ CallbackNext(t) \/ PyNode(t)
         \/ PyCall(t) \/ PyReturn(t)
  PROVE  Moves(t)
<1>1. /\ thread[t].c \in Nat /\ thread[t].py \in Nat
      /\ ThreadTypes /\ invoked \in [NodeIds -> Nat]
  BY Typed, SMT DEF ThreadTypes, ThreadType, HistoryTypes
<1> DEFINE Result ==
      \/ mpc' = "crashed" /\ UNCHANGED <<thread, invoked>>
      \/ /\ UNCHANGED mpc /\ ThreadTypes' /\ Others(t) /\ thread'[t].pc \in Walking
         /\ invoked' \in [NodeIds -> Nat]
<1>2. /\ \A n \in Nat : ToC(t, n) \/ ToPy(t, n) \/ On(t, "check") \/ On(t, "cnext") \/ On(t, "gil")
                        => Result
      /\ \A pc \in {"c", "py"} : \A walk : \A list \in {cCallbacks, pyCallbacks} :
           Astray(t, pc, walk, list) => Result
  BY StepMoves, AstrayMoves, Zenon DEF Walking
<1>3. /\ HeadOf(cCallbacks) \in Nat /\ HeadOf(pyCallbacks) \in Nat
      /\ \A n \in Nat : NextOf(cCallbacks, n) \in Nat /\ NextOf(pyCallbacks, n) \in Nat
  BY NodeNumbers, Zenon
<1>4. CASE RunCallbacks(t)
  <2>1. Result
    BY <1>2, <1>3, <1>4, Zenon DEF RunCallbacks
  <2>2. QED
    BY <2>1, <1>4, Zenon DEF RunCallbacks, AtPC, Moves, Walking
<1>5. CASE CallbackNode(t)
  <2>1. Result
    BY <1>1, <1>2, <1>3, <1>5, Zenon DEF CallbackNode
  <2>2. QED
    BY <2>1, <1>5, Zenon DEF CallbackNode, AtPC, Moves, Walking
<1>6. CASE CallbackNext(t)
  <2>1. Result
    BY <1>1, <1>2, <1>3, <1>6, Zenon DEF CallbackNext
  <2>2. QED
    BY <2>1, <1>6, Zenon DEF CallbackNext, AtPC, Moves, Walking
<1>7. CASE PyNode(t)
  <2>1. Result
    BY <1>1, <1>2, <1>3, <1>7, Zenon DEF PyNode
  <2>2. QED
    BY <2>1, <1>7, Zenon DEF PyNode, AtPC, Moves, Walking
<1>8. CASE PyCall(t)
  <2> DEFINE n == thread[t].py
  <2>1. CASE Holds(pyCallbacks, n) /\ invoked' = [invoked EXCEPT ![n] = @ + 1]
             /\ Goto(t, "call") /\ UNCHANGED mpc
    <3>1. n \in NodeIds
      BY <2>1, NodeNumbers, Zenon DEF Holds
    <3>2. invoked' \in [NodeIds -> Nat]
      BY <3>1, <2>1, <1>1, SMT
    <3>3. ThreadTypes' /\ Others(t) /\ thread'[t].pc = "call"
      BY <2>1, <1>1, ThreadGoes, Zenon DEF ThreadPCs
    <3>4. Result
      BY <3>2, <3>3, <2>1, Zenon DEF Walking
    <3>5. QED
      BY <3>4, <1>8, Zenon DEF PyCall, AtPC, Moves, Walking
  <2>2. CASE Astray(t, "py", "py", pyCallbacks)
    <3>1. Result
      BY <2>2, <1>2, Zenon
    <3>2. QED
      BY <3>1, <1>8, Zenon DEF PyCall, AtPC, Moves, Walking
  <2>3. QED
    BY <2>1, <2>2, <1>8, Zenon DEF PyCall
<1>9. CASE PyReturn(t)
  <2>1. Result
    BY <1>1, <1>2, <1>3, <1>9, Zenon DEF PyReturn
  <2>2. QED
    BY <2>1, <1>9, Zenon DEF PyReturn, AtPC, Moves, Walking
<1>10. QED
  BY <1>4, <1>5, <1>6, <1>7, <1>8, <1>9

LEMMA MovesType == ASSUME TypeOK, NEW t \in Threads, Moves(t) PROVE TypeOK'
<1>1. ThreadTypes /\ CallTypes /\ HistoryTypes
  BY Typed, Zenon
<1>2. ThreadTypes' /\ invoked' \in [NodeIds -> Nat]
  BY <1>1, Zenon DEF Moves, ThreadTypes, HistoryTypes
<1>3. CallTypes'
  BY <1>1, Zenon DEF Moves, WalkUnchanged, CallTypes, MainPCs
<1>4. HistoryTypes'
  BY <1>1, <1>2, Zenon DEF Moves, WalkUnchanged, HistoryTypes
<1>5. QED
  BY <1>2, <1>3, <1>4, TypesKept, TypedNext, Zenon DEF Moves, WalkUnchanged, kernelVars

(* The other steps of a thread.                                             *)
LEMMA FlowType ==
  ASSUME TypeOK, NEW t \in Threads,
         \/ PollStart(t) \/ PollCheck(t) \/ PollLeave(t) \/ PollEnter(t) \/ PollRead(t)
         \/ PollInterrupted(t)
  PROVE  TypeOK'
<1>1. ThreadTypes /\ FlagTypes /\ HistoryTypes
  BY Typed, Zenon
<1>2. ThreadTypes'
  BY <1>1, ThreadGoes, Zenon DEF PollStart, PollCheck, PollLeave, PollEnter, PollRead,
     PollInterrupted, Exit, ThreadPCs
<1>3. running' \in BOOLEAN
  BY <1>1, Zenon DEF PollStart, PollCheck, PollLeave, PollEnter, PollRead, PollInterrupted, Exit,
     FlagTypes
<1>4. UNCHANGED <<exported, kernelVars, direction, fdList, epfd, occurred, listVars, mainVars,
                  edges, real, invoked>>
  BY Zenon DEF PollStart, PollCheck, PollLeave, PollEnter, PollRead, PollInterrupted, histVars
<1>5. FlagTypes'
  BY <1>1, <1>3, <1>4, Zenon DEF FlagTypes, kernelVars, mainVars
<1>6. interrupts' \in 0 .. MaxInterrupts
  <2>1. interrupts' = interrupts \/ (interrupts < MaxInterrupts /\ interrupts' = interrupts + 1)
    BY Zenon DEF PollStart, PollCheck, PollLeave, PollEnter, PollRead, PollInterrupted, histVars
  <2>2. QED
    BY <1>1, <2>1, GpioAssumption, SMT DEF HistoryTypes
<1>7. HistoryTypes'
  BY <1>1, <1>4, <1>6, Zenon DEF HistoryTypes
<1>8. QED
  BY <1>2, <1>4, <1>5, <1>7, TypesKept, TypedNext, Zenon DEF mainVars

LEMMA PollWaitType == ASSUME TypeOK, NEW t \in Threads, PollWait(t) PROVE TypeOK'
<1>1. ThreadTypes /\ KernelTypes
  BY Typed, Zenon
<1>2. PICK f \in ready :
        /\ ready' = ready \ {f}
        /\ thread' = [thread EXCEPT ![t] = [@ EXCEPT !.pc = "read", !.fd = f]]
  BY Zenon DEF PollWait
<1>3. ThreadTypes'
  BY <1>1, <1>2, ThreadTakes, Zenon DEF KernelTypes
<1>4. KernelTypes'
  BY <1>1, <1>2, Zenon DEF PollWait, KernelTypes
<1>5. QED
  BY <1>3, <1>4, TypesKept, TypedNext, Zenon DEF PollWait, mainVars

LEMMA PollLookupType == ASSUME TypeOK, NEW t \in Threads, PollLookup(t) PROVE TypeOK'
<1>1. ThreadTypes /\ gpio_lookup(thread[t].fd) \in Pins \cup {0}
  BY Typed, LookupTypes, Zenon
<1>2. ThreadTypes'
  BY <1>1, ThreadLooks, Zenon DEF PollLookup
<1>3. QED
  BY <1>2, TypesKept, TypedNext, Zenon DEF PollLookup, mainVars, kernelVars

LEMMA PollTestType == ASSUME TypeOK, NEW t \in Threads, PollTest(t) PROVE TypeOK'
<1>1. ThreadTypes /\ FlagTypes /\ LibTypes /\ thread[t].gpio \in Pins \cup {0}
  BY Typed, SMT DEF ThreadTypes, ThreadType
<1>2. ThreadTypes'
  BY <1>1, ThreadGoes, Zenon DEF PollTest, AfterInitial, ThreadPCs
<1>3. fdList' \in Seq(EntryType)
  BY <1>1, ListTypes, Zenon DEF PollTest, LibTypes
<1>4. occurred' \in [Pins \cup {0} -> BOOLEAN]
  BY <1>1, Zenon DEF PollTest, FlagTypes
<1>5. LibTypes' /\ FlagTypes'
  BY <1>1, <1>3, <1>4, Zenon DEF PollTest, LibTypes, FlagTypes, kernelVars, mainVars
<1>6. QED
  BY <1>2, <1>5, TypesKept, TypedNext, Zenon DEF PollTest, mainVars

LEMMA EdgeType == ASSUME TypeOK, NEW p \in Pins, Edge(p) PROVE TypeOK'
<1>1. KernelTypes /\ FlagTypes /\ HistoryTypes
  BY Typed, Zenon
<1>2. edges' \in 0 .. MaxEdges
  BY <1>1, GpioAssumption, SMT DEF Edge, HistoryTypes
<1>3. wready' \in BOOLEAN
  BY <1>1, Zenon DEF Edge, FlagTypes
<1>4. KernelTypes' /\ FlagTypes' /\ HistoryTypes'
  BY <1>1, <1>2, <1>3, Zenon DEF Edge, KernelTypes, FlagTypes, HistoryTypes
<1>5. QED
  BY <1>4, TypesKept, TypedNext, Zenon DEF Edge

-----------------------------------------------------------------------------
(* The initial states, and the types along every step.                      *)
LEMMA InitTypes == Init => TypeOK
<1>1. SUFFICES ASSUME Init PROVE TypeOK
  OBVIOUS
<1>2. LibTypes
  <2>1. <<>> \in Seq(EntryType)
    BY SMT
  <2>2. QED
    BY <1>1, <2>1, Zenon DEF Init, LibTypes
<1>3. FlagTypes
  BY <1>1, Zenon DEF Init, FlagTypes
<1>4. KernelTypes /\ NodeTypes
  BY <1>1, GpioAssumption, SMT DEF Init, KernelTypes, NodeTypes
<1>5. ThreadTypes
  <2>1. Idle \in ThreadType
    BY SMT DEF Idle, ThreadType, ThreadPCs
  <2>2. QED
    BY <1>1, <2>1, Zenon DEF Init, ThreadTypes
<1>6. CallTypes
  BY <1>1, GpioAssumption, SMT DEF Init, CallTypes, MainPCs, Results
<1>7. HistoryTypes
  BY <1>1, GpioAssumption, SMT DEF Init, HistoryTypes
<1>8. QED
  BY <1>2, <1>3, <1>4, <1>5, <1>6, <1>7, Typed, Zenon

LEMMA MainTypes == ASSUME GpioInv, Main PROVE TypeOK'
<1>1. TypeOK
  BY DEF GpioInv
<1>2. CASE InCall
  BY <1>1, <1>2, AddOpenType, AddEpollType, AddThreadType, AddNodeType, RemoveCallbacksType,
     RemoveEpollType, RemoveFlagType, CleanupStopType, CleanupExportsType, WaitOpenType,
     WaitFirstType, Zenon DEF InCall
<1>3. CASE WaitEdge \/ Cleanup
  BY <1>1, <1>3, WaitEdgeType, CleanupType, Zenon
<1>4. ASSUME NEW p \in Pins,
             \/ Setup(p) \/ Input(p) \/ EventDetected(p) \/ AddDetect(p)
             \/ AddCallback(p) \/ RemoveDetect(p) \/ WaitForEdge(p)
      PROVE  TypeOK'
  BY <1>1, <1>4, SetupType, InputType, EventDetectedType, AddDetectType, AddCallbackType,
     RemoveDetectType, WaitForEdgeType, Zenon
<1>5. QED
  BY <1>2, <1>3, <1>4, Zenon DEF Main

LEMMA PollTypes ==
  ASSUME TypeOK, NEW t \in Threads, Poll(t) \/ PollInterrupted(t)
  PROVE  TypeOK'
<1>1. CASE \/ PollStart(t) \/ PollCheck(t) \/ PollLeave(t) \/ PollEnter(t) \/ PollRead(t)
           \/ PollInterrupted(t)
  BY <1>1, FlowType
<1>2. CASE PollWait(t) \/ PollLookup(t) \/ PollTest(t)
  BY <1>2, PollWaitType, PollLookupType, PollTestType
<1>3. CASE RunCallbacks(t) \/ CallbackNode(t) \/ CallbackNext(t) \/ PyNode(t)
           \/ PyCall(t) \/ PyReturn(t)
  <2>1. Moves(t)
    BY <1>3, WalkMoves
  <2>2. QED
    BY <2>1, MovesType
<1>4. QED
  BY <1>1, <1>2, <1>3, Zenon DEF Poll

\* What a thread or an edge leaves alone, but that a walk may end in a crash, and a
\* test rewrites the entries of fd_list.
LEMMA PollKeeps ==
  ASSUME TypeOK, NEW t \in Threads, Poll(t) \/ PollInterrupted(t)
  PROVE  /\ UNCHANGED <<exported, sysfs, edge, used, epLive, epSet, direction, epfd, listVars,
                        mpin, mfd, mcb, wfd, wready, result, calls, edges, real>>
         /\ mpc # "crashed" /\ mpc' \in {mpc, "crashed"}
         /\ SameList(fdList, fdList')
<1>1. fdList \in Seq(EntryType) /\ SameList(fdList, fdList)
  BY Typed, Zenon DEF LibTypes, SameList
<1>2. CASE \/ PollStart(t) \/ PollCheck(t) \/ PollLeave(t) \/ PollEnter(t) \/ PollRead(t)
           \/ PollWait(t) \/ PollLookup(t) \/ PollInterrupted(t)
  BY <1>1, <1>2, Zenon DEF PollStart, PollCheck, PollLeave, PollEnter, PollRead, PollWait,
     PollLookup, PollInterrupted, AtPC, kernelVars, mainVars, histVars
<1>3. CASE PollTest(t)
  <2>1. thread[t].gpio \in Pins \cup {0}
    BY Typed, SMT DEF ThreadTypes, ThreadType
  <2>2. SameList(fdList, fdList')
    BY <1>1, <1>3, <2>1, InitialSame, Zenon DEF PollTest
  <2>3. QED
    BY <1>3, <2>2, Zenon DEF PollTest, AtPC, kernelVars, mainVars, histVars
<1>4. CASE RunCallbacks(t) \/ CallbackNode(t) \/ CallbackNext(t) \/ PyNode(t)
           \/ PyCall(t) \/ PyReturn(t)
  <2>1. Moves(t)
    BY <1>4, WalkMoves
  <2>2. QED
    BY <1>1, <2>1, Zenon DEF Moves, WalkUnchanged, kernelVars
<1>5. QED
  BY <1>2, <1>3, <1>4, Zenon DEF Poll

\* A step changes nothing, or keeps the types.
LEMMA StutterTypes == ASSUME TypeOK, UNCHANGED vars PROVE TypeOK'
  BY TypesKept, TypedNext, Zenon DEF vars, kernelVars, listVars, histVars

LEMMA TypeStep == ASSUME GpioInv, [Next]_vars PROVE TypeOK'
<1>1. TypeOK
  BY DEF GpioInv
<1>2. QED
  BY <1>1, MainTypes, PollTypes, EdgeType, StutterTypes, Zenon DEF Next

-----------------------------------------------------------------------------
(* Descriptors: what each kind of change does to DescriptorsConsistent.      *)
Covered(s, u, live, stale) ==
  /\ OnePerPin(s) /\ Apart(s, stale)
  /\ (FdsOf(s) \cup live) \ u \subseteq stale
  /\ "wait" \notin Calls => u \subseteq FdsOf(s) \cup live

LEMMA ListedParts ==
  /\ DescriptorsListed <=> Covered(fdList, used, Live, Stale)
  /\ DescriptorsListed' <=> Covered(fdList', used', Live', Stale')
  /\ Listed = FdsOf(fdList) /\ Listed' = FdsOf(fdList')
  /\ Live = (IF epLive THEN {epfd} ELSE {}) /\ Live' = (IF epLive' THEN {epfd'} ELSE {})
  /\ Stale = (IF epLive THEN {} ELSE {epfd}) /\ Stale' = (IF epLive' THEN {} ELSE {epfd'})
<1>1. Listed = FdsOf(fdList) /\ Listed' = FdsOf(fdList')
  BY Zenon DEF Listed, FdsOf
<1>2. DescriptorsListed <=> Covered(fdList, used, Live, Stale)
  BY <1>1, Zenon DEF DescriptorsListed, Covered, OnePerPin, Apart
<1>3. DescriptorsListed' <=> Covered(fdList', used', Live', Stale')
  BY <1>1, Zenon DEF DescriptorsListed, Covered, OnePerPin, Apart
<1>4. QED
  BY <1>1, <1>2, <1>3, Zenon DEF Live, Stale

\* A pin's descriptor is the one its lookup finds, and the other way round.
LEMMA LookupsPair ==
  ASSUME NEW s \in Seq(EntryType), OnePerPin(s), Apart(s, {}), NEW p \in Pins, NEW f \in Fds
  PROVE  /\ MapsIn(s, p, f) <=> FdIn(s, p) = f
         /\ MapsIn(s, p, f) <=> PinIn(s, f) = p
<1>1. 0 \notin Pins /\ 0 \notin Fds
  BY PinsPositive
<1>2. MapsIn(s, p, f) <=> FdIn(s, p) = f
  BY <1>1, FdFound, Zenon
<1>3. \A i, j \in DOMAIN s : i # j /\ s[i].fd = f => s[j].fd # f
  BY Zenon DEF Apart
<1>4. MapsIn(s, p, f) <=> PinIn(s, f) = p
  BY <1>1, <1>3, PinFound, Zenon
<1>5. QED
  BY <1>2, <1>4, Zenon

\* while the instance is open, every listed descriptor is in use and only once
LEMMA OpenListed ==
  ASSUME GpioInv, epLive
  PROVE  /\ Apart(fdList, {}) /\ FdsOf(fdList) \subseteq used /\ epfd \in used
         /\ \A f \in epSet : f \in FdsOf(fdList)
<1>1. Covered(fdList, used, {epfd}, {})
  BY ListedParts, Zenon DEF GpioInv, DescriptorsConsistent
<1>2. fdList \in Seq(EntryType) /\ edge \subseteq Pins
  BY Typed, Zenon DEF GpioInv, LibTypes, KernelTypes
<1>3. \A f \in epSet : PinIn(fdList, f) # 0
  BY <1>2, Lookups, PinsPositive, Zenon DEF GpioInv, DescriptorsConsistent, RegisteredHasEdge
<1>4. \A f \in epSet : f \in FdsOf(fdList)
  BY <1>2, <1>3, PinFound, Zenon DEF FdsOf
<1>5. QED
  BY <1>1, <1>4, Zenon DEF Covered

DescStep == DescriptorsConsistent' /\ EpollInv'

\* the list keeps its descriptors, and pins only gain edges
LEMMA KeptDesc ==
  ASSUME GpioInv, SameList(fdList, fdList'), UNCHANGED <<used, epfd, epLive, epSet>>,
         edge \subseteq edge'
  PROVE  DescStep
<1>1. fdList \in Seq(EntryType)
  BY Typed, Zenon DEF GpioInv, LibTypes
<1>2. /\ \A f : PinIn(fdList', f) = PinIn(fdList, f)
      /\ FdsOf(fdList') = FdsOf(fdList) /\ (OnePerPin(fdList) => OnePerPin(fdList'))
      /\ \A S : Apart(fdList, S) => Apart(fdList', S)
  BY <1>1, SameLookups, Zenon
<1>3. DescriptorsListed'
  <2>1. Live' = Live /\ Stale' = Stale
    BY Zenon DEF Live, Stale
  <2>2. Covered(fdList, used, Live, Stale)
    BY ListedParts, Zenon DEF GpioInv, DescriptorsConsistent
  <2>3. Covered(fdList', used', Live', Stale')
    BY <1>2, <2>1, <2>2, Zenon DEF Covered
  <2>4. QED
    BY <2>3, ListedParts, Zenon
<1>4. RegisteredHasEdge'
  BY <1>2, Lookups, Zenon DEF GpioInv, DescriptorsConsistent, RegisteredHasEdge
<1>5. EpollInv'
  BY Zenon DEF GpioInv, EpollInv
<1>6. QED
  BY <1>3, <1>4, <1>5, Zenon DEF DescStep, DescriptorsConsistent

\* a value file is opened for a pin without one
LEMMA OpenedDesc ==
  ASSUME GpioInv, NEW p \in Pins, fd_lookup(p) = 0, FreeFds # {},
         fdList' = <<Entry(p, LowestFree)>> \o fdList, used' = used \cup {LowestFree},
         UNCHANGED <<epfd, epLive, epSet>>, edge \subseteq edge'
  PROVE  /\ DescStep /\ fd_lookup(p)' = LowestFree /\ LowestFree # 0
         /\ Listed' = Listed \cup {LowestFree}
<1>0. PICK f \in Fds : f = LowestFree
  BY LowestFreeIsFree, Zenon
<1>1. fdList \in Seq(EntryType) /\ f \in Fds /\ f \notin used
  BY <1>0, Typed, LowestFreeIsFree, Zenon DEF GpioInv, LibTypes
<1>2. Longer(fdList, fdList', p, f) /\ fdList' \in Seq(EntryType)
  BY <1>0, <1>1, EntryLonger, Zenon DEF Longer
<1>3. \A i \in DOMAIN fdList : fdList[i].gpio # p
  BY <1>1, Lookups, FdFound, Zenon
<1>4. /\ \A q, g : MapsIn(fdList', q, g) <=> MapsIn(fdList, q, g) \/ (q = p /\ g = f)
      /\ FdsOf(fdList') = FdsOf(fdList) \cup {f}
      /\ OnePerPin(fdList) => OnePerPin(fdList')
      /\ \A S : Apart(fdList, S) /\ (f \in FdsOf(fdList) => f \in S) => Apart(fdList', S)
  <2>1. PICK s \in Seq(EntryType) : s = fdList
    BY <1>1, Zenon
  <2>2. PICK t \in Seq(EntryType) : t = fdList'
    BY <1>2, Zenon
  <2>3. Longer(s, t, p, f)
    BY <2>1, <2>2, <1>2, Zenon
  <2>4. /\ \A q, g : MapsIn(t, q, g) <=> MapsIn(s, q, g) \/ (q = p /\ g = f)
        /\ FdsOf(t) = FdsOf(s) \cup {f}
        /\ OnePerPin(s) /\ (\A i \in DOMAIN s : s[i].gpio # p) => OnePerPin(t)
        /\ \A S : Apart(s, S) /\ (f \in FdsOf(s) => f \in S) => Apart(t, S)
    BY <2>3, LongerLookups
  <2>5. QED
    BY <2>1, <2>2, <2>4, <1>3, Zenon
<1>5. Covered(fdList, used, Live, Stale) /\ Live' = Live /\ Stale' = Stale
  BY ListedParts, Zenon DEF GpioInv, DescriptorsConsistent
<1>6. Covered(fdList', used', Live', Stale')
  BY <1>0, <1>1, <1>4, <1>5, Zenon DEF Covered
<1>7. f # 0 /\ fd_lookup(p)' = f
  <2>1. f # 0 /\ OnePerPin(fdList') /\ MapsIn(fdList', p, f)
    BY <1>1, <1>4, <1>6, PinsPositive, Zenon DEF Covered
  <2>2. QED
    BY <2>1, <1>1, <1>2, FdFound, Lookups, Zenon
<1>8. RegisteredHasEdge'
  <2>1. SUFFICES ASSUME epLive, NEW g \in epSet PROVE PinIn(fdList', g) \in edge'
    BY Lookups, Zenon DEF RegisteredHasEdge
  <2>2. /\ PinIn(fdList, g) \in edge /\ g \in FdsOf(fdList)
      /\ Apart(fdList, {}) /\ OnePerPin(fdList) /\ f \notin FdsOf(fdList)
    BY <2>1, <1>1, <1>5, OpenListed, Lookups, Zenon
       DEF GpioInv, DescriptorsConsistent, RegisteredHasEdge, Covered
  <2>3. Apart(fdList', {}) /\ OnePerPin(fdList')
    BY <2>2, <1>4, Zenon
  <2>4. g \in Fds /\ PinIn(fdList, g) \in Pins
    BY <2>1, <2>2, Typed, Zenon DEF GpioInv, KernelTypes
  <2>5. MapsIn(fdList, PinIn(fdList, g), g)
    BY <2>2, <2>4, <1>1, LookupsPair, Zenon
  <2>6. MapsIn(fdList', PinIn(fdList, g), g)
    BY <2>5, <1>4, Zenon
  <2>7. PinIn(fdList', g) = PinIn(fdList, g)
    BY <2>3, <2>4, <2>6, <1>2, LookupsPair, Zenon
  <2>8. QED
    BY <2>2, <2>7, Zenon
<1>9. QED
  BY <1>0, <1>4, <1>6, <1>7, <1>8, ListedParts, Zenon DEF DescStep,
     DescriptorsConsistent, GpioInv, EpollInv

LEMMA AddEpollDesc == ASSUME GpioInv, AddEpoll PROVE DescStep
<1>1. /\ fdList \in Seq(EntryType) /\ edge \subseteq Pins /\ used \subseteq Fds /\ mpin \in Pins
      /\ mfd \in Fds /\ mfd = FdIn(fdList, mpin) /\ mfd # 0 /\ mpin \in edge
  BY Typed, Lookups, Zenon
     DEF GpioInv, CallInv, PinSteps, AddEpoll, LibTypes, KernelTypes, CallTypes
<1>2. Covered(fdList, used, Live, Stale) /\ RegisteredHasEdge
  BY ListedParts, Zenon DEF GpioInv, DescriptorsConsistent
<1>3. Apart(fdList, {}) => PinIn(fdList, mfd) = mpin
  BY <1>1, <1>2, LookupsPair, Zenon DEF Covered
<1>4. CASE /\ epfd = 0 /\ FreeFds # {} /\ epfd' = LowestFree /\ used' = used \cup {LowestFree}
           /\ epLive' = TRUE /\ epSet' \subseteq epSet \cup {mfd} /\ UNCHANGED <<fdList, edge>>
  <2>1. LowestFree \in Fds /\ LowestFree # 0
    BY <1>4, LowestFreeIsFree, PinsPositive, Zenon
  <2>2. ~epLive /\ epSet = {}
    BY <1>4, Zenon DEF GpioInv, EpollInv
  <2>3. Covered(fdList, used, {}, {0})
    BY <1>2, <1>4, <2>2, ListedParts, Zenon
  <2>4. \A i \in DOMAIN fdList : fdList[i].fd # 0
    BY <1>1, ListFields, PinsPositive, Zenon
  <2>5. Apart(fdList, {}) /\ FdsOf(fdList) \subseteq used
    BY <2>3, <2>4, Zenon DEF Covered, Apart, FdsOf
  <2>6. Covered(fdList', used', Live', Stale')
    <3>1. Covered(fdList, used \cup {LowestFree}, {LowestFree}, {})
      BY <2>3, <2>5, Zenon DEF Covered
    <3>2. Live' = {LowestFree} /\ Stale' = {}
      BY <1>4, Zenon DEF Live, Stale
    <3>3. QED
      BY <3>1, <3>2, <1>4, Zenon
  <2>7. RegisteredHasEdge'
    BY <1>1, <1>3, <1>4, <2>2, <2>5, Lookups, Zenon DEF RegisteredHasEdge
  <2>8. EpollInv'
    BY <2>1, <1>4, Zenon DEF EpollInv
  <2>9. QED
    BY <2>6, <2>7, <2>8, ListedParts, Zenon DEF DescStep, DescriptorsConsistent
<1>5. CASE /\ epLive /\ epSet' = epSet \cup {mfd} /\ UNCHANGED <<fdList, edge, epfd, epLive, used>>
  <2>1. Apart(fdList, {})
    BY <1>5, OpenListed
  <2>2. RegisteredHasEdge'
    BY <1>1, <1>2, <1>3, <1>5, <2>1, Lookups, Zenon DEF RegisteredHasEdge
  <2>3. Covered(fdList', used', Live', Stale')
    BY <1>2, <1>5, Zenon DEF Live, Stale
  <2>4. EpollInv'
    BY <1>5, Zenon DEF GpioInv, EpollInv
  <2>5. QED
    BY <2>2, <2>3, <2>4, ListedParts, Zenon DEF DescStep, DescriptorsConsistent
<1>6. CASE UNCHANGED <<fdList, edge, epfd, epLive, used, epSet>>
  BY <1>1, <1>6, KeptDesc, Zenon DEF SameList
<1>7. QED
  <2>1. \/ /\ epLive' /\ epSet' = epSet \cup {mfd}
        \/ epSet' = epSet
    BY Zenon DEF AddEpoll, Register
  <2>2. CASE NewInstance
    BY <1>4, <2>1, <2>2, Zenon DEF AddEpoll, NewInstance
  <2>3. CASE UNCHANGED <<epfd, epLive, used>>
    BY <1>5, <1>6, <2>1, <2>3, Zenon DEF AddEpoll
  <2>4. QED
    BY <2>2, <2>3, Zenon DEF AddEpoll

LEMMA RemoveEpollDesc == ASSUME GpioInv, RemoveEpoll PROVE DescStep
<1>1. /\ fdList \in Seq(EntryType) /\ edge \subseteq Pins /\ mpin \in Pins /\ epSet \subseteq Fds
      /\ mfd = FdIn(fdList, mpin)
  BY Typed, Lookups, Zenon
     DEF GpioInv, CallInv, PinSteps, RemoveEpoll, LibTypes, KernelTypes
<1>2. SameList(fdList, fdList') /\ UNCHANGED <<used, epfd, epLive>> /\ edge' = edge \ {mpin}
  BY <1>1, MarkSame, Zenon DEF RemoveEpoll
<1>3. /\ \A f : PinIn(fdList', f) = PinIn(fdList, f)
      /\ FdsOf(fdList') = FdsOf(fdList) /\ (OnePerPin(fdList) => OnePerPin(fdList'))
      /\ \A S : Apart(fdList, S) => Apart(fdList', S)
  BY <1>1, <1>2, SameLookups, Zenon
<1>4. Covered(fdList, used, Live, Stale) /\ Live' = Live /\ Stale' = Stale
  BY <1>2, ListedParts, Zenon DEF GpioInv, DescriptorsConsistent
<1>5. Covered(fdList', used', Live', Stale')
  BY <1>2, <1>3, <1>4, Zenon DEF Covered
<1>6. RegisteredHasEdge'
  <2>1. SUFFICES ASSUME epLive, NEW f \in epSet' PROVE PinIn(fdList, f) \in edge \ {mpin}
    BY <1>2, <1>3, Lookups, Zenon DEF RegisteredHasEdge
  <2>2. f \in epSet /\ f # mfd
    BY <2>1, Zenon DEF RemoveEpoll, Unregister
  <2>3. PinIn(fdList, f) \in edge /\ Apart(fdList, {}) /\ f \in Fds
    BY <1>1, <2>1, <2>2, OpenListed, Lookups, Zenon
       DEF GpioInv, DescriptorsConsistent, RegisteredHasEdge
  <2>4. PinIn(fdList, f) # mpin
    BY <1>1, <1>4, <2>2, <2>3, LookupsPair, Zenon DEF Covered
  <2>5. QED
    BY <2>3, <2>4, Zenon
<1>7. EpollInv'
  <2>1. epSet' \subseteq epSet
    BY Zenon DEF RemoveEpoll, Unregister
  <2>2. QED
    BY <1>2, <2>1, Zenon DEF GpioInv, EpollInv
<1>8. QED
  BY <1>5, <1>6, <1>7, ListedParts, Zenon DEF DescStep, DescriptorsConsistent

LEMMA CleanupDesc == ASSUME GpioInv, Cleanup PROVE DescStep /\ ~epLive'
<1>1. /\ ~epLive' /\ used' = used \ {epfd} /\ UNCHANGED <<fdList, epfd>>
      /\ epSet' \subseteq epSet
  BY Typed, Zenon DEF Cleanup, Close, GpioInv, FlagTypes
<1>2. Covered(fdList, used, Live, Stale)
  BY ListedParts, Zenon DEF GpioInv, DescriptorsConsistent
<1>3. Live' = {} /\ Stale' = {epfd} /\ Stale \subseteq {epfd} /\ Live \subseteq {epfd}
  BY <1>1, Zenon DEF Live, Stale
<1>4. Covered(fdList, used \ {epfd}, {}, {epfd})
  BY <1>2, <1>3, Zenon DEF Covered, Apart
<1>5. Covered(fdList', used', Live', Stale')
  BY <1>1, <1>3, <1>4, Zenon
<1>6. RegisteredHasEdge' /\ EpollInv'
  BY <1>1, Zenon DEF RegisteredHasEdge, EpollInv, GpioInv
<1>7. QED
  BY <1>1, <1>5, <1>6, ListedParts, Zenon DEF DescStep, DescriptorsConsistent

LEMMA CleanupExportsDesc == ASSUME GpioInv, CleanupExports PROVE DescStep
<1>1. ~epLive /\ UNCHANGED <<epfd, epLive>> /\ fdList \in Seq(EntryType) /\ epSet' \subseteq epSet
  BY Typed, Zenon DEF CleanupExports, GpioInv, CallInv, LibTypes, gpio_unexport, close_value_fd, Close
<1>2. Covered(fdList, used, {}, {epfd})
  BY <1>1, ListedParts, Zenon DEF GpioInv, DescriptorsConsistent
<1>3. Live' = {} /\ Stale' = {epfd}
  BY <1>1, Zenon DEF Live, Stale
<1>4. Covered(fdList', used', {}, {epfd})
  <2>1. CASE UNCHANGED <<fdList, used>>
    BY <2>1, <1>2, Zenon
  <2>2. CASE Ours # {} /\ EntriesOf(FirstOf(Ours)) # {}
    <3> DEFINE k == FirstOf(EntriesOf(FirstOf(Ours)))
    <3>1. k \in DOMAIN fdList
      BY <2>2, FirstOurs, FirstEntry, Zenon DEF GpioInv
    <3>2. fdList' = RemoveAt(fdList, k) /\ used' = used \ {fdList[k].fd}
      BY <2>2, Zenon DEF CleanupExports, gpio_unexport, close_value_fd, Close
    <3> HIDE DEF k
    <3>3. Shorter(fdList, fdList', k)
      BY <3>1, <3>2, <1>1, RemovedShorter, Zenon
    <3>4. /\ FdsOf(fdList') \subseteq FdsOf(fdList)
          /\ FdsOf(fdList) \subseteq FdsOf(fdList') \cup {fdList[k].fd}
          /\ (OnePerPin(fdList) => OnePerPin(fdList'))
          /\ \A S : Apart(fdList, S) => Apart(fdList', S)
          /\ \A S : Apart(fdList, S) /\ fdList[k].fd \notin S => fdList[k].fd \notin FdsOf(fdList')
      BY <3>1, <3>3, <1>1, ShorterLookups, Zenon
    <3>5. QED
      BY <3>2, <3>4, <1>2, Zenon DEF Covered
  <2>3. QED
    BY <2>1, <2>2, Zenon DEF CleanupExports, gpio_unexport
<1>5. RegisteredHasEdge' /\ EpollInv'
  BY <1>1, Zenon DEF RegisteredHasEdge, EpollInv, GpioInv
<1>6. QED
  BY <1>3, <1>4, <1>5, ListedParts, Zenon DEF DescStep, DescriptorsConsistent

\* wait_for_edge() takes a descriptor, which is not epfd, and gives it back
LEMMA WaitForEdgeDesc ==
  ASSUME GpioInv, NEW p \in Pins, WaitForEdge(p)
  PROVE  /\ DescStep /\ fd_lookup(p)' = fd_lookup(p)
         /\ mpc' = "waitopen" =>
              wfd' \in used' /\ wfd' \notin Live' /\ (wfd' \in Listed' => wfd' \in Stale')
<1>1. fdList \in Seq(EntryType) /\ UNCHANGED <<epfd, epLive, epSet, edge>> /\ "wait" \in Calls
  BY Typed, Zenon DEF GpioInv, LibTypes, WaitForEdge, Begin
<1>2. SameList(fdList, fdList')
  BY <1>1, MarkSame, Zenon DEF WaitForEdge, SameList
<1>3. /\ \A f : PinIn(fdList', f) = PinIn(fdList, f) /\ \A q : FdIn(fdList', q) = FdIn(fdList, q)
      /\ FdsOf(fdList') = FdsOf(fdList) /\ (OnePerPin(fdList) => OnePerPin(fdList'))
      /\ \A S : Apart(fdList, S) => Apart(fdList', S)
  BY <1>1, <1>2, SameLookups, Zenon
<1>4. Covered(fdList, used, Live, Stale) /\ Live' = Live /\ Stale' = Stale
  BY <1>1, ListedParts, Zenon DEF GpioInv, DescriptorsConsistent
<1>5. used \subseteq used'
  BY Zenon DEF WaitForEdge
<1>6. Covered(fdList', used', Live', Stale')
  BY <1>1, <1>3, <1>4, <1>5, Zenon DEF Covered
<1>7. RegisteredHasEdge' /\ EpollInv'
  BY <1>1, <1>3, Lookups, Zenon
     DEF GpioInv, DescriptorsConsistent, RegisteredHasEdge, EpollInv
<1>8. ASSUME mpc' = "waitopen"
      PROVE  wfd' \in used' /\ wfd' \notin Live' /\ (wfd' \in Listed' => wfd' \in Stale')
  <2>1. FreeFds # {} /\ used' = used \cup {LowestFree} /\ wfd' = LowestFree
    BY <1>8, Zenon DEF WaitForEdge, Return
  <2>2. wfd' \notin used
    BY <2>1, LowestFreeIsFree, Zenon
  <2>3. Live \ used = {}
    BY <1>4, Zenon DEF Covered, Live, Stale
  <2>4. QED
    BY <2>1, <2>2, <2>3, <1>3, <1>4, ListedParts, Zenon DEF Covered
<1>9. QED
  BY <1>3, <1>6, <1>7, <1>8, ListedParts, Lookups, Zenon DEF DescStep, DescriptorsConsistent

LEMMA WaitEdgeDesc ==
  ASSUME GpioInv, WaitEdge \/ WaitFirst
  PROVE  DescStep
<1>1. /\ fdList \in Seq(EntryType) /\ UNCHANGED <<epfd, epLive, epSet, edge>> /\ mpin \in Pins
      /\ wfd \notin Live /\ (wfd \in Listed => wfd \in Stale) /\ used' \in {used, used \ {wfd}}
  BY Typed, Zenon DEF GpioInv, LibTypes, WaitEdge, WaitFirst, WaitFailed, CallInv, PinSteps
<1>2. SameList(fdList, fdList')
  BY <1>1, MarkSame, Zenon DEF WaitEdge, WaitFirst, WaitFailed, SameList
<1>3. /\ \A f : PinIn(fdList', f) = PinIn(fdList, f)
      /\ FdsOf(fdList') = FdsOf(fdList) /\ (OnePerPin(fdList) => OnePerPin(fdList'))
      /\ \A S : Apart(fdList, S) => Apart(fdList', S)
  BY <1>1, <1>2, SameLookups, Zenon
<1>4. Covered(fdList, used, Live, Stale) /\ Live' = Live /\ Stale' = Stale
  BY <1>1, ListedParts, Zenon DEF GpioInv, DescriptorsConsistent
<1>5. Covered(fdList', used', Live', Stale')
  BY <1>1, <1>3, <1>4, ListedParts, Zenon DEF Covered
<1>6. RegisteredHasEdge' /\ EpollInv'
  BY <1>1, <1>3, Lookups, Zenon
     DEF GpioInv, DescriptorsConsistent, RegisteredHasEdge, EpollInv
<1>7. QED
  BY <1>5, <1>6, ListedParts, Zenon DEF DescStep, DescriptorsConsistent

-----------------------------------------------------------------------------
(* What a call knows at its next step.                                      *)
FreeToWait(w) == w \in used /\ w \notin Live /\ (w \in Listed => w \in Stale)

LEMMA CallEnds == ASSUME mpc' \in {"idle", "crashed"} PROVE CallInv'
<1>1. /\ mpc' \notin PinSteps /\ mpc' \notin {"addopen", "addepoll", "rmepoll", "waitopen"}
      /\ mpc' # "addepoll" /\ mpc' \notin {"stop", "unexport"}
      /\ mpc' \notin {"waitopen", "waitfirst", "waitedge"}
  BY SMT DEF PinSteps
<1>2. QED
  BY <1>1, Zenon DEF CallInv

LEMMA CallPin ==
  ASSUME mpc' \in {"addthread", "cbpy", "cbc", "rmc", "rmflag"}, mpin' \in Pins
  PROVE  CallInv'
<1>1. /\ mpc' \notin {"addopen", "addepoll", "rmepoll", "waitopen"}
      /\ mpc' # "addepoll" /\ mpc' \notin {"stop", "unexport"}
      /\ mpc' \notin {"waitopen", "waitfirst", "waitedge"}
  BY SMT
<1>2. QED
  BY <1>1, Zenon DEF CallInv

LEMMA CallFd ==
  ASSUME mpc' \in {"addopen", "rmepoll"} \/ (mpc' = "addepoll" /\ mfd' # 0 /\ mpin' \in edge'),
         mpin' \in Pins, mfd' = FdIn(fdList', mpin')
  PROVE  CallInv'
<1>1. /\ mpc' \notin {"stop", "unexport"} /\ mpc' \notin {"waitopen", "waitfirst", "waitedge"}
      /\ mpc' = "addepoll" => mfd' # 0 /\ mpin' \in edge'
  BY SMT
<1>2. mfd' = fd_lookup(mpin)'
  BY Zenon DEF fd_lookup, EntriesOf, FdIn
<1>3. QED
  BY <1>1, <1>2, Zenon DEF CallInv

LEMMA CallCleans == ASSUME mpc' \in {"stop", "unexport"}, ~epLive' PROVE CallInv'
<1>1. /\ mpc' \notin PinSteps /\ mpc' \notin {"addopen", "addepoll", "rmepoll", "waitopen"}
      /\ mpc' # "addepoll" /\ mpc' \notin {"waitopen", "waitfirst", "waitedge"}
  BY SMT DEF PinSteps
<1>2. QED
  BY <1>1, Zenon DEF CallInv

LEMMA CallWaits ==
  ASSUME \/ mpc' \in {"waitfirst", "waitedge"}
         \/ mpc' = "waitopen" /\ mfd' = FdIn(fdList', mpin'),
         mpin' \in Pins, FreeToWait(wfd)'
  PROVE  CallInv'
<1>1. /\ mpc' # "addepoll" /\ mpc' \notin {"stop", "unexport"}
      /\ mpc' \in {"addopen", "addepoll", "rmepoll", "waitopen"} => mpc' = "waitopen"
  BY SMT
<1>2. mpc' = "waitopen" => mfd' = fd_lookup(mpin)'
  <2>1. mpc' = "waitopen" => mfd' = FdIn(fdList', mpin')
    BY SMT
  <2>2. QED
    BY <2>1, Zenon DEF fd_lookup, EntriesOf, FdIn
<1>3. QED
  BY <1>1, <1>2, Zenon DEF CallInv, FreeToWait

LEMMA CallStays ==
  ASSUME GpioInv, SameList(fdList, fdList'), edge \subseteq edge', mpc' \in {mpc, "crashed"},
         UNCHANGED <<used, epfd, epLive, mpin, mfd, wfd>>
  PROVE  CallInv'
<1>1. CASE mpc' = "crashed"
  BY <1>1, CallEnds, Zenon
<1>2. CASE mpc' = mpc
  <2>1. fdList \in Seq(EntryType)
    BY Typed, Zenon DEF GpioInv, LibTypes
  <2>2. \A p : FdIn(fdList', p) = FdIn(fdList, p) /\ FdsOf(fdList') = FdsOf(fdList)
    BY <2>1, SameLookups, Zenon
  <2>3. Listed' = Listed /\ Live' = Live /\ Stale' = Stale
    BY <2>2, ListedParts, Zenon
  <2>4. fd_lookup(mpin)' = fd_lookup(mpin)
    BY <2>2, Zenon DEF fd_lookup, EntriesOf, FdIn
  <2>5. QED
    BY <1>2, <2>3, <2>4, Zenon DEF GpioInv, CallInv
<1>3. QED
  BY <1>1, <1>2, Zenon

LEMMA AddDetectCall == ASSUME GpioInv, NEW p \in Pins, AddDetect(p) PROVE CallInv'
<1>1. CASE mpc' = "idle"
  BY <1>1, CallEnds, Zenon
<1>2. CASE mpc' = "addopen" /\ fdList' = Mark(p, TRUE)
  <2>1. fdList \in Seq(EntryType)
    BY Typed, Zenon DEF GpioInv, LibTypes
  <2>2. SameList(fdList, fdList')
    BY <1>2, <2>1, MarkSame, Zenon
  <2>3. FdIn(fdList', p) = FdIn(fdList, p)
    BY <2>1, <2>2, SameLookups, Zenon
  <2>4. mpin' = p /\ mfd' = FdIn(fdList', p)
    BY <2>3, Lookups, Zenon DEF AddDetect, Begin
  <2>5. QED
    BY <1>2, <2>4, CallFd, Zenon
<1>3. QED
  BY <1>1, <1>2, Zenon DEF AddDetect, Return

LEMMA AddOpenStep == ASSUME GpioInv, AddOpen PROVE CallInv' /\ DescStep
<1>1. /\ fdList \in Seq(EntryType) /\ mpin \in Pins /\ mfd = fd_lookup(mpin) /\ mpin' = mpin
      /\ edge' = edge \cup {mpin} /\ UNCHANGED <<epfd, epLive, epSet>>
  BY Typed, Zenon DEF GpioInv, LibTypes, CallInv, PinSteps, AddOpen
<1>2. CASE mfd # 0 /\ mpc' = "addepoll" /\ UNCHANGED <<mfd, fdList, used>>
  <2>1. mfd' = FdIn(fdList', mpin')
    BY <1>1, <1>2, Zenon DEF fd_lookup, EntriesOf, FdIn
  <2>2. DescStep
    BY <1>1, <1>2, KeptDesc, Zenon DEF SameList
  <2>3. QED
    BY <1>1, <1>2, <2>1, <2>2, CallFd, Zenon
<1>3. CASE /\ mfd = 0 /\ FreeFds # {} /\ mfd' = LowestFree /\ used' = used \cup {LowestFree}
           /\ fdList' = <<Entry(mpin, LowestFree)>> \o fdList /\ mpc' = "addepoll"
  <2>1. PICK p \in Pins : p = mpin
    BY <1>1, Zenon
  <2>2. /\ DescStep /\ fd_lookup(p)' = LowestFree /\ LowestFree # 0
    BY <1>1, <1>3, <2>1, OpenedDesc, Zenon
  <2>3. mfd' # 0 /\ mfd' = FdIn(fdList', mpin')
    BY <1>1, <1>3, <2>1, <2>2, Lookups, Zenon
  <2>4. QED
    BY <1>1, <1>3, <2>2, <2>3, CallFd, Zenon
<1>4. CASE OpenFailed
  <2>1. DescStep
    BY <1>1, <1>4, KeptDesc, Zenon DEF SameList, OpenFailed
  <2>2. QED
    BY <1>4, <2>1, CallEnds, Zenon DEF OpenFailed, Return
<1>5. QED
  BY <1>2, <1>3, <1>4, Zenon DEF AddOpen

LEMMA WaitOpenStep == ASSUME GpioInv, WaitOpen PROVE CallInv' /\ DescStep
<1>1. /\ fdList \in Seq(EntryType) /\ mpin \in Pins /\ mfd = fd_lookup(mpin) /\ mpin' = mpin
      /\ edge' = edge \cup {mpin} /\ UNCHANGED <<epfd, epLive, epSet>> /\ FreeToWait(wfd)
  BY Typed, Zenon DEF GpioInv, LibTypes, CallInv, PinSteps, WaitOpen, FreeToWait
<1>2. CASE mpc' = "waitfirst" /\ UNCHANGED <<wfd, fdList, used>>
  <2>1. FreeToWait(wfd)'
    BY <1>1, <1>2, Zenon DEF FreeToWait, Listed, Live, Stale
  <2>2. DescStep
    BY <1>1, <1>2, KeptDesc, Zenon DEF SameList
  <2>3. QED
    BY <1>1, <1>2, <2>1, <2>2, CallWaits, Zenon
<1>3. CASE /\ mfd = 0 /\ FreeFds # {} /\ used' = used \cup {LowestFree} /\ wfd' = wfd
           /\ fdList' = <<Entry(mpin, LowestFree)>> \o fdList /\ mpc' = "waitfirst"
  <2>1. PICK p \in Pins : p = mpin
    BY <1>1, Zenon
  <2>2. /\ DescStep /\ Listed' = Listed \cup {LowestFree}
    BY <1>1, <1>3, <2>1, OpenedDesc, Zenon
  <2>3. LowestFree \notin used
    BY <1>3, LowestFreeIsFree, Zenon
  <2>4. FreeToWait(wfd)'
    BY <1>1, <1>3, <2>2, <2>3, Zenon DEF FreeToWait, Live, Stale
  <2>5. QED
    BY <1>1, <1>3, <2>2, <2>4, CallWaits, Zenon
<1>4. CASE mpc' = "idle" /\ UNCHANGED <<fdList, used>>
  <2>1. DescStep
    BY <1>1, <1>4, KeptDesc, Zenon DEF SameList
  <2>2. QED
    BY <1>4, <2>1, CallEnds, Zenon
<1>5. QED
  BY <1>2, <1>3, <1>4, Zenon DEF WaitOpen, Return

LEMMA InputStep == ASSUME GpioInv, NEW p \in Pins, Input(p) PROVE CallInv' /\ DescStep
<1>1. /\ mpc' = "idle" /\ fdList \in Seq(EntryType) /\ UNCHANGED <<epfd, epLive, epSet, edge>>
  BY Typed, Zenon DEF GpioInv, LibTypes, Input, Begin
<1>2. DescStep
  <2>1. CASE /\ fd_lookup(p) = 0 /\ FreeFds # {} /\ used' = used \cup {LowestFree}
             /\ fdList' = <<Entry(p, LowestFree)>> \o fdList
    BY <1>1, <2>1, OpenedDesc, Zenon
  <2>2. CASE UNCHANGED <<fdList, used>>
    BY <1>1, <2>2, KeptDesc, Zenon DEF SameList
  <2>3. QED
    BY <2>1, <2>2, Zenon DEF Input
<1>3. QED
  BY <1>1, <1>2, CallEnds, Zenon

\* The calls that leave descriptors and edges alone, and change at most a mark.
LEMMA PlainStep ==
  ASSUME GpioInv,
         \/ \E p \in Pins : Setup(p) \/ EventDetected(p) \/ AddDetect(p) \/ AddCallback(p)
                            \/ RemoveDetect(p)
         \/ AddThread \/ AddPyCallback \/ AddEdgeCallback \/ RemoveCallbacks \/ RemoveFlag
         \/ CleanupStop
  PROVE  CallInv' /\ DescStep
<1>1. fdList \in Seq(EntryType)
  BY Typed, Zenon DEF GpioInv, LibTypes
<1>2. DescStep
  <2>1. UNCHANGED <<used, epfd, epLive, epSet, edge>>
    BY Zenon DEF Setup, EventDetected, AddDetect, AddCallback, RemoveDetect, AddThread,
       AddPyCallback, AddEdgeCallback, RemoveCallbacks, RemoveFlag, CleanupStop, kernelVars
  <2>2. fdList' = fdList \/ \E p \in Pins : fdList' = Mark(p, TRUE)
    BY Zenon DEF Setup, EventDetected, AddDetect, AddCallback, RemoveDetect, AddThread,
       AddPyCallback, AddEdgeCallback, RemoveCallbacks, RemoveFlag, CleanupStop
  <2>3. SameList(fdList, fdList')
    BY <1>1, <2>2, MarkSame, Zenon DEF SameList
  <2>4. QED
    BY <2>1, <2>3, KeptDesc, Zenon
<1>3. ASSUME NEW p \in Pins,
             Setup(p) \/ EventDetected(p) \/ AddDetect(p) \/ AddCallback(p) \/ RemoveDetect(p)
      PROVE  CallInv'
  <2>1. CASE Setup(p) \/ EventDetected(p)
    BY <2>1, CallEnds, Zenon DEF Setup, EventDetected, Begin, mainVars
  <2>2. CASE AddCallback(p) \/ RemoveDetect(p)
    <3>1. mpc' = "idle" \/ (mpc' \in {"addthread", "cbpy", "cbc", "rmc", "rmflag"} /\ mpin' \in Pins)
      BY <2>2, Zenon DEF AddCallback, RemoveDetect, Begin, Return
    <3>2. QED
      BY <3>1, CallEnds, CallPin, Zenon
  <2>3. CASE AddDetect(p)
    BY <2>3, AddDetectCall
  <2>4. QED
    BY <1>3, <2>1, <2>2, <2>3
<1>4. CASE AddThread \/ AddPyCallback \/ AddEdgeCallback \/ RemoveFlag
  <2>1. mpin \in Pins /\ mpin' = mpin
    BY <1>4, Zenon DEF AddThread, AddPyCallback, AddEdgeCallback, RemoveFlag, GpioInv, CallInv, PinSteps
  <2>2. mpc' \in {"idle", "cbpy", "cbc"}
    BY <1>4, Zenon DEF AddThread, AddPyCallback, AddEdgeCallback, RemoveFlag, Spawn, NextStep, Return
  <2>3. QED
    BY <1>2, <2>1, <2>2, CallEnds, CallPin, Zenon
<1>5. CASE RemoveCallbacks
  <2>1. mpin \in Pins /\ mpin' = mpin /\ mpc' = "rmepoll" /\ mfd' = fd_lookup(mpin) /\ fdList' = fdList
    BY <1>5, Zenon DEF RemoveCallbacks, GpioInv, CallInv, PinSteps
  <2>2. mfd' = FdIn(fdList', mpin')
    BY <2>1, Zenon DEF fd_lookup, EntriesOf, FdIn
  <2>3. QED
    BY <1>2, <2>1, <2>2, CallFd, Zenon
<1>6. CASE CleanupStop
  <2>1. ~epLive /\ epLive' = epLive /\ mpc' = "unexport"
    BY <1>6, Zenon DEF CleanupStop, GpioInv, CallInv, kernelVars
  <2>2. QED
    BY <1>2, <2>1, CallCleans, Zenon
<1>7. QED
  BY <1>2, <1>3, <1>4, <1>5, <1>6

\* a wait goes on to its second epoll_wait(), or ends
LEMMA WaitFirstStep == ASSUME GpioInv, WaitFirst PROVE CallInv' /\ DescStep
<1>1. DescStep
  BY WaitEdgeDesc
<1>2. CASE WaitFailed
  BY <1>1, <1>2, CallEnds, Zenon DEF WaitFailed, Return
<1>3. CASE mpc' = "waitedge" /\ UNCHANGED <<fdList, used, wfd, result>>
  <2>1. mpin \in Pins /\ mpin' = mpin /\ FreeToWait(wfd) /\ UNCHANGED <<epfd, epLive>>
    BY Zenon DEF WaitFirst, GpioInv, CallInv, PinSteps, FreeToWait
  <2>2. FreeToWait(wfd)'
    BY <1>3, <2>1, Zenon DEF FreeToWait, Listed, Live, Stale
  <2>3. QED
    BY <1>1, <1>3, <2>1, <2>2, CallWaits, Zenon
<1>4. QED
  BY <1>2, <1>3, Zenon DEF WaitFirst

LEMMA CallDescStep == ASSUME GpioInv, [Next]_vars PROVE CallInv' /\ DescStep
<1>1. TypeOK /\ fdList \in Seq(EntryType)
  BY Typed, Zenon DEF GpioInv, LibTypes
<1>2. CASE UNCHANGED vars
  BY <1>1, <1>2, CallStays, KeptDesc, Zenon DEF vars, SameList
<1>3. ASSUME NEW t \in Threads, Poll(t) \/ PollInterrupted(t) PROVE CallInv' /\ DescStep
  BY <1>1, <1>3, PollKeeps, CallStays, KeptDesc, Zenon
<1>4. ASSUME NEW p \in Pins, Edge(p) PROVE CallInv' /\ DescStep
  BY <1>1, <1>4, CallStays, KeptDesc, Zenon DEF Edge, SameList
<1>5. CASE AddEpoll
  <2>1. mpin \in Pins /\ mpin' = mpin
    BY <1>5, Zenon DEF AddEpoll, GpioInv, CallInv, PinSteps
  <2>2. mpc' \in {"idle", "addthread"}
    BY <1>5, Zenon DEF AddEpoll, Return
  <2>3. QED
    BY <1>5, <2>1, <2>2, AddEpollDesc, CallEnds, CallPin, Zenon
<1>6. CASE RemoveEpoll
  <2>1. mpin \in Pins /\ mpin' = mpin /\ mpc' = "rmflag"
    BY <1>6, Zenon DEF RemoveEpoll, GpioInv, CallInv, PinSteps
  <2>2. QED
    BY <1>6, <2>1, RemoveEpollDesc, CallPin, Zenon
<1>7. CASE Cleanup
  BY <1>7, CleanupDesc, CallCleans, Zenon DEF Cleanup
<1>8. CASE CleanupExports
  <2>1. ~epLive' /\ mpc' \in {"idle", "unexport"}
    BY <1>8, Zenon DEF CleanupExports, GpioInv, CallInv, Return
  <2>2. QED
    BY <1>8, <2>1, CleanupExportsDesc, CallEnds, CallCleans, Zenon
<1>9. CASE WaitEdge
  BY <1>9, WaitEdgeDesc, CallEnds, Zenon DEF WaitEdge, WaitFailed, Return
<1>10. ASSUME NEW p \in Pins, WaitForEdge(p) PROVE CallInv' /\ DescStep
  <2>1. mpin' = p /\ mpc' \in {"idle", "waitopen"} /\ mfd' = FdIn(fdList', p)
    BY <1>10, WaitForEdgeDesc, Lookups, Zenon DEF WaitForEdge, Begin, Return
  <2>2. mpc' = "waitopen" => FreeToWait(wfd)'
    BY <1>10, WaitForEdgeDesc, Zenon DEF FreeToWait
  <2>3. QED
    BY <1>10, <2>1, <2>2, WaitForEdgeDesc, CallEnds, CallWaits, Zenon
<1>11. QED
  BY <1>2, <1>3, <1>4, <1>5, <1>6, <1>7, <1>8, <1>9, <1>10, PlainStep, AddOpenStep, WaitOpenStep,
     WaitFirstStep, InputStep, Zenon DEF Next, Main, InCall

-----------------------------------------------------------------------------
(* The callback lists.                                                      *)
LEMMA CountOwn ==
  ASSUME NEW L, IsFiniteSet(L), NEW n, n \notin L
  PROVE  Count(L, n.gpio) \in Nat /\ Count(L \cup {n}, n.gpio) = Count(L, n.gpio) + 1
<1> DEFINE S == {m \in L : m.gpio = n.gpio}
<1>1. IsFiniteSet(S) /\ Cardinality(S) \in Nat /\ n \notin S
  BY FS_Subset, FS_CardinalityType, Zenon
<1>2. {m \in L \cup {n} : m.gpio = n.gpio} = S \cup {n}
  BY Zenon
<1>3. Cardinality(S \cup {n}) = Cardinality(S) + 1
  BY <1>1, FS_AddElement, Zenon
<1>4. QED
  BY <1>1, <1>2, <1>3, Zenon DEF Count

LEMMA CountOther ==
  ASSUME NEW L, NEW n, NEW p, n.gpio # p
  PROVE  Count(L \cup {n}, p) = Count(L, p)
<1>1. {m \in L \cup {n} : m.gpio = p} = {m \in L : m.gpio = p}
  BY Zenon
<1>2. QED
  BY <1>1, Zenon DEF Count

LEMMA CountDrop ==
  ASSUME NEW L, IsFiniteSet(L), NEW p
  PROVE  /\ IsFiniteSet({n \in L : n.gpio # p})
         /\ Count({n \in L : n.gpio # p}, p) = 0
         /\ \A q : q # p => Count({n \in L : n.gpio # p}, q) = Count(L, q)
<1>1. IsFiniteSet({n \in L : n.gpio # p})
  BY FS_Subset, Zenon
<1>2. {n \in {m \in L : m.gpio # p} : n.gpio = p} = {}
  BY Zenon
<1>3. ASSUME NEW q, q # p
      PROVE  {n \in {m \in L : m.gpio # p} : n.gpio = q} = {n \in L : n.gpio = q}
  BY <1>3, Zenon
<1>4. QED
  BY <1>1, <1>2, <1>3, FS_EmptySet, Zenon DEF Count

(* the steps that leave the lists alone                                     *)
LEMMA ListsKept ==
  ASSUME GpioInv, UNCHANGED listVars, mpc \notin {"cbc", "rmc", "crashed"},
         mpc' \notin {"cbc", "rmc"}, nodes + Pending' <= 2 * calls'
  PROVE  ListsInv'
<1>1. mpc' # "cbc" /\ mpc' # "rmc" /\ UNCHANGED <<cCallbacks, pyCallbacks, nodes>>
  BY SMT DEF listVars
<1>2. QED
  BY <1>1, Zenon DEF GpioInv, ListsInv, Count

LEMMA ListsStay ==
  ASSUME GpioInv, UNCHANGED <<cCallbacks, pyCallbacks, nodes, mpin, calls>>,
         mpc # "crashed", mpc' \in {mpc, "crashed"}
  PROVE  ListsInv'
<1>1. CASE mpc' = mpc
  BY <1>1, Zenon DEF GpioInv, ListsInv, Count, Pending
<1>2. CASE mpc' = "crashed"
  <2>1. Pending \in {0, 1, 2} /\ Pending' = 0
    BY <1>2, SMT DEF Pending
  <2>2. nodes + Pending <= 2 * calls /\ nodes \in Nat /\ calls \in Nat
    BY Typed, SMT DEF GpioInv, ListsInv, NodeTypes, CallTypes
  <2>3. nodes + 0 <= 2 * calls
    BY <2>1, <2>2, SMT
  <2>4. mpc' # "cbc" /\ mpc' # "rmc"
    BY <1>2, SMT
  <2>5. QED
    BY <1>2, <2>1, <2>3, <2>4, Zenon DEF GpioInv, ListsInv, Count
<1>3. QED
  BY <1>1, <1>2, Zenon

LEMMA Room ==
  ASSUME NEW n \in Nat, NEW c \in Nat, NEW a \in {0, 1, 2}, n + a <= 2 * c,
         NEW b \in {0, 1, 2}
  PROVE  n + b <= 2 * (c + 1) /\ (b = 0 \/ a = 2 => n + b <= 2 * c)
  BY SMT

\* a call has room for the callbacks it may still add
LEMMA Budget ==
  ASSUME GpioInv
  PROVE  /\ nodes \in Nat /\ calls \in Nat /\ nodes + Pending <= 2 * calls
         /\ mpc = "idle" /\ calls' = calls + 1 => nodes + Pending' <= 2 * calls'
         /\ /\ calls' = calls
            /\ \/ mpc \in {"addopen", "addepoll", "addthread", "cbpy"}
               \/ mpc' \notin {"addopen", "addepoll", "addthread", "cbpy", "cbc"}
            => nodes + Pending' <= 2 * calls'
<1>1. nodes \in Nat /\ calls \in Nat /\ nodes + Pending <= 2 * calls
  BY Typed, SMT DEF GpioInv, ListsInv, NodeTypes, CallTypes
<1>2. /\ Pending \in {0, 1, 2} /\ Pending' \in {0, 1, 2} /\ (mpc = "idle" => Pending = 0)
      /\ mpc \in {"addopen", "addepoll", "addthread", "cbpy"} => Pending = 2
      /\ mpc' \notin {"addopen", "addepoll", "addthread", "cbpy", "cbc"} => Pending' = 0
  BY SMT DEF Pending
<1>3. mpc = "idle" /\ calls' = calls + 1 => nodes + Pending' <= 2 * calls'
  BY <1>1, <1>2, Room, Zenon
<1>4. ASSUME calls' = calls,
             \/ mpc \in {"addopen", "addepoll", "addthread", "cbpy"}
             \/ mpc' \notin {"addopen", "addepoll", "addthread", "cbpy", "cbc"}
      PROVE  nodes + Pending' <= 2 * calls'
  <2>1. Pending' = 0 \/ Pending = 2
    BY <1>2, <1>4, Zenon
  <2>2. QED
    BY <1>1, <1>2, <1>4, <2>1, Room, Zenon
<1>5. QED
  BY <1>1, <1>3, <1>4, Zenon

\* the calls that do not touch the lists
LEMMA OtherLists ==
  ASSUME GpioInv,
         \/ \E p \in Pins : Setup(p) \/ Input(p) \/ EventDetected(p) \/ AddDetect(p)
                            \/ AddCallback(p) \/ WaitForEdge(p)
         \/ AddOpen \/ AddEpoll \/ AddThread \/ RemoveEpoll \/ RemoveFlag \/ Cleanup
         \/ CleanupStop \/ CleanupExports \/ WaitOpen \/ WaitFirst \/ WaitEdge
  PROVE  ListsInv'
<1>1. UNCHANGED listVars
  BY Zenon DEF Setup, Input, EventDetected, AddDetect, AddCallback, WaitForEdge, AddOpen, AddEpoll,
     AddThread, RemoveEpoll, RemoveFlag, Cleanup, CleanupStop, CleanupExports, WaitOpen,
     WaitFirst, WaitEdge
<1>2. CASE \E p \in Pins : Setup(p)
  <2>1. UNCHANGED <<cCallbacks, pyCallbacks, nodes, mpin, calls, mpc>> /\ mpc # "crashed"
    BY <1>2, Zenon DEF Setup, listVars, mainVars
  <2>2. QED
    BY <2>1, ListsStay, Zenon
<1>3. CASE \/ \E p \in Pins : Input(p) \/ EventDetected(p) \/ AddDetect(p) \/ AddCallback(p)
                              \/ WaitForEdge(p)
           \/ Cleanup
  <2>1. mpc = "idle" /\ calls' = calls + 1
    BY <1>3, Zenon DEF Input, EventDetected, AddDetect, AddCallback, WaitForEdge, Cleanup, Begin
  <2>2. mpc' \in {"idle", "addopen", "cbpy", "waitopen", "stop"}
    BY <1>3, <2>1, Zenon DEF Input, EventDetected, AddDetect, AddCallback, WaitForEdge, Cleanup,
       Return
  <2>3. QED
    BY <1>1, <2>1, <2>2, Budget, ListsKept, SMT
<1>4. CASE AddOpen \/ AddEpoll \/ AddThread
  <2>1. /\ mpc \in {"addopen", "addepoll", "addthread"} /\ calls' = calls
        /\ mpc' \in {"idle", "addepoll", "addthread", "cbpy"}
    BY <1>4, Zenon DEF AddOpen, OpenFailed, AddEpoll, AddThread, Spawn, NextStep, Return
  <2>2. QED
    BY <1>1, <2>1, Budget, ListsKept, SMT
<1>5. CASE \/ RemoveEpoll \/ RemoveFlag \/ CleanupStop \/ CleanupExports \/ WaitOpen \/ WaitFirst
           \/ WaitEdge
  <2>1. /\ mpc \in {"rmepoll", "rmflag", "stop", "unexport", "waitopen", "waitfirst", "waitedge"}
        /\ mpc' \in {"idle", "rmflag", "unexport", "waitfirst", "waitedge"} /\ calls' = calls
    BY <1>5, Zenon DEF RemoveEpoll, RemoveFlag, CleanupStop, CleanupExports, WaitOpen, WaitFirst,
       WaitEdge, WaitFailed, Return
  <2>2. QED
    BY <1>1, <2>1, Budget, ListsKept, SMT
<1>6. QED
  BY <1>2, <1>3, <1>4, <1>5

\* a new node is in neither list
LEMMA NodeNew ==
  ASSUME GpioInv
  PROVE  /\ Node \notin cCallbacks /\ Node \notin pyCallbacks
         /\ Node.id = nodes + 1 /\ Node.gpio = mpin
         /\ \A n \in cCallbacks \cup pyCallbacks : n.id <= nodes + 1
<1>1. nodes \in Nat /\ \A n \in cCallbacks \cup pyCallbacks : n.id \in Nat /\ n.id <= nodes
  BY Typed, NodeNumbers, Zenon DEF GpioInv, NodeTypes, ListsInv
<1>2. Node.id = nodes + 1 /\ Node.gpio = mpin
  BY SMT DEF Node
<1>3. \A n \in cCallbacks \cup pyCallbacks : n.id # nodes + 1 /\ n.id <= nodes + 1
  BY <1>1, SMT
<1>4. QED
  BY <1>2, <1>3, Zenon

LEMMA AddPyLists == ASSUME GpioInv, AddPyCallback PROVE ListsInv'
<1>1. /\ pyCallbacks' = pyCallbacks \cup {Node} /\ nodes' = nodes + 1 /\ cCallbacks' = cCallbacks
      /\ mpc = "cbpy" /\ mpc' = "cbc" /\ calls' = calls /\ mpin' = mpin
  BY Zenon DEF AddPyCallback
<1>2. /\ IsFiniteSet(cCallbacks) /\ IsFiniteSet(pyCallbacks)
      /\ \A p \in Pins : Count(cCallbacks, p) = Count(pyCallbacks, p)
  <2>1. mpc \notin {"cbc", "rmc", "crashed"}
    BY <1>1, SMT
  <2>2. QED
    BY <2>1, Zenon DEF GpioInv, ListsInv
<1>3. IsFiniteSet(pyCallbacks')
  BY <1>1, <1>2, FS_AddElement, Zenon
<1>4. nodes' + Pending' <= 2 * calls'
  <2>1. Pending = 2 /\ Pending' = 1
    BY <1>1, SMT DEF Pending
  <2>2. QED
    BY <1>1, <2>1, Budget, SMT
<1>5. \A n \in cCallbacks' \cup pyCallbacks' : n.id <= nodes'
  <2>1. nodes + 1 <= nodes + 1
    BY Budget, SMT
  <2>2. QED
    BY <1>1, <2>1, NodeNew, Zenon
<1>6. \A p \in Pins : Count(pyCallbacks', p) = IF p = mpin' THEN Count(cCallbacks', p) + 1
                                               ELSE Count(cCallbacks', p)
  <2>1. SUFFICES ASSUME NEW p \in Pins
                 PROVE  Count(pyCallbacks \cup {Node}, p) = IF p = mpin THEN Count(cCallbacks, p) + 1
                                                            ELSE Count(cCallbacks, p)
    BY <1>1, Zenon
  <2>2. PICK n : n = Node
    OBVIOUS
  <2>3. n \notin pyCallbacks /\ n.gpio = mpin
    BY <2>2, NodeNew, Zenon
  <2>4. PICK L : L = pyCallbacks
    OBVIOUS
  <2>5. IsFiniteSet(L) /\ n \notin L
    BY <2>3, <2>4, <1>2, Zenon
  <2>6. Count(L, mpin) \in Nat /\ Count(L \cup {n}, mpin) = Count(L, mpin) + 1
    BY <2>3, <2>5, CountOwn, Zenon
  <2>7. p # mpin => Count(L \cup {n}, p) = Count(L, p)
    BY <2>3, CountOther, Zenon
  <2>8. QED
    BY <2>2, <2>4, <2>6, <2>7, <1>2, Zenon
<1>7. mpc' \in {"cbc", "rmc", "crashed"} /\ mpc' # "rmc"
  BY <1>1, SMT
<1>8. QED
  BY <1>1, <1>2, <1>3, <1>4, <1>5, <1>6, <1>7, Zenon DEF ListsInv, Count

LEMMA AddEdgeLists == ASSUME GpioInv, AddEdgeCallback PROVE ListsInv'
<1>1. /\ cCallbacks' = cCallbacks \cup {Node} /\ nodes' = nodes + 1 /\ pyCallbacks' = pyCallbacks
      /\ mpc = "cbc" /\ mpc' = "idle" /\ calls' = calls
  BY Zenon DEF AddEdgeCallback, Return
<1>2. /\ IsFiniteSet(cCallbacks) /\ IsFiniteSet(pyCallbacks)
      /\ \A p \in Pins : Count(pyCallbacks, p) = IF p = mpin THEN Count(cCallbacks, p) + 1
                                                 ELSE Count(cCallbacks, p)
  BY <1>1, Zenon DEF GpioInv, ListsInv
<1>3. IsFiniteSet(cCallbacks')
  BY <1>1, <1>2, FS_AddElement, Zenon
<1>4. nodes' + Pending' <= 2 * calls'
  <2>1. Pending = 1 /\ Pending' = 0
    BY <1>1, SMT DEF Pending
  <2>2. QED
    BY <1>1, <2>1, Budget, SMT
<1>5. \A n \in cCallbacks' \cup pyCallbacks' : n.id <= nodes'
  <2>1. nodes + 1 <= nodes + 1
    BY Budget, SMT
  <2>2. QED
    BY <1>1, <2>1, NodeNew, Zenon
<1>6. \A p \in Pins : Count(cCallbacks', p) = Count(pyCallbacks', p)
  <2>1. SUFFICES ASSUME NEW p \in Pins
                 PROVE  Count(cCallbacks \cup {Node}, p) = Count(pyCallbacks, p)
    BY <1>1, Zenon
  <2>2. PICK n : n = Node
    OBVIOUS
  <2>3. n \notin cCallbacks /\ n.gpio = mpin
    BY <2>2, NodeNew, Zenon
  <2>4. PICK L : L = cCallbacks
    OBVIOUS
  <2>5. IsFiniteSet(L) /\ n \notin L
    BY <2>3, <2>4, <1>2, Zenon
  <2>6. Count(L, mpin) \in Nat /\ Count(L \cup {n}, mpin) = Count(L, mpin) + 1
    BY <2>3, <2>5, CountOwn, Zenon
  <2>7. p # mpin => Count(L \cup {n}, p) = Count(L, p)
    BY <2>3, CountOther, Zenon
  <2>8. QED
    BY <2>2, <2>4, <2>6, <2>7, <1>2, Zenon
<1>7. mpc' # "cbc" /\ mpc' # "rmc"
  BY <1>1, SMT
<1>8. QED
  BY <1>1, <1>2, <1>3, <1>4, <1>5, <1>6, <1>7, Zenon DEF ListsInv, Count

LEMMA RemoveDetectLists == ASSUME GpioInv, NEW q \in Pins, RemoveDetect(q) PROVE ListsInv'
<1>1. /\ pyCallbacks' = {n \in pyCallbacks : n.gpio # q} /\ cCallbacks' = cCallbacks
      /\ nodes' = nodes /\ mpc = "idle" /\ mpc' = "rmc" /\ calls' = calls + 1 /\ mpin' = q
  BY Zenon DEF RemoveDetect, Begin
<1>2. /\ IsFiniteSet(cCallbacks) /\ IsFiniteSet(pyCallbacks)
      /\ \A p \in Pins : Count(cCallbacks, p) = Count(pyCallbacks, p)
      /\ \A n \in cCallbacks \cup pyCallbacks : n.id <= nodes
  <2>1. mpc \notin {"cbc", "rmc", "crashed"}
    BY <1>1, SMT
  <2>2. QED
    BY <2>1, Zenon DEF GpioInv, ListsInv
<1>3. /\ IsFiniteSet(pyCallbacks')
      /\ Count(pyCallbacks', q) = 0 /\ \A p : p # q => Count(pyCallbacks', p) = Count(pyCallbacks, p)
  <2>1. PICK L : L = pyCallbacks
    OBVIOUS
  <2>2. /\ IsFiniteSet({n \in L : n.gpio # q})
        /\ Count({n \in L : n.gpio # q}, q) = 0
        /\ \A p : p # q => Count({n \in L : n.gpio # q}, p) = Count(L, p)
    <3>1. IsFiniteSet(L)
      BY <2>1, <1>2, Zenon
    <3>2. QED
      BY <3>1, CountDrop
  <2>3. QED
    BY <2>1, <2>2, <1>1, Zenon
<1>4. nodes' + Pending' <= 2 * calls'
  BY <1>1, Budget, Zenon
<1>5. \A p \in Pins : Count(pyCallbacks', p) = IF p = mpin' THEN 0 ELSE Count(cCallbacks', p)
  BY <1>1, <1>2, <1>3, Zenon
<1>6. mpc' \in {"cbc", "rmc", "crashed"} /\ mpc' # "cbc"
  BY <1>1, SMT
<1>7. QED
  BY <1>1, <1>2, <1>3, <1>4, <1>5, <1>6, Zenon DEF ListsInv, Count

LEMMA RemoveCallbacksLists == ASSUME GpioInv, RemoveCallbacks PROVE ListsInv'
<1>1. /\ cCallbacks' = {n \in cCallbacks : n.gpio # mpin} /\ pyCallbacks' = pyCallbacks
      /\ nodes' = nodes /\ mpc = "rmc" /\ mpc' = "rmepoll" /\ calls' = calls
  BY Zenon DEF RemoveCallbacks, remove_callbacks
<1>2. /\ IsFiniteSet(cCallbacks) /\ IsFiniteSet(pyCallbacks)
      /\ \A p \in Pins : Count(pyCallbacks, p) = IF p = mpin THEN 0 ELSE Count(cCallbacks, p)
      /\ \A n \in cCallbacks \cup pyCallbacks : n.id <= nodes
  BY <1>1, Zenon DEF GpioInv, ListsInv
<1>3. /\ IsFiniteSet(cCallbacks')
      /\ Count(cCallbacks', mpin) = 0 /\ \A p : p # mpin => Count(cCallbacks', p) = Count(cCallbacks, p)
  <2>1. PICK L, q : L = cCallbacks /\ q = mpin
    OBVIOUS
  <2>2. /\ IsFiniteSet({n \in L : n.gpio # q})
        /\ Count({n \in L : n.gpio # q}, q) = 0
        /\ \A p : p # q => Count({n \in L : n.gpio # q}, p) = Count(L, p)
    <3>1. IsFiniteSet(L)
      BY <2>1, <1>2, Zenon
    <3>2. QED
      BY <3>1, CountDrop
  <2>3. QED
    BY <2>1, <2>2, <1>1, Zenon
<1>4. nodes' + Pending' <= 2 * calls'
  <2>1. mpc' \notin {"addopen", "addepoll", "addthread", "cbpy", "cbc"}
    BY <1>1, SMT
  <2>2. QED
    BY <1>1, <2>1, Budget, Zenon
<1>5. \A p \in Pins : Count(cCallbacks', p) = Count(pyCallbacks', p)
  BY <1>1, <1>2, <1>3, Zenon
<1>6. mpc' # "cbc" /\ mpc' # "rmc"
  BY <1>1, SMT
<1>7. QED
  BY <1>1, <1>2, <1>3, <1>4, <1>5, <1>6, Zenon DEF ListsInv, Count

LEMMA ListsStep == ASSUME GpioInv, [Next]_vars PROVE ListsInv'
<1>1. TypeOK
  BY DEF GpioInv
<1>2. CASE UNCHANGED vars
  BY <1>2, Zenon DEF vars, GpioInv, ListsInv, Count, Pending
<1>3. ASSUME NEW t \in Threads, Poll(t) \/ PollInterrupted(t) PROVE ListsInv'
  <2>1. /\ UNCHANGED <<cCallbacks, pyCallbacks, nodes, mpin, calls>>
        /\ mpc # "crashed" /\ mpc' \in {mpc, "crashed"}
    BY <1>1, <1>3, PollKeeps, Zenon DEF listVars
  <2>2. QED
    BY <2>1, ListsStay, Zenon
<1>4. ASSUME NEW p \in Pins, Edge(p) PROVE ListsInv'
  BY <1>4, ListsStay, Zenon DEF Edge, listVars
<1>5. QED
  BY <1>2, <1>3, <1>4, OtherLists, AddPyLists, AddEdgeLists, RemoveDetectLists,
     RemoveCallbacksLists, Zenon DEF Next, Main, InCall

-----------------------------------------------------------------------------
(* The theorems that hold of every program.                                 *)
LEMMA GpioInit == Init => GpioInv
<1>1. SUFFICES ASSUME Init PROVE GpioInv
  OBVIOUS
<1>2. TypeOK
  BY <1>1, InitTypes
<1>3. CallInv
  BY <1>1, SMT DEF Init, CallInv, PinSteps
<1>4. ListsInv
  <2>1. /\ IsFiniteSet({}) /\ Pending = 0 /\ calls = 0 /\ nodes = 0
        /\ mpc # "cbc" /\ mpc # "rmc" /\ cCallbacks = {} /\ pyCallbacks = {}
    BY <1>1, FS_EmptySet, SMT DEF Init, Pending
  <2>2. nodes + Pending <= 2 * calls
    BY <2>1, SMT
  <2>3. QED
    BY <2>1, <2>2, Zenon DEF ListsInv
<1>5. EpollInv
  BY <1>1, Zenon DEF Init, EpollInv
<1>6. DescriptorsConsistent
  <2>1. fdList = <<>> /\ DOMAIN fdList = {} /\ used = {} /\ epLive = FALSE
    BY <1>1, SMT DEF Init
  <2>2. DescriptorsListed
    BY <2>1, Zenon DEF DescriptorsListed, Listed, Live, Stale
  <2>3. QED
    BY <2>1, <2>2, Zenon DEF DescriptorsConsistent, RegisteredHasEdge
<1>7. QED
  BY <1>2, <1>3, <1>4, <1>5, <1>6 DEF GpioInv

LEMMA GpioStep == GpioInv /\ [Next]_vars => GpioInv'
  BY TypeStep, CallDescStep, ListsStep, Zenon DEF GpioInv, DescStep

\* What every program of calls preserves, whatever the threads do in between.
THEOREM GpioInvariant == Spec => []GpioInv
  BY GpioInit, GpioStep, PTL DEF Spec

\* Every variable keeps its type: no lookup, descriptor or list leaves its range.
THEOREM TypesCorrect == Spec => []TypeOK
<1>1. GpioInv => TypeOK
  BY DEF GpioInv
<1>2. QED
  BY <1>1, GpioInvariant, PTL

\* Between two calls the library and the module hold the same number of callbacks of each
\* pin (py_gpio.c adds and removes them in two steps).
THEOREM CallbacksPaired == Spec => []CallbackListsAgree
<1>1. GpioInv => CallbackListsAgree
  <2>1. mpc = "idle" => mpc \notin {"cbc", "rmc", "crashed"}
    BY SMT
  <2>2. QED
    BY <2>1, Zenon DEF GpioInv, ListsInv, CallbackListsAgree
<1>2. QED
  BY <1>1, GpioInvariant, PTL

\* The library accounts for every descriptor it holds and every pin registered with
\* epoll, but for the number cleanup() leaves in epfd.
THEOREM DescriptorsAccounted == Spec => []DescriptorsConsistent
<1>1. GpioInv => DescriptorsConsistent
  BY DEF GpioInv
<1>2. QED
  BY <1>1, GpioInvariant, PTL

-----------------------------------------------------------------------------
(* Programs that do not clean up: the poll threads stay.                     *)
NoCleanup == "cleanup" \notin Calls /\ MaxThreads > 0

LEMMA ServeInit == NoCleanup /\ Init => ServeInv
<1>1. SUFFICES ASSUME Init PROVE ServeInv
  OBVIOUS
<1>2. \A t \in Threads : thread[t].pc = "none"
  BY <1>1, SMT DEF Init, Idle
<1>3. mpc = "idle" /\ epfd = 0 /\ epLive = FALSE /\ running = FALSE /\ epSet = {}
  BY <1>1, Zenon DEF Init
<1>4. QED
  BY <1>2, <1>3, SMT DEF ServeInv, Alive

\* the main thread leaves the threads alone, and fd_list keeps its descriptors
LEMMA ServeSame ==
  ASSUME ServeInv, UNCHANGED <<thread, running, epfd, epLive, interrupts>>, epSet' \subseteq epSet,
         Listed \subseteq Listed', mpc # "addthread", mpc' \notin {"stop", "unexport", "addthread"}
  PROVE  ServeInv'
<1>1. \A t \in Threads : Alive(t)' = Alive(t)
  BY Zenon DEF Alive
<1>2. epSet' # {} => epSet # {}
  BY Zenon
<1>3. QED
  BY <1>1, <1>2, Zenon DEF ServeInv

\* a thread that is in epoll goes on, as do all while none was interrupted
LEMMA ServeGoesOn ==
  ASSUME ServeInv, NEW t \in Threads, Alive(t), Others(t), thread'[t].pc \notin {"none", "gone"},
         interrupts = 0 => running' /\ thread'[t].pc # "leave",
         thread'[t].pc \in {"read", "look"} => thread'[t].fd \in Listed,
         Listed' = Listed, UNCHANGED <<epfd, epLive, epSet, interrupts, mpc>>
  PROVE  ServeInv'
<1>1. Alive(t)' /\ \A u \in Threads : u # t => Alive(u)' = Alive(u)
  BY Zenon DEF Alive, Others
<1>2. \A u \in Threads : Alive(u)' => epLive'
  BY <1>1, Zenon DEF ServeInv
<1>3. \A u \in Threads : thread'[u].pc \in {"read", "look"} => thread'[u].fd \in Listed'
  BY Zenon DEF ServeInv, Others
<1>4. \E u \in Threads : Alive(u)'
  BY <1>1, Zenon
<1>5. ASSUME interrupts' = 0, NEW u \in Threads
      PROVE  /\ thread'[u].pc \notin {"gone", "leave"}
             /\ thread'[u].pc \notin {"none", "start"} => running'
  <2>1. CASE u = t
    BY <2>1, <1>5, SMT
  <2>2. CASE u # t
    BY <2>2, <1>5, Zenon DEF ServeInv, Others
  <2>3. QED
    BY <2>1, <2>2
<1>6. QED
  BY <1>2, <1>3, <1>4, <1>5, Zenon DEF ServeInv

\* an interrupted thread ends, or one that finds thread_running reset by it
LEMMA ServeEnds ==
  ASSUME GpioInv, ServeInv, NEW t \in Threads, AtPC(t, "leave") \/ PollInterrupted(t), Exit(t),
         interrupts' \in {interrupts, interrupts + 1}, interrupts' # 0,
         UNCHANGED <<epfd, epLive, epSet, mpc>>, Listed' = Listed
  PROVE  ServeInv'
<1>1. Others(t) /\ thread'[t].pc = "gone" /\ ~running'
  BY Typed, ThreadGoes, Zenon DEF GpioInv, Exit, ThreadPCs
<1>2. interrupts' > 0
  <2>1. interrupts \in Nat
    BY Typed, SMT DEF GpioInv, HistoryTypes
  <2>2. QED
    BY <2>1, SMT
<1>3. ASSUME NEW u \in Threads
      PROVE  /\ Alive(u)' => Alive(u)
             /\ thread'[u].pc \in {"read", "look"} => thread'[u].fd \in Listed'
  <2>1. CASE u = t
    BY <2>1, <1>1, SMT DEF Alive
  <2>2. CASE u # t
    BY <2>2, <1>1, Zenon DEF ServeInv, Others, Alive
  <2>3. QED
    BY <2>1, <2>2
<1>4. \A u \in Threads : Alive(u)' => epLive'
  BY <1>3, Zenon DEF ServeInv
<1>5. QED
  BY <1>1, <1>2, <1>3, <1>4, Zenon DEF ServeInv

LEMMA ServePoll ==
  ASSUME GpioInv, ServeInv, NEW t \in Threads, Poll(t) \/ PollInterrupted(t)
  PROVE  ServeInv'
<1>1. TypeOK /\ ThreadTypes /\ fdList \in Seq(EntryType) /\ KernelTypes
  BY Typed, Zenon DEF GpioInv, LibTypes
<1>2. /\ UNCHANGED <<epfd, epLive, epSet>> /\ SameList(fdList, fdList') /\ Listed' = Listed
      /\ mpc' \in {mpc, "crashed"}
  BY <1>1, PollKeeps, SameLookups, ListedParts, Zenon
<1>3. CASE PollStart(t)
  <2>1. /\ Alive(t) /\ Others(t) /\ thread'[t].pc = "check" /\ running'
        /\ UNCHANGED <<mpc, interrupts>>
    BY <1>1, <1>3, ThreadGoes, Zenon DEF PollStart, AtPC, Alive, ThreadPCs, mainVars, histVars
  <2>2. QED
    BY <1>2, <2>1, ServeGoesOn, Zenon
<1>4. CASE PollCheck(t)
  <2>1. Alive(t) /\ (interrupts = 0 => running)
    BY <1>4, Zenon DEF PollCheck, AtPC, Alive, ServeInv
  <2>2. /\ Others(t) /\ UNCHANGED <<mpc, running, interrupts>>
        /\ thread'[t].pc = IF running THEN "enter" ELSE "leave"
    BY <1>1, <1>4, ThreadGoes, Zenon DEF PollCheck, ThreadPCs, mainVars, histVars
  <2>3. /\ thread'[t].pc \notin {"none", "gone", "read", "look"}
        /\ running => thread'[t].pc # "leave"
    BY <2>2, SMT
  <2>4. QED
    BY <1>2, <2>1, <2>2, <2>3, ServeGoesOn, Zenon
<1>5. CASE PollEnter(t)
  <2>1. Alive(t) /\ (interrupts = 0 => running) /\ epLive
    BY <1>5, Zenon DEF PollEnter, AtPC, Alive, ServeInv
  <2>2. /\ Others(t) /\ thread'[t].pc = "wait" /\ UNCHANGED <<mpc, running, interrupts>>
    BY <1>1, <1>5, <2>1, ThreadGoes, Zenon DEF PollEnter, ThreadPCs, mainVars, histVars
  <2>3. QED
    BY <1>2, <2>1, <2>2, ServeGoesOn, Zenon
<1>6. CASE PollWait(t)
  <2>1. Alive(t) /\ (interrupts = 0 => running) /\ epLive
    BY <1>6, Zenon DEF PollWait, AtPC, Alive, ServeInv
  <2>2. PICK f \in ready : thread' = [thread EXCEPT ![t] = [@ EXCEPT !.pc = "read", !.fd = f]]
    BY <1>6, Zenon DEF PollWait
  <2>3. f \in Fds /\ f \in Listed
    BY <1>1, <2>1, OpenListed, ListedParts, Zenon DEF KernelTypes
  <2>4. Others(t) /\ thread'[t].pc = "read" /\ thread'[t].fd = f
    BY <1>1, <2>2, <2>3, ThreadTakes, Zenon
  <2>5. UNCHANGED <<mpc, running, interrupts>>
    BY <1>6, Zenon DEF PollWait, mainVars, histVars
  <2>6. QED
    BY <1>2, <2>1, <2>3, <2>4, <2>5, ServeGoesOn, Zenon
<1>7. CASE PollRead(t)
  <2>1. Alive(t) /\ (interrupts = 0 => running) /\ thread[t].fd \in Listed
    BY <1>7, Zenon DEF PollRead, AtPC, Alive, ServeInv
  <2>2. gpio_lookup(thread[t].fd) # 0
    <3>1. PICK f : f = thread[t].fd
      OBVIOUS
    <3>2. PinIn(fdList, f) # 0
      BY <1>1, <2>1, <3>1, ListedParts, PinFound, Zenon DEF FdsOf
    <3>3. QED
      BY <3>1, <3>2, Lookups, Zenon
  <2>3. /\ Others(t) /\ thread'[t].pc = "look" /\ thread'[t].fd = thread[t].fd
        /\ UNCHANGED <<mpc, running, interrupts>>
    BY <1>1, <1>7, <2>2, ThreadGoes, Zenon DEF PollRead, ThreadPCs, mainVars, histVars
  <2>4. QED
    BY <1>2, <2>1, <2>3, ServeGoesOn, Zenon
<1>8. CASE PollLookup(t)
  <2>1. /\ Alive(t) /\ (interrupts = 0 => running)
        /\ gpio_lookup(thread[t].fd) \in Pins \cup {0}
    BY <1>1, <1>8, LookupTypes, Zenon DEF PollLookup, AtPC, Alive, ServeInv
  <2>2. Others(t) /\ thread'[t].pc = "test" /\ UNCHANGED <<mpc, running, interrupts>>
    BY <1>1, <1>8, <2>1, ThreadLooks, Zenon DEF PollLookup, mainVars, histVars
  <2>3. QED
    BY <1>2, <2>1, <2>2, ServeGoesOn, Zenon
<1>9. CASE PollTest(t)
  <2>1. Alive(t) /\ (interrupts = 0 => running)
    BY <1>9, Zenon DEF PollTest, AtPC, Alive, ServeInv
  <2>2. /\ Others(t) /\ thread'[t].pc \in {"check", "run"}
        /\ UNCHANGED <<mpc, running, interrupts>>
    BY <1>1, <1>9, <2>1, ThreadGoes, Zenon DEF PollTest, AfterInitial, ThreadPCs, mainVars, histVars
  <2>3. thread'[t].pc \notin {"none", "gone", "leave", "read", "look"}
    BY <2>2, SMT
  <2>4. QED
    BY <1>2, <2>1, <2>2, <2>3, ServeGoesOn, Zenon
<1>10. CASE RunCallbacks(t) \/ CallbackNode(t) \/ CallbackNext(t) \/ PyNode(t)
            \/ PyCall(t) \/ PyReturn(t)
  <2>1. Moves(t)
    BY <1>1, <1>10, WalkMoves
  <2>2. thread[t].pc \notin {"none", "gone", "start"}
    BY <2>1, SMT DEF Moves, Walking
  <2>3. Alive(t) /\ (interrupts = 0 => running) /\ UNCHANGED <<running, interrupts>>
    BY <2>1, <2>2, Zenon DEF Alive, ServeInv, Moves, WalkUnchanged
  <2>4. CASE mpc' = "crashed" /\ UNCHANGED thread
    <3>1. \A u \in Threads : Alive(u)' = Alive(u)
      BY <2>4, Zenon DEF Alive
    <3>2. QED
      BY <1>2, <2>3, <2>4, <3>1, Zenon DEF ServeInv
  <2>5. CASE UNCHANGED mpc /\ Others(t) /\ thread'[t].pc \in Walking
    <3>1. thread'[t].pc \notin {"none", "gone", "leave", "read", "look"}
      BY <2>5, SMT DEF Walking
    <3>2. QED
      BY <1>2, <2>3, <2>5, <3>1, ServeGoesOn, Zenon
  <2>6. QED
    BY <2>1, <2>4, <2>5, Zenon DEF Moves
<1>11. CASE PollLeave(t)
  <2>1. interrupts # 0 /\ AtPC(t, "leave") /\ Exit(t) /\ UNCHANGED <<mpc, interrupts>>
    BY <1>11, Zenon DEF PollLeave, AtPC, ServeInv, mainVars, histVars
  <2>2. QED
    BY <1>2, <2>1, ServeEnds, Zenon
<1>12. CASE PollInterrupted(t)
  <2>1. interrupts' = interrupts + 1 /\ Exit(t) /\ UNCHANGED mpc
    BY <1>12, Zenon DEF PollInterrupted, mainVars
  <2>2. interrupts' # 0
    BY <2>1, Typed, SMT DEF GpioInv, HistoryTypes
  <2>3. QED
    BY <1>2, <1>12, <2>1, <2>2, ServeEnds, Zenon
<1>13. QED
  BY <1>3, <1>4, <1>5, <1>6, <1>7, <1>8, <1>9, <1>10, <1>11, <1>12, Zenon DEF Poll

LEMMA ServeEpoll == ASSUME GpioInv, ServeInv, AddEpoll PROVE ServeInv'
<1>1. UNCHANGED <<thread, running, fdList, interrupts>> /\ mpc = "addepoll"
  BY Zenon DEF AddEpoll
<1>2. Listed' = Listed /\ \A t \in Threads : Alive(t)' = Alive(t)
  BY <1>1, Zenon DEF Listed, Alive
<1>3. /\ epfd' # 0 => epLive'
      /\ epLive => epLive'
  <2>1. CASE NewInstance
    BY <2>1, Zenon DEF NewInstance
  <2>2. CASE UNCHANGED <<epfd, epLive, used>>
    BY <2>2, Zenon DEF ServeInv
  <2>3. QED
    BY <2>1, <2>2, Zenon DEF AddEpoll
<1>4. \/ mpc' = "addthread" /\ epLive'
      \/ mpc' = "idle" /\ epSet' = epSet
  BY Zenon DEF AddEpoll, Return
<1>5. mpc # "addthread" /\ mpc' \notin {"stop", "unexport"} /\ (mpc' = "addthread" => epLive')
      /\ (mpc' # "addthread" => epSet' = epSet)
  BY <1>1, <1>4, SMT
<1>6. QED
  BY <1>1, <1>2, <1>3, <1>5, Zenon DEF ServeInv

\* a thread is started unless there is one already
LEMMA ServeThread == ASSUME NoCleanup, GpioInv, ServeInv, AddThread PROVE ServeInv'
<1>1. /\ UNCHANGED <<epfd, epLive, running, fdList, interrupts>> /\ mpc = "addthread" /\ epLive
      /\ mpc' \in {"idle", "cbpy"} /\ Listed' = Listed
  BY Zenon DEF AddThread, Spawn, NextStep, Return, kernelVars, histVars, ServeInv, Listed
<1>2. CASE UNCHANGED thread /\ \E t \in Threads : Alive(t)
  <2>1. \A t \in Threads : Alive(t)' = Alive(t)
    BY <1>2, Zenon DEF Alive
  <2>2. QED
    BY <1>1, <1>2, <2>1, Zenon DEF ServeInv
<1>3. ASSUME ~running, NEW t \in Threads, thread' = [thread EXCEPT ![t] = [Idle EXCEPT !.pc = "start"]]
      PROVE  ServeInv'
  <2>1. ThreadTypes
    BY Typed, Zenon DEF GpioInv
  <2>2. [Idle EXCEPT !.pc = "start"] \in ThreadType /\ [Idle EXCEPT !.pc = "start"].pc = "start"
    BY SMT DEF Idle, ThreadType, ThreadPCs
  <2>3. Others(t) /\ thread'[t].pc = "start"
    <3>1. PICK e \in ThreadType : e = [Idle EXCEPT !.pc = "start"]
      BY <2>2, Zenon
    <3>2. QED
      BY <1>3, <2>1, <2>2, <3>1, ThreadChanged, Zenon
  <2>4. Alive(t)' /\ \A u \in Threads : u # t => Alive(u)' = Alive(u)
    BY <2>3, Zenon DEF Alive, Others
  <2>5. ASSUME NEW u \in Threads
        PROVE  /\ interrupts' = 0 => /\ thread'[u].pc \notin {"gone", "leave"}
                                     /\ thread'[u].pc \notin {"none", "start"} => running'
               /\ thread'[u].pc \in {"read", "look"} => thread'[u].fd \in Listed'
    <3>1. CASE u = t
      BY <3>1, <2>3, SMT
    <3>2. CASE u # t
      BY <3>2, <2>3, <2>4, <1>1, Zenon DEF ServeInv, Others
    <3>3. QED
      BY <3>1, <3>2
  <2>6. mpc' \notin {"stop", "unexport"}
    BY <1>1, SMT
  <2>7. QED
    BY <1>1, <2>4, <2>5, <2>6, Zenon DEF ServeInv
<1>4. CASE ~running /\ UNCHANGED thread /\ \A t \in Threads : thread[t].pc \notin {"none", "gone"}
  <2>1. 1 \in Threads
    BY GpioAssumption, SMT DEF NoCleanup, Threads
  <2>2. QED
    BY <1>2, <1>4, <2>1, Zenon DEF Alive
<1>5. CASE running /\ UNCHANGED thread
  BY <1>2, <1>5, Zenon DEF ServeInv
<1>6. QED
  BY <1>3, <1>4, <1>5, Zenon DEF AddThread, ThreadNeeded, Spawn

\* what the lists of descriptors can lose: nothing, unless a call cleans up
LEMMA ListedGrows ==
  ASSUME GpioInv,
         \/ \E p \in Pins : Setup(p) \/ Input(p) \/ EventDetected(p) \/ AddDetect(p)
                            \/ AddCallback(p) \/ RemoveDetect(p) \/ WaitForEdge(p)
         \/ AddOpen \/ AddPyCallback \/ AddEdgeCallback \/ RemoveCallbacks \/ RemoveEpoll
         \/ RemoveFlag \/ WaitOpen \/ WaitFirst \/ WaitEdge
  PROVE  Listed \subseteq Listed'
<1>1. fdList \in Seq(EntryType) /\ (mpc \in PinSteps => mpin \in Pins)
  BY Typed, Zenon DEF GpioInv, LibTypes, CallInv
<1>2. \/ fdList' = fdList
      \/ \E p \in Pins, e \in BOOLEAN : fdList' = Mark(p, e)
      \/ \E p \in Pins : FreeFds # {} /\ fdList' = <<Entry(p, LowestFree)>> \o fdList
  BY <1>1, Zenon DEF Setup, Input, EventDetected, AddDetect, AddCallback, RemoveDetect, WaitForEdge,
     AddOpen, OpenFailed, AddPyCallback, AddEdgeCallback, RemoveCallbacks, RemoveEpoll,
     RemoveFlag, WaitOpen, WaitFirst, WaitEdge, WaitFailed, PinSteps
<1>3. CASE fdList' = fdList
  BY <1>3, Zenon DEF Listed
<1>4. ASSUME NEW p \in Pins, NEW e \in BOOLEAN, fdList' = Mark(p, e) PROVE Listed \subseteq Listed'
  BY <1>1, <1>4, MarkSame, SameLookups, ListedParts, Zenon
<1>5. ASSUME NEW p \in Pins, FreeFds # {}, fdList' = <<Entry(p, LowestFree)>> \o fdList
      PROVE  Listed \subseteq Listed'
  <2>1. PICK f \in Fds : f = LowestFree
    BY <1>5, LowestFreeIsFree, Zenon
  <2>2. Longer(fdList, fdList', p, f)
    BY <1>1, <1>5, <2>1, EntryLonger, Zenon
  <2>3. FdsOf(fdList') = FdsOf(fdList) \cup {f}
    BY <1>1, <2>1, <2>2, LongerLookups, Zenon
  <2>4. QED
    BY <2>3, ListedParts, Zenon
<1>6. QED
  BY <1>2, <1>3, <1>4, <1>5

LEMMA ServeOther ==
  ASSUME NoCleanup, GpioInv, ServeInv,
         \/ \E p \in Pins : Setup(p) \/ Input(p) \/ EventDetected(p) \/ AddDetect(p)
                            \/ AddCallback(p) \/ RemoveDetect(p) \/ WaitForEdge(p)
         \/ AddOpen \/ AddPyCallback \/ AddEdgeCallback \/ RemoveCallbacks \/ RemoveEpoll
         \/ RemoveFlag \/ WaitOpen \/ WaitFirst \/ WaitEdge
  PROVE  ServeInv'
<1>1. Listed \subseteq Listed'
  BY ListedGrows
<1>2. UNCHANGED <<thread, running, epfd, epLive, interrupts>> /\ epSet' \subseteq epSet
  BY Zenon DEF Setup, Input, EventDetected, AddDetect, AddCallback, RemoveDetect, WaitForEdge,
     AddOpen, AddPyCallback, AddEdgeCallback, RemoveCallbacks, RemoveEpoll, Unregister, RemoveFlag,
     WaitOpen, WaitFirst, WaitEdge, kernelVars, histVars
<1>3. /\ mpc \in {"idle", "addopen", "cbpy", "cbc", "rmc", "rmepoll", "rmflag", "waitopen", "waitfirst",
                 "waitedge"}
      /\ mpc' \in {"idle", "addopen", "addepoll", "cbpy", "cbc", "rmc", "rmepoll", "rmflag", "waitopen",
                  "waitfirst", "waitedge"}
  BY Zenon DEF Setup, Input, EventDetected, AddDetect, AddCallback, RemoveDetect, WaitForEdge,
     AddOpen, OpenFailed, AddPyCallback, AddEdgeCallback, RemoveCallbacks, RemoveEpoll, RemoveFlag,
     WaitOpen, WaitFirst, WaitEdge, WaitFailed, Begin, Return, mainVars
<1>4. mpc # "addthread" /\ mpc' \notin {"stop", "unexport", "addthread"}
  BY <1>3, SMT
<1>5. QED
  BY <1>1, <1>2, <1>4, ServeSame, Zenon

LEMMA ServeStep == ASSUME NoCleanup, GpioInv, ServeInv, [Next]_vars PROVE ServeInv'
<1>1. CASE UNCHANGED vars
  BY <1>1, Zenon DEF vars, ServeInv, Alive, Listed
<1>2. ASSUME NEW p \in Pins, Edge(p) PROVE ServeInv'
  BY <1>2, Zenon DEF Edge, ServeInv, Alive, Listed
<1>3. ~Cleanup /\ ~CleanupStop /\ ~CleanupExports
  BY SMT DEF NoCleanup, Cleanup, CleanupStop, CleanupExports, Begin, ServeInv
<1>4. QED
  BY <1>1, <1>2, <1>3, ServePoll, ServeEpoll, ServeThread, ServeOther, Zenon DEF Next, Main, InCall

\* As long as the program does not clean up, a poll thread serves every registered
\* descriptor between two calls, although thread_running is read without a lock, before
\* a thread just started has set it; only a signal ends the thread, and never without
\* thread_running saying so, which is what the next add_event_detect() asks.
THEOREM DetectionAlways == NoCleanup => (Spec => []DetectionServed)
<1>1. ASSUME NoCleanup PROVE Spec => []DetectionServed
  <2>1. Init => ServeInv
    BY <1>1, ServeInit
  <2>2. GpioInv /\ ServeInv /\ [Next]_vars => ServeInv'
    BY <1>1, ServeStep
  <2>3. GpioInv /\ ServeInv => DetectionServed
    <3>1. SUFFICES ASSUME ServeInv, mpc = "idle", epSet # {}
                   PROVE  (\E t \in Threads : Alive(t)) \/ (interrupts > 0 /\ ~running)
      BY Zenon DEF DetectionServed
    <3>2. mpc # "addthread"
      BY <3>1, SMT
    <3>3. QED
      BY <3>1, <3>2, Zenon DEF ServeInv
  <2>4. QED
    BY <2>1, <2>2, <2>3, GpioInvariant, PTL DEF Spec
<1>2. QED
  BY <1>1

-----------------------------------------------------------------------------
(* Programs that take no detection back either: one report of a pin at most is *)
(* on its way until the pin has an edge.                                    *)
NoRemoval == NoCleanup /\ "remove" \notin Calls

InitialIn(s, p) == \E i \in DOMAIN s : s[i].gpio = p /\ s[i].initial
AllInitial(s, p) == \A i \in DOMAIN s : s[i].gpio = p => s[i].initial

LEMMA InitialLookups ==
  ASSUME NEW p
  PROVE  /\ gpio_initial(p) <=> InitialIn(fdList, p)
         /\ gpio_initial(p)' <=> InitialIn(fdList', p)
         /\ (\A i \in EntriesOf(p) : fdList[i].initial) <=> AllInitial(fdList, p)
         /\ (\A i \in EntriesOf(p) : fdList[i].initial)' <=> AllInitial(fdList', p)
  BY Zenon DEF gpio_initial, EntriesOf, InitialIn, AllInitial

LEMMA LongerInitial ==
  ASSUME NEW s \in Seq(EntryType), NEW p \in Pins, NEW f \in Fds, NEW t, Longer(s, t, p, f), NEW q
  PROVE  (InitialIn(s, q) => InitialIn(t, q)) /\ (AllInitial(s, q) => AllInitial(t, q))
<1>1. DOMAIN s = 1 .. Len(s) /\ Len(s) \in Nat
  BY ListFields, Zenon
<1>2. DOMAIN t = 1 .. Len(s) + 1 /\ t[1].initial = TRUE /\ \A i \in DOMAIN s : t[i + 1] = s[i]
  BY SMT DEF Longer, Entry
<1> DEFINE up(i) == i + 1
<1>3. /\ \A i \in DOMAIN s : up(i) \in DOMAIN t /\ t[up(i)] = s[i]
      /\ \A j \in DOMAIN t : j = 1 \/ \E i \in DOMAIN s : j = up(i)
  <2>1. \A i \in DOMAIN s : up(i) \in DOMAIN t /\ t[up(i)] = s[i]
    BY <1>1, <1>2, SMT
  <2>2. ASSUME NEW j \in DOMAIN t, j # 1 PROVE \E i \in DOMAIN s : j = up(i)
    <3>1. j - 1 \in DOMAIN s /\ j = up(j - 1)
      BY <2>2, <1>1, <1>2, SMT
    <3> HIDE DEF up
    <3>2. QED
      BY <3>1, Zenon
  <2> HIDE DEF up
  <2>3. QED
    BY <2>1, <2>2, Zenon
<1> HIDE DEF up
<1>4. InitialIn(s, q) => InitialIn(t, q)
  BY <1>3, Zenon DEF InitialIn
<1>5. ASSUME AllInitial(s, q), NEW j \in DOMAIN t, t[j].gpio = q PROVE t[j].initial
  <2>1. CASE j = 1
    BY <2>1, <1>2, SMT
  <2>2. CASE \E i \in DOMAIN s : j = up(i)
    BY <2>2, <1>3, <1>5, Zenon DEF AllInitial
  <2>3. QED
    BY <2>1, <2>2, <1>3, Zenon
<1>6. QED
  BY <1>4, <1>5, Zenon DEF AllInitial

\* without cleanup(), the list's descriptors are apart, in use, and what is registered
\* is listed
LEMMA ServeLists ==
  ASSUME GpioInv, ServeInv
  PROVE  /\ fdList \in Seq(EntryType) /\ OnePerPin(fdList) /\ Apart(fdList, {})
         /\ FdsOf(fdList) \subseteq used /\ Listed = FdsOf(fdList)
         /\ epSet \subseteq FdsOf(fdList) /\ ready \subseteq epSet /\ epSet \subseteq Fds
         /\ \A p, f : Maps(p, f) <=> MapsIn(fdList, p, f)
<1>1. fdList \in Seq(EntryType) /\ ready \subseteq epSet /\ epSet \subseteq Fds
  BY Typed, Zenon DEF GpioInv, LibTypes, KernelTypes
<1>2. Covered(fdList, used, Live, Stale)
  BY ListedParts, Zenon DEF GpioInv, DescriptorsConsistent
<1>3. CASE epLive
  BY <1>1, <1>2, <1>3, OpenListed, ListedParts, Zenon DEF Covered, Maps, MapsIn
<1>4. CASE ~epLive
  <2>1. epfd = 0 /\ epSet = {}
    BY <1>4, Zenon DEF ServeInv, GpioInv, EpollInv
  <2>2. Covered(fdList, used, {}, {0})
    BY <1>2, <1>4, <2>1, ListedParts, Zenon
  <2>3. \A i \in DOMAIN fdList : fdList[i].fd # 0
    BY <1>1, ListFields, PinsPositive, Zenon
  <2>4. Apart(fdList, {}) /\ FdsOf(fdList) \subseteq used
    BY <2>2, <2>3, Zenon DEF Covered, Apart, FdsOf
  <2>5. QED
    BY <1>1, <2>1, <2>2, <2>4, ListedParts, Zenon DEF Covered, Maps, MapsIn
<1>5. QED
  BY <1>3, <1>4

\* a pin's descriptor is its only one, and no other pin's
LEMMA MapsOne ==
  ASSUME GpioInv, ServeInv, NEW p \in Pins, NEW q \in Pins, NEW f \in Fds, NEW g \in Fds,
         Maps(p, f), Maps(q, g)
  PROVE  p = q <=> f = g
<1>1. MapsIn(fdList, p, f) /\ MapsIn(fdList, q, g)
  BY ServeLists, Zenon
<1>2. /\ FdIn(fdList, p) = f /\ PinIn(fdList, f) = p
      /\ FdIn(fdList, q) = g /\ PinIn(fdList, g) = q
  BY <1>1, ServeLists, LookupsPair, Zenon
<1>3. QED
  BY <1>2, Zenon

\* A pin about which nothing new is known and nothing more is on its way.
LEMMA ReportFewer ==
  ASSUME NEW p \in Pins, ReportOf(p), p \notin real' => p \notin real,
         Registered(p) => Registered(p)', occurred'[p] => occurred[p], Ready(p)' => Ready(p),
         \A t \in Threads : Handles(t, p)' => Handles(t, p),
         InitialIn(fdList, p) => InitialIn(fdList', p), AllInitial(fdList, p) => AllInitial(fdList', p)
  PROVE  ReportOf(p)'
<1>1. /\ gpio_initial(p) => gpio_initial(p)'
      /\ (\A i \in EntriesOf(p) : fdList[i].initial) => (\A i \in EntriesOf(p) : fdList[i].initial)'
  BY InitialLookups, Zenon
<1>2. ASSUME p \notin real'
      PROVE  /\ ~occurred'[p]
             /\ Ready(p)' => gpio_initial(p)' /\ \A t \in Threads : ~Handles(t, p)'
             /\ \A t \in Threads : Handles(t, p)' => gpio_initial(p)'
             /\ \A t, u \in Threads : Handles(t, p)' /\ Handles(u, p)' => t = u
  BY <1>1, <1>2, Zenon DEF ReportOf
<1>3. ASSUME ~Registered(p)'
      PROVE  /\ ~occurred'[p] /\ \A t \in Threads : ~Handles(t, p)'
             /\ (\A i \in EntriesOf(p) : fdList[i].initial)'
  BY <1>1, <1>3, Zenon DEF ReportOf
<1>4. QED
  BY <1>2, <1>3, Zenon DEF ReportOf

\* the lists and the kernel stay, and the handling is the same
LEMMA ReportSame ==
  ASSUME GpioInv, NEW p \in Pins, ReportOf(p), SameList(fdList, fdList'),
         \A i \in DOMAIN fdList : fdList[i].gpio = p => fdList'[i].initial = fdList[i].initial,
         p \notin real' => p \notin real, epSet \subseteq epSet', occurred'[p] => occurred[p],
         Ready(p)' => Ready(p),
         \A t \in Threads : Handles(t, p)' => Handles(t, p)
  PROVE  ReportOf(p)'
<1>1. fdList \in Seq(EntryType)
  BY Typed, Zenon DEF GpioInv, LibTypes
<1>2. /\ DOMAIN fdList' = DOMAIN fdList
      /\ \A i \in DOMAIN fdList : fdList'[i].gpio = fdList[i].gpio /\ fdList'[i].fd = fdList[i].fd
  BY Zenon DEF SameList
<1>3. /\ InitialIn(fdList, p) => InitialIn(fdList', p)
      /\ AllInitial(fdList, p) => AllInitial(fdList', p)
  BY <1>2, Zenon DEF InitialIn, AllInitial
<1>4. Registered(p) => Registered(p)'
  BY <1>2, Zenon DEF Registered, Maps
<1>5. QED
  BY <1>3, <1>4, ReportFewer, Zenon

LEMMA SameMaps ==
  ASSUME fdList \in Seq(EntryType), SameList(fdList, fdList')
  PROVE  \A p, f : Maps(p, f)' <=> Maps(p, f)
<1>1. /\ DOMAIN fdList' = DOMAIN fdList
      /\ \A i \in DOMAIN fdList : fdList'[i].gpio = fdList[i].gpio /\ fdList'[i].fd = fdList[i].fd
  BY Zenon DEF SameList
<1>2. QED
  BY <1>1, Zenon DEF Maps

(* The main thread's steps.                                                 *)
NotRemoving == mpc \notin {"rmc", "rmepoll", "rmflag"}

LEMMA ReportKept ==
  ASSUME GpioInv, ReportInv, fdList' = fdList \/ \E p \in Pins, e \in BOOLEAN : fdList' = Mark(p, e),
         UNCHANGED <<epSet, ready, real>>, \A p \in Pins : occurred'[p] => occurred[p],
         \A t \in Threads : thread'[t].pc \in {"read", "look", "test"} => thread'[t] = thread[t],
         NotRemoving'
  PROVE  ReportInv'
<1>1. fdList \in Seq(EntryType)
  BY Typed, Zenon DEF GpioInv, LibTypes
<1>2. /\ SameList(fdList, fdList')
      /\ \A i \in DOMAIN fdList : fdList'[i].initial = fdList[i].initial
  <2>1. CASE fdList' = fdList
    BY <2>1, <1>1, Zenon DEF SameList
  <2>2. CASE \E p \in Pins, e \in BOOLEAN : fdList' = Mark(p, e)
    <3>1. PICK p \in Pins, e \in BOOLEAN : fdList' = Mark(p, e)
      BY <2>2, Zenon
    <3>2. /\ SameList(fdList, Mark(p, e))
          /\ \A i \in DOMAIN fdList : Mark(p, e)[i].initial = fdList[i].initial
      BY <1>1, MarkSame
    <3>3. QED
      BY <3>1, <3>2, Zenon
  <2>3. QED
    BY <2>1, <2>2
<1>3. \A p, f : Maps(p, f)' <=> Maps(p, f)
  BY <1>1, <1>2, SameMaps, Zenon
<1>4. \A p \in Pins : Ready(p)' => Ready(p)
  BY <1>3, Zenon DEF Ready
<1>5. ASSUME NEW p \in Pins, NEW t \in Threads, Handles(t, p)' PROVE Handles(t, p)
  <2>1. thread'[t].pc \in {"read", "look", "test"}
    BY <1>5, Zenon DEF Handles
  <2>2. thread'[t] = thread[t]
    BY <2>1, Zenon
  <2>3. QED
    BY <1>3, <1>5, <2>2, Zenon DEF Handles
<1>6. ASSUME NEW p \in Pins PROVE ReportOf(p)'
  <2>1. ReportOf(p)
    BY Zenon DEF ReportInv
  <2>2. QED
    BY <2>1, <1>2, <1>4, <1>5, ReportSame, Zenon
<1>7. QED
  BY <1>6, Zenon DEF ReportInv, NotRemoving

\* A new value file: its descriptor is not in use, so nothing is reported of it.
LEMMA ReportOpened ==
  ASSUME GpioInv, ServeInv, ReportInv, NEW p \in Pins, FreeFds # {},
         fdList' = <<Entry(p, LowestFree)>> \o fdList,
         UNCHANGED <<epSet, ready, real, occurred, thread>>, NotRemoving'
  PROVE  ReportInv'
<1>1. PICK f \in Fds : f = LowestFree /\ f \notin used
  BY LowestFreeIsFree, Zenon
<1>2. PICK s \in Seq(EntryType) : s = fdList
  BY ServeLists, Zenon
<1>3. Longer(s, fdList', p, f)
  BY <1>1, <1>2, EntryLonger, Zenon
<1>4. PICK l \in Seq(EntryType) : l = fdList' /\ Longer(s, l, p, f)
  BY <1>3, Zenon DEF Longer
<1>5. /\ \A q, g : MapsIn(l, q, g) <=> MapsIn(s, q, g) \/ (q = p /\ g = f)
      /\ FdsOf(l) = FdsOf(s) \cup {f}
  BY <1>4, LongerLookups
<1>6. ASSUME NEW q, NEW g PROVE Maps(q, g)' <=> Maps(q, g) \/ (q = p /\ g = f)
  <2>1. (Maps(q, g) <=> MapsIn(fdList, q, g)) /\ (Maps(q, g)' <=> MapsIn(fdList', q, g))
    BY Zenon DEF Maps, MapsIn
  <2>2. MapsIn(l, q, g) <=> MapsIn(s, q, g) \/ (q = p /\ g = f)
    BY <1>5, Zenon
  <2>3. QED
    BY <1>2, <1>4, <2>1, <2>2, Zenon
<1>7. f \notin epSet /\ f \notin ready /\ f \notin Listed
  BY <1>1, ServeLists, Zenon
<1>8. ASSUME NEW q \in Pins PROVE ReportOf(q)'
  <2>1. ReportOf(q)
    BY Zenon DEF ReportInv
  <2>2. /\ InitialIn(fdList, q) => InitialIn(fdList', q)
        /\ AllInitial(fdList, q) => AllInitial(fdList', q)
    <3>1. (InitialIn(s, q) => InitialIn(l, q)) /\ (AllInitial(s, q) => AllInitial(l, q))
      BY <1>4, LongerInitial, Zenon
    <3>2. QED
      BY <3>1, <1>2, <1>4, Zenon
  <2>3. (Registered(q) => Registered(q)') /\ (Ready(q)' => Ready(q))
    BY <1>6, <1>7, Zenon DEF Registered, Ready
  <2>4. ASSUME NEW t \in Threads, Handles(t, q)' PROVE Handles(t, q)
    <3>1. thread[t].pc \in {"read", "look"} => thread[t].fd # f
      BY <1>7, Zenon DEF ServeInv
    <3>2. QED
      BY <2>4, <3>1, <1>6, Zenon DEF Handles
  <2>5. QED
    BY <2>1, <2>2, <2>3, <2>4, ReportFewer, Zenon
<1>9. QED
  BY <1>8, Zenon DEF ReportInv, NotRemoving

\* Registration: nothing is on its way for the pin, and its entry is marked as initial.
LEMMA ReportRegistered ==
  ASSUME GpioInv, ServeInv, ReportInv, mpc = "addepoll", mfd \notin epSet,
         epSet' = epSet \cup {mfd}, ready' = ready \cup {mfd}, real' = real \ {mpin},
         UNCHANGED <<fdList, occurred, thread>>, NotRemoving'
  PROVE  ReportInv'
<1>1. /\ mpin \in Pins /\ mfd \in Fds /\ mfd # 0 /\ mfd = fd_lookup(mpin)
  BY Typed, Zenon DEF GpioInv, CallInv, PinSteps, CallTypes
<1>2. PICK p \in Pins, f \in Fds : p = mpin /\ f = mfd
  BY <1>1, Zenon
<1>3. fdList \in Seq(EntryType) /\ f = FdIn(fdList, p) /\ f # 0
  BY <1>1, <1>2, ServeLists, Lookups, Zenon
<1>4. Maps(p, f)
  <2>1. PICK s \in Seq(EntryType) : s = fdList
    BY <1>3, Zenon
  <2>2. FdIn(s, p) # 0 => MapsIn(s, p, FdIn(s, p))
    BY FdFound, Zenon
  <2>3. MapsIn(s, p, f)
    BY <1>3, <2>1, <2>2, Zenon
  <2>4. QED
    BY <2>1, <2>3, Zenon DEF Maps, MapsIn
<1>5. \A q, g : Maps(q, g)' <=> Maps(q, g)
  BY Zenon DEF Maps
<1>6. \A t \in Threads, q \in Pins : Handles(t, q)' <=> Handles(t, q)
  BY <1>5, Zenon DEF Handles
<1>7. ~Registered(p)
  <2>1. SUFFICES ASSUME NEW g \in epSet, Maps(p, g) PROVE FALSE
    BY Zenon DEF Registered
  <2>2. g = f
    BY <2>1, <1>4, ServeLists, MapsOne, Zenon
  <2>3. QED
    BY <2>1, <2>2, <1>2, Zenon
<1>8. /\ ~occurred[p] /\ \A t \in Threads : ~Handles(t, p)
      /\ AllInitial(fdList, p)
  BY <1>7, InitialLookups, Zenon DEF ReportInv, ReportOf
<1>9. gpio_initial(p)'
  <2>1. InitialIn(fdList, p)
    BY <1>4, <1>8, Zenon DEF Maps, AllInitial, InitialIn
  <2>2. QED
    BY <2>1, InitialLookups, Zenon
<1>10. Registered(p)'
  BY <1>2, <1>4, <1>5, Zenon DEF Registered
<1>11. ReportOf(p)'
  BY <1>6, <1>8, <1>9, <1>10, Zenon DEF ReportOf
<1>12. ASSUME NEW q \in Pins, q # p PROVE ReportOf(q)'
  <2>1. ReportOf(q)
    BY Zenon DEF ReportInv
  <2>2. ASSUME Ready(q)' PROVE Ready(q)
    <3>1. PICK g \in ready \cup {f} : Maps(q, g)
      BY <2>2, <1>2, <1>5, Zenon DEF Ready
    <3>2. g # f
      <4>1. g \in Fds
        BY ServeLists, Zenon
      <4>2. p = q <=> f = g
        BY <3>1, <4>1, <1>4, MapsOne
      <4>3. QED
        BY <4>2, <1>12
    <3>3. QED
      BY <3>1, <3>2, Zenon DEF Ready
  <2>3. SameList(fdList, fdList')
    BY <1>3, Zenon DEF SameList
  <2>4. /\ \A i \in DOMAIN fdList : fdList[i].gpio = q => fdList'[i].initial = fdList[i].initial
        /\ epSet \subseteq epSet' /\ (q \notin real' => q \notin real)
        /\ (occurred'[q] => occurred[q])
    BY <1>2, <1>12, Zenon
  <2>5. QED
    BY <2>1, <2>2, <2>3, <2>4, <1>6, ReportSame, Zenon
<1>13. QED
  BY <1>2, <1>11, <1>12, Zenon DEF ReportInv, NotRemoving

LEMMA ReportEpoll == ASSUME GpioInv, ServeInv, ReportInv, AddEpoll PROVE ReportInv'
<1>1. /\ mpc = "addepoll" /\ UNCHANGED <<fdList, occurred, thread>>
      /\ mpc' \in {"idle", "addthread"}
  BY Zenon DEF AddEpoll, Return
<1>2. NotRemoving'
  BY <1>1, SMT DEF NotRemoving
<1>3. CASE mfd \notin epSet /\ Register(mfd) /\ real' = real \ {mpin}
  BY <1>1, <1>2, <1>3, ReportRegistered, Zenon DEF Register
<1>4. CASE UNCHANGED <<epSet, ready, real>>
  BY <1>1, <1>2, <1>4, ReportKept, Zenon
<1>5. QED
  BY <1>3, <1>4, Zenon DEF AddEpoll

LEMMA ReportOpen ==
  ASSUME GpioInv, ServeInv, ReportInv, AddOpen \/ WaitOpen \/ \E p \in Pins : Input(p)
  PROVE  ReportInv'
<1>1. /\ UNCHANGED <<epSet, ready, real, occurred, thread>>
      /\ mpc \in {"addopen", "waitopen"} => mpin \in Pins
  BY Zenon DEF AddOpen, WaitOpen, Input, histVars, GpioInv, CallInv, PinSteps
<1>2. mpc' \in {"idle", "addepoll", "waitfirst"}
  BY Zenon DEF AddOpen, OpenFailed, WaitOpen, Input, Begin, Return
<1>3. NotRemoving'
  BY <1>2, SMT DEF NotRemoving
<1>4. \/ fdList' = fdList
      \/ \E p \in Pins : FreeFds # {} /\ fdList' = <<Entry(p, LowestFree)>> \o fdList
  BY <1>1, Zenon DEF AddOpen, OpenFailed, WaitOpen, Input
<1>5. QED
  BY <1>1, <1>3, <1>4, ReportKept, ReportOpened, Zenon

LEMMA ReportPlain ==
  ASSUME NoRemoval, GpioInv, ReportInv,
         \/ \E p \in Pins : Setup(p) \/ EventDetected(p) \/ AddDetect(p) \/ AddCallback(p)
                            \/ WaitForEdge(p)
         \/ AddThread \/ AddPyCallback \/ AddEdgeCallback \/ WaitFirst \/ WaitEdge
  PROVE  ReportInv'
<1>1. UNCHANGED <<epSet, ready, real>> /\ (mpc \in PinSteps => mpin \in Pins)
  BY Zenon DEF Setup, EventDetected, AddDetect, AddCallback, WaitForEdge, AddThread, AddPyCallback,
     AddEdgeCallback, WaitFirst, WaitEdge, kernelVars, histVars, GpioInv, CallInv
<1>2. fdList' = fdList \/ \E p \in Pins, e \in BOOLEAN : fdList' = Mark(p, e)
  BY <1>1, Zenon DEF Setup, EventDetected, AddDetect, AddCallback, WaitForEdge, AddThread,
     AddPyCallback, AddEdgeCallback, WaitFirst, WaitEdge, WaitFailed, PinSteps
<1>3. /\ mpc \in {"idle", "addthread", "cbpy", "cbc", "waitfirst", "waitedge"}
      /\ mpc' \in {"idle", "addopen", "cbpy", "cbc", "waitopen", "waitedge"}
  BY Zenon DEF Setup, EventDetected, AddDetect, AddCallback, WaitForEdge, AddThread, Spawn, NextStep,
     AddPyCallback, AddEdgeCallback, WaitFirst, WaitEdge, WaitFailed, Begin, Return, mainVars
<1>4. NotRemoving'
  BY <1>3, SMT DEF NotRemoving
<1>5. \A p \in Pins : occurred'[p] => occurred[p]
  <2>1. CASE \E p \in Pins : EventDetected(p)
    <3>1. occurred \in [Pins \cup {0} -> BOOLEAN]
      BY Typed, Zenon DEF GpioInv, FlagTypes
    <3>2. QED
      BY <2>1, <3>1, Zenon DEF EventDetected
  <2>2. CASE UNCHANGED occurred
    BY <2>2, Zenon
  <2>3. QED
    BY <2>1, <2>2, Zenon DEF Setup, AddDetect, AddCallback, WaitForEdge, AddThread, AddPyCallback,
       AddEdgeCallback, WaitFirst, WaitEdge
<1>6. \A t \in Threads : thread'[t].pc \in {"read", "look", "test"} => thread'[t] = thread[t]
  <2>1. CASE \E t \in Threads : thread' = [thread EXCEPT ![t] = [Idle EXCEPT !.pc = "start"]]
    <3>1. PICK t \in Threads : thread' = [thread EXCEPT ![t] = [Idle EXCEPT !.pc = "start"]]
      BY <2>1, Zenon
    <3>2. [Idle EXCEPT !.pc = "start"] \in ThreadType /\ [Idle EXCEPT !.pc = "start"].pc = "start"
      BY SMT DEF Idle, ThreadType, ThreadPCs
    <3>3. PICK e \in ThreadType : e = [Idle EXCEPT !.pc = "start"] /\ e.pc = "start"
      BY <3>2, Zenon
    <3>4. ThreadTypes
      BY Typed, Zenon DEF GpioInv
    <3>5. thread'[t].pc = "start" /\ Others(t)
      BY <3>1, <3>3, <3>4, ThreadChanged, Zenon
    <3>6. QED
      BY <3>5, Zenon DEF Others
  <2>2. CASE UNCHANGED thread
    BY <2>2, Zenon
  <2>3. QED
    BY <2>1, <2>2, Zenon DEF Setup, EventDetected, AddDetect, AddCallback, WaitForEdge, AddThread,
       Spawn, AddPyCallback, AddEdgeCallback, WaitFirst, WaitEdge
<1>7. QED
  BY <1>1, <1>2, <1>4, <1>5, <1>6, ReportKept, Zenon

(* The poll threads' steps.                                                 *)
LEMMA ReportPoll ==
  ASSUME GpioInv, ReportInv, NEW t \in Threads, Others(t),
         UNCHANGED <<fdList, epSet, ready, real, occurred>>, NotRemoving',
         \A p \in Pins : Handles(t, p)' => Handles(t, p)
  PROVE  ReportInv'
<1>1. fdList \in Seq(EntryType)
  BY Typed, Zenon DEF GpioInv, LibTypes
<1>2. SameList(fdList, fdList') /\ \A p, f : Maps(p, f)' <=> Maps(p, f)
  BY <1>1, Zenon DEF SameList, Maps
<1>3. ASSUME NEW p \in Pins PROVE ReportOf(p)'
  <2>1. ReportOf(p)
    BY Zenon DEF ReportInv
  <2>2. ASSUME NEW u \in Threads, Handles(u, p)' PROVE Handles(u, p)
    BY <2>2, <1>2, Zenon DEF Handles, Others
  <2>3. Ready(p)' => Ready(p)
    BY <1>2, Zenon DEF Ready
  <2>4. QED
    BY <2>1, <2>2, <2>3, <1>2, ReportSame, Zenon
<1>4. QED
  BY <1>3, Zenon DEF ReportInv, NotRemoving

\* A thread takes the report of a pin: it was ready, so nobody handled it.
LEMMA ReportTaken ==
  ASSUME GpioInv, ServeInv, ReportInv, NEW t \in Threads, PollWait(t), NotRemoving'
  PROVE  ReportInv'
<1>1. PICK f \in ready : /\ ready' = ready \ {f}
                         /\ thread' = [thread EXCEPT ![t] = [@ EXCEPT !.pc = "read", !.fd = f]]
  BY Zenon DEF PollWait
<1>2. UNCHANGED <<fdList, epSet, real, occurred>>
  BY Zenon DEF PollWait, histVars
<1>3. f \in Fds /\ f \in epSet /\ ready \subseteq Fds
  BY ServeLists, Zenon
<1>4. Others(t) /\ thread'[t].pc = "read" /\ thread'[t].fd = f
  <2>1. ThreadTypes
    BY Typed, Zenon DEF GpioInv
  <2>2. QED
    BY <1>1, <1>3, <2>1, ThreadTakes, Zenon
<1>5. fdList \in Seq(EntryType) /\ SameList(fdList, fdList')
  <2>1. fdList \in Seq(EntryType)
    BY Typed, Zenon DEF GpioInv, LibTypes
  <2>2. QED
    BY <2>1, <1>2, Zenon DEF SameList
<1>6. \A p, g : Maps(p, g)' <=> Maps(p, g)
  BY <1>2, Zenon DEF Maps
<1>7. ASSUME NEW p \in Pins, Maps(p, f) PROVE ReportOf(p)'
  <2>1. Ready(p) /\ Registered(p) /\ ReportOf(p)
    BY <1>3, <1>7, Zenon DEF Ready, Registered, ReportInv
  <2>2. Registered(p)'
    BY <1>2, <1>3, <1>6, <1>7, Zenon DEF Registered
  <2>3. ~Ready(p)'
    <3>1. SUFFICES ASSUME NEW g \in ready, g # f, Maps(p, g) PROVE FALSE
      BY <1>1, <1>6, Zenon DEF Ready
    <3>2. g \in Fds
      BY <1>3, Zenon
    <3>3. p = p <=> f = g
      BY <3>1, <3>2, <1>3, <1>7, MapsOne
    <3>4. QED
      BY <3>1, <3>3
  <2>4. ASSUME p \notin real
        PROVE  /\ ~occurred'[p] /\ gpio_initial(p)'
               /\ \A u \in Threads : Handles(u, p)' => u = t
    <3>1. ~occurred[p] /\ gpio_initial(p) /\ \A u \in Threads : ~Handles(u, p)
      BY <2>1, <2>4, Zenon DEF ReportOf
    <3>2. gpio_initial(p)'
      BY <1>2, <3>1, InitialLookups, Zenon
    <3>3. ASSUME NEW u \in Threads, u # t, Handles(u, p)' PROVE FALSE
      BY <3>1, <3>3, <1>4, <1>6, Zenon DEF Handles, Others
    <3>4. QED
      BY <1>2, <3>1, <3>2, <3>3, Zenon
  <2>5. QED
    BY <1>2, <2>2, <2>3, <2>4, Zenon DEF ReportOf
<1>8. ASSUME NEW p \in Pins, ~Maps(p, f) PROVE ReportOf(p)'
  <2>1. ReportOf(p)
    BY Zenon DEF ReportInv
  <2>2. Ready(p)' => Ready(p)
    BY <1>1, <1>6, Zenon DEF Ready
  <2>3. ASSUME NEW u \in Threads, Handles(u, p)' PROVE Handles(u, p)
    <3>1. CASE u = t
      <4>1. thread'[t].pc # "test"
        BY <1>4
      <4>2. QED
        BY <2>3, <3>1, <4>1, <1>4, <1>6, <1>8, Zenon DEF Handles
    <3>2. CASE u # t
      BY <2>3, <3>2, <1>4, <1>6, Zenon DEF Handles, Others
    <3>3. QED
      BY <3>1, <3>2
  <2>4. QED
    BY <1>2, <1>5, <2>1, <2>2, <2>3, ReportSame, Zenon
<1>9. QED
  BY <1>7, <1>8, Zenon DEF ReportInv, NotRemoving

\* A thread finds the pin marked as initial: it was the only one to handle its report.
LEMMA ReportFirst ==
  ASSUME GpioInv, ServeInv, ReportInv, NEW t \in Threads, NEW p \in Pins,
         thread[t].pc = "test", thread[t].gpio = p, gpio_initial(p),
         fdList' = set_initial_false(p), Goto(t, "check"),
         UNCHANGED <<epSet, ready, real, occurred>>, NotRemoving'
  PROVE  ReportInv'
<1>1. fdList \in Seq(EntryType) /\ ThreadTypes
  BY Typed, Zenon DEF GpioInv, LibTypes
<1>2. /\ SameList(fdList, fdList')
      /\ \A i \in DOMAIN fdList : IF fdList[i].gpio = p THEN fdList'[i].initial = FALSE
                                  ELSE fdList'[i].initial = fdList[i].initial
  BY <1>1, InitialSame, Zenon
<1>3. Others(t) /\ thread'[t].pc = "check"
  <2>1. "check" \in ThreadPCs
    BY Zenon DEF ThreadPCs
  <2>2. QED
    BY <1>1, <2>1, ThreadGoes, Zenon
<1>4. \A q, f : Maps(q, f)' <=> Maps(q, f)
  BY <1>1, <1>2, SameMaps, Zenon
<1>5. ASSUME NEW q \in Pins, NEW u \in Threads, Handles(u, q)' PROVE u # t /\ Handles(u, q)
  <2>1. thread'[t].pc \notin {"read", "look", "test"}
    BY <1>3, SMT
  <2>2. u # t
    BY <1>5, <2>1, Zenon DEF Handles
  <2>3. QED
    BY <1>3, <1>4, <1>5, <2>2, Zenon DEF Handles, Others
<1>6. \A q \in Pins : Ready(q)' <=> Ready(q)
  BY <1>4, Zenon DEF Ready
<1>7. ReportOf(p)'
  <2>1. Handles(t, p) /\ ReportOf(p)
    BY Zenon DEF Handles, ReportInv
  <2>2. Registered(p)'
    BY <2>1, <1>4, Zenon DEF Registered, ReportOf
  <2>3. ASSUME p \notin real
        PROVE  ~occurred[p] /\ ~Ready(p) /\ \A u \in Threads : Handles(u, p) => u = t
    BY <2>1, <2>3, Zenon DEF ReportOf
  <2>4. ASSUME p \notin real' PROVE ~occurred'[p] /\ ~Ready(p)' /\ \A u \in Threads : ~Handles(u, p)'
    BY <2>3, <2>4, <1>5, <1>6, Zenon
  <2>5. QED
    BY <2>2, <2>4, Zenon DEF ReportOf
<1>8. ASSUME NEW q \in Pins, q # p PROVE ReportOf(q)'
  <2>1. ReportOf(q)
    BY Zenon DEF ReportInv
  <2>2. \A i \in DOMAIN fdList : fdList[i].gpio = q => fdList'[i].initial = fdList[i].initial
    BY <1>2, <1>8, Zenon
  <2>3. QED
    BY <2>1, <2>2, <1>2, <1>5, <1>6, ReportSame, Zenon
<1>9. QED
  BY <1>7, <1>8, Zenon DEF ReportInv, NotRemoving

\* A thread records an event: the pin is not marked as initial, so it has had an edge.
LEMMA ReportRecorded ==
  ASSUME GpioInv, ServeInv, ReportInv, NEW t \in Threads, NEW p \in Pins \cup {0},
         thread[t].pc = "test", thread[t].gpio = p, ~gpio_initial(p),
         occurred' = [occurred EXCEPT ![p] = TRUE], Goto(t, "run"),
         UNCHANGED <<fdList, epSet, ready, real>>, NotRemoving'
  PROVE  ReportInv'
<1>1. fdList \in Seq(EntryType) /\ ThreadTypes /\ occurred \in [Pins \cup {0} -> BOOLEAN]
  BY Typed, Zenon DEF GpioInv, LibTypes, FlagTypes
<1>2. SameList(fdList, fdList') /\ \A q, f : Maps(q, f)' <=> Maps(q, f)
  BY <1>1, Zenon DEF SameList, Maps
<1>3. Others(t) /\ thread'[t].pc = "run"
  <2>1. "run" \in ThreadPCs
    BY Zenon DEF ThreadPCs
  <2>2. QED
    BY <1>1, <2>1, ThreadGoes, Zenon
<1>4. ASSUME NEW q \in Pins, NEW u \in Threads, Handles(u, q)' PROVE Handles(u, q)
  <2>1. thread'[t].pc \notin {"read", "look", "test"}
    BY <1>3, SMT
  <2>2. u # t
    BY <1>4, <2>1, Zenon DEF Handles
  <2>3. QED
    BY <1>2, <1>3, <1>4, <2>2, Zenon DEF Handles, Others
<1>5. \A q \in Pins : (Ready(q)' => Ready(q)) /\ (Registered(q) => Registered(q)')
  BY <1>2, Zenon DEF Ready, Registered
<1>6. ASSUME p \in Pins PROVE ReportOf(p)'
  <2>1. Handles(t, p) /\ ReportOf(p)
    BY <1>6, Zenon DEF Handles, ReportInv
  <2>2. Registered(p)' /\ p \in real'
    BY <1>5, <1>6, <2>1, Zenon DEF ReportOf
  <2>3. QED
    BY <2>2, Zenon DEF ReportOf
<1>7. ASSUME NEW q \in Pins, q # p PROVE ReportOf(q)'
  <2>1. ReportOf(q) /\ occurred'[q] = occurred[q]
    BY <1>1, <1>7, Zenon DEF ReportInv
  <2>2. \A i \in DOMAIN fdList : fdList[i].gpio = q => fdList'[i].initial = fdList[i].initial
    OBVIOUS
  <2>3. q \notin real' => q \notin real
    OBVIOUS
  <2>4. QED
    BY <2>1, <2>2, <2>3, <1>2, <1>4, <1>5, ReportSame, Zenon
<1>8. QED
  BY <1>6, <1>7, Zenon DEF ReportInv, NotRemoving

LEMMA ReportTest ==
  ASSUME GpioInv, ServeInv, ReportInv, NEW t \in Threads, PollTest(t), NotRemoving' PROVE ReportInv'
<1>1. thread[t].pc = "test" /\ UNCHANGED <<epSet, ready, real>>
  BY Zenon DEF PollTest, AtPC, kernelVars, histVars
<1>2. PICK p \in Pins \cup {0} : p = thread[t].gpio
  <2>1. ThreadTypes
    BY Typed, Zenon DEF GpioInv
  <2>2. thread[t].gpio \in Pins \cup {0}
    BY <2>1, SMT DEF ThreadTypes, ThreadType
  <2>3. QED
    BY <2>2, Zenon
<1>3. CASE gpio_initial(p)
  <2>1. fdList' = set_initial_false(p) /\ Goto(t, "check") /\ UNCHANGED occurred
    BY <1>2, <1>3, Zenon DEF PollTest, InitialReport, AfterInitial
  <2>2. p \in Pins
    <3>1. fdList \in Seq(EntryType)
      BY Typed, Zenon DEF GpioInv, LibTypes
    <3>2. \A i \in DOMAIN fdList : fdList[i].gpio \in Pins
      BY <3>1, ListFields, Zenon
    <3>3. QED
      BY <3>2, <1>3, Zenon DEF gpio_initial, EntriesOf
  <2>3. QED
    BY <1>1, <1>2, <1>3, <2>1, <2>2, ReportFirst, Zenon
<1>4. CASE ~gpio_initial(p)
  <2>1. /\ occurred' = [occurred EXCEPT ![p] = TRUE] /\ Goto(t, "run") /\ UNCHANGED fdList
    BY <1>2, <1>4, Zenon DEF PollTest, InitialReport
  <2>2. QED
    BY <1>1, <1>2, <1>4, <2>1, ReportRecorded, Zenon
<1>5. QED
  BY <1>3, <1>4

\* A thread looks a descriptor up, and finds the pin it belongs to.
LEMMA ReportLooked ==
  ASSUME GpioInv, ReportInv, NEW t \in Threads, PollLookup(t), NotRemoving' PROVE ReportInv'
<1>1. /\ thread[t].pc = "look"
      /\ UNCHANGED <<fdList, epSet, ready, real, occurred>>
  BY Zenon DEF PollLookup, AtPC, kernelVars, histVars
<1>2. PICK f : f = thread[t].fd
  OBVIOUS
<1>3. fdList \in Seq(EntryType) /\ ThreadTypes
  BY Typed, Zenon DEF GpioInv, LibTypes
<1>4. PICK p \in Pins \cup {0} : p = gpio_lookup(f)
  BY LookupTypes, Zenon DEF GpioInv
<1>5. Others(t) /\ thread'[t].pc = "test" /\ thread'[t].gpio = p
  BY <1>2, <1>3, <1>4, ThreadLooks, Zenon DEF PollLookup
<1>6. p # 0 => Maps(p, f)
  <2>1. PICK s \in Seq(EntryType) : s = fdList
    BY <1>3, Zenon
  <2>2. PinIn(s, f) # 0 => MapsIn(s, PinIn(s, f), f)
    BY PinFound
  <2>3. p = PinIn(s, f)
    BY <1>4, <2>1, Lookups, Zenon
  <2>4. QED
    BY <2>1, <2>2, <2>3, Zenon DEF Maps, MapsIn
<1>7. ASSUME NEW q \in Pins, Handles(t, q)' PROVE Handles(t, q)
  <2>1. q = p
    <3>1. thread'[t].pc \notin {"read", "look"}
      BY <1>5, SMT
    <3>2. QED
      BY <3>1, <1>5, <1>7, Zenon DEF Handles
  <2>2. q # 0
    BY PinsPositive, Zenon
  <2>3. QED
    BY <2>1, <2>2, <1>1, <1>2, <1>6, Zenon DEF Handles
<1>8. QED
  BY <1>1, <1>5, <1>7, ReportPoll, Zenon

LEMMA ReportPolls ==
  ASSUME GpioInv, ServeInv, ReportInv, NEW t \in Threads, Poll(t) \/ PollInterrupted(t)
  PROVE  ReportInv'
<1>1. TypeOK /\ ThreadTypes
  BY Typed, Zenon DEF GpioInv
<1>2. NotRemoving'
  <2>1. mpc' \in {mpc, "crashed"}
    BY <1>1, PollKeeps, Zenon
  <2>2. QED
    BY <2>1, SMT DEF ReportInv, NotRemoving
<1>3. CASE PollStart(t) \/ PollCheck(t) \/ PollLeave(t) \/ PollEnter(t) \/ PollInterrupted(t)
  <2>1. UNCHANGED <<fdList, epSet, ready, real, occurred>>
    BY <1>3, Zenon DEF PollStart, PollCheck, PollLeave, PollEnter, PollInterrupted, kernelVars, histVars
  <2>2. Others(t) /\ thread'[t].pc \in {"check", "leave", "enter", "wait", "gone"}
    <3>1. \E pc \in {"check", "leave", "enter", "wait", "gone"} : Goto(t, pc)
      BY <1>3, Zenon DEF PollStart, PollCheck, PollLeave, PollEnter, PollInterrupted, Exit
    <3>2. \A pc \in {"check", "leave", "enter", "wait", "gone"} : pc \in ThreadPCs
      BY SMT DEF ThreadPCs
    <3>3. QED
      BY <1>1, <3>1, <3>2, ThreadGoes, Zenon
  <2>3. thread'[t].pc \notin {"read", "look", "test"}
    BY <2>2, SMT
  <2>4. QED
    BY <1>2, <2>1, <2>2, <2>3, ReportPoll, Zenon DEF Handles
<1>4. CASE PollWait(t)
  BY <1>2, <1>4, ReportTaken
<1>5. CASE PollRead(t)
  <2>1. /\ UNCHANGED <<fdList, epSet, ready, real, occurred>> /\ thread[t].pc = "read"
    BY <1>5, Zenon DEF PollRead, AtPC, kernelVars, histVars
  <2>2. Others(t) /\ thread'[t].pc \in {"look", "gone"} /\ thread'[t].fd = thread[t].fd
    <3>1. \E pc \in {"look", "gone"} : Goto(t, pc)
      BY <1>5, Zenon DEF PollRead, Exit
    <3>2. \A pc \in {"look", "gone"} : pc \in ThreadPCs
      BY SMT DEF ThreadPCs
    <3>3. QED
      BY <1>1, <3>1, <3>2, ThreadGoes, Zenon
  <2>3. thread'[t].pc # "test"
    BY <2>2, SMT
  <2>4. ASSUME NEW p \in Pins, Handles(t, p)' PROVE Handles(t, p)
    BY <2>1, <2>2, <2>3, <2>4, Zenon DEF Handles, Maps
  <2>5. QED
    BY <1>2, <2>1, <2>2, <2>4, ReportPoll, Zenon
<1>6. CASE PollLookup(t)
  BY <1>2, <1>6, ReportLooked
<1>7. CASE PollTest(t)
  BY <1>2, <1>7, ReportTest
<1>8. CASE RunCallbacks(t) \/ CallbackNode(t) \/ CallbackNext(t) \/ PyNode(t)
           \/ PyCall(t) \/ PyReturn(t)
  <2>1. Moves(t)
    BY <1>1, <1>8, WalkMoves
  <2>2. UNCHANGED <<fdList, epSet, ready, real, occurred>>
    BY <2>1, Zenon DEF Moves, WalkUnchanged, kernelVars
  <2>3. CASE UNCHANGED thread
    <3>1. Others(t) /\ \A p \in Pins : Handles(t, p)' => Handles(t, p)
      BY <2>2, <2>3, Zenon DEF Others, Handles, Maps
    <3>2. QED
      BY <1>2, <2>2, <3>1, ReportPoll, Zenon
  <2>4. CASE Others(t) /\ thread'[t].pc \in Walking
    <3>1. thread'[t].pc \notin {"read", "look", "test"}
      BY <2>4, SMT DEF Walking
    <3>2. QED
      BY <1>2, <2>2, <2>4, <3>1, ReportPoll, Zenon DEF Handles
  <2>5. QED
    BY <2>1, <2>3, <2>4, Zenon DEF Moves
<1>9. QED
  BY <1>3, <1>4, <1>5, <1>6, <1>7, <1>8, Zenon DEF Poll

\* An edge: the reports it adds are of its own pin.
LEMMA ReportEdge ==
  ASSUME GpioInv, ServeInv, ReportInv, NEW p \in Pins, Edge(p) PROVE ReportInv'
<1>1. /\ ready' = ready \cup {f \in epSet : gpio_lookup(f) = p} /\ real' = real \cup {p}
      /\ UNCHANGED <<fdList, epSet, occurred, thread, mpc>>
  BY Zenon DEF Edge
<1>2. fdList \in Seq(EntryType) /\ SameList(fdList, fdList')
  <2>1. fdList \in Seq(EntryType)
    BY Typed, Zenon DEF GpioInv, LibTypes
  <2>2. QED
    BY <2>1, <1>1, Zenon DEF SameList
<1>3. \A q, f : Maps(q, f)' <=> Maps(q, f)
  BY <1>1, Zenon DEF Maps
<1>4. \A t \in Threads, q \in Pins : Handles(t, q)' <=> Handles(t, q)
  BY <1>1, <1>3, Zenon DEF Handles
<1>5. ReportOf(p)'
  <2>1. ReportOf(p) /\ p \in real'
    BY <1>1, Zenon DEF ReportInv
  <2>2. Registered(p)' <=> Registered(p)
    BY <1>1, <1>3, Zenon DEF Registered
  <2>3. (\A i \in EntriesOf(p) : fdList[i].initial)' <=> \A i \in EntriesOf(p) : fdList[i].initial
    BY <1>1, Zenon DEF EntriesOf
  <2>4. QED
    BY <1>1, <1>4, <2>1, <2>2, <2>3, Zenon DEF ReportOf
<1>6. ASSUME NEW q \in Pins, q # p PROVE ReportOf(q)'
  <2>1. ReportOf(q)
    BY Zenon DEF ReportInv
  <2>2. ASSUME NEW f \in ready', Maps(q, f) PROVE f \in ready
    <3>1. SUFFICES ASSUME f \in epSet, gpio_lookup(f) = p PROVE FALSE
      BY <1>1, Zenon
    <3>2. MapsIn(fdList, q, f) /\ f \in Fds /\ OnePerPin(fdList) /\ Apart(fdList, {})
      BY <2>2, <3>1, ServeLists, Zenon
    <3>3. PinIn(fdList, f) = q
      BY <1>2, <3>2, LookupsPair, Zenon
    <3>4. gpio_lookup(f) = PinIn(fdList, f)
      BY Lookups, Zenon
    <3>5. QED
      BY <1>6, <3>1, <3>3, <3>4, Zenon
  <2>3. Ready(q)' => Ready(q)
    BY <2>2, <1>3, Zenon DEF Ready
  <2>4. /\ \A i \in DOMAIN fdList : fdList[i].gpio = q => fdList'[i].initial = fdList[i].initial
        /\ (q \notin real' => q \notin real)
    BY <1>1, Zenon
  <2>5. QED
    BY <2>1, <2>3, <2>4, <1>1, <1>2, <1>4, ReportSame, Zenon
<1>7. QED
  BY <1>1, <1>5, <1>6, Zenon DEF ReportInv

LEMMA ReportInit == Init => ReportInv
<1>1. SUFFICES ASSUME Init PROVE ReportInv
  OBVIOUS
<1>2. /\ mpc = "idle" /\ epSet = {} /\ ready = {} /\ \A p \in Pins : ~occurred[p]
      /\ fdList = <<>>
  BY <1>1, Zenon DEF Init
<1>3. \A t \in Threads : thread[t].pc \notin {"read", "look", "test"}
  BY <1>1, SMT DEF Init, Idle
<1>4. \A p : EntriesOf(p) = {}
  BY <1>2, SMT DEF EntriesOf
<1>5. ASSUME NEW p \in Pins PROVE ReportOf(p)
  BY <1>2, <1>3, <1>4, Zenon DEF ReportOf, Handles, Ready, Registered
<1>6. mpc \notin {"rmc", "rmepoll", "rmflag"}
  BY <1>2, SMT
<1>7. QED
  BY <1>5, <1>6, Zenon DEF ReportInv

LEMMA NoneRemoved ==
  ASSUME NoRemoval, ServeInv, ReportInv
  PROVE  /\ ~Cleanup /\ ~CleanupStop /\ ~CleanupExports
         /\ ~RemoveCallbacks /\ ~RemoveEpoll /\ ~RemoveFlag
         /\ \A p \in Pins : ~RemoveDetect(p)
<1>1. ~Cleanup /\ ~CleanupStop /\ ~CleanupExports
  BY SMT DEF NoRemoval, NoCleanup, Cleanup, CleanupStop, CleanupExports, Begin, ServeInv
<1>2. ~RemoveCallbacks /\ ~RemoveEpoll /\ ~RemoveFlag
  <2>1. mpc \notin {"rmc", "rmepoll", "rmflag"}
    BY Zenon DEF ReportInv
  <2>2. mpc # "rmc" /\ mpc # "rmepoll" /\ mpc # "rmflag"
    BY <2>1
  <2>3. QED
    BY <2>2, Zenon DEF RemoveCallbacks, RemoveEpoll, RemoveFlag
<1>3. \A p \in Pins : ~RemoveDetect(p)
  BY Zenon DEF NoRemoval, RemoveDetect, Begin
<1>4. QED
  BY <1>1, <1>2, <1>3

LEMMA ReportStep ==
  ASSUME NoRemoval, GpioInv, ServeInv, ReportInv, [Next]_vars PROVE ReportInv'
<1>1. CASE UNCHANGED vars
  <2>1. UNCHANGED <<fdList, epSet, ready, real, occurred, thread, mpc>>
    BY <1>1, Zenon DEF vars
  <2>2. NotRemoving' /\ \A t \in Threads : thread'[t] = thread[t]
    BY <2>1, Zenon DEF NotRemoving, ReportInv
  <2>3. QED
    BY <2>1, <2>2, ReportKept, Zenon
<1>2. /\ ~Cleanup /\ ~CleanupStop /\ ~CleanupExports
      /\ ~RemoveCallbacks /\ ~RemoveEpoll /\ ~RemoveFlag /\ \A p \in Pins : ~RemoveDetect(p)
  BY NoneRemoved, Zenon
<1>3. ASSUME InCall PROVE ReportInv'
  <2>1. AddOpen \/ WaitOpen \/ AddEpoll \/ AddThread \/ AddPyCallback \/ AddEdgeCallback \/ WaitFirst
    BY <1>2, <1>3, Zenon DEF InCall
  <2>2. QED
    BY <2>1, ReportOpen, ReportEpoll, ReportPlain, Zenon
<1>4. ASSUME NEW p \in Pins, Setup(p) \/ Input(p) \/ EventDetected(p) \/ AddDetect(p)
                             \/ AddCallback(p) \/ WaitForEdge(p)
      PROVE  ReportInv'
  BY <1>4, ReportOpen, ReportPlain, Zenon
<1>5. CASE WaitEdge
  BY <1>5, ReportPlain, Zenon
<1>6. QED
  BY <1>1, <1>2, <1>3, <1>4, <1>5, ReportPolls, ReportEdge, Zenon DEF Next, Main

\* In a program that neither cleans up nor takes detection back, event_occurred[] is only
\* set for a pin that had an edge since detection was added, whatever pins are added, opened
\* and waited for in whatever order: the report that epoll makes at registration always
\* finds its entry of fd_list marked as initial, and is the only one on its way.
THEOREM NoneSpurious == NoRemoval => (Spec => []NoSpuriousEvent)
<1>1. ASSUME NoRemoval PROVE Spec => []NoSpuriousEvent
  <2>1. Init => ServeInv /\ ReportInv
    BY <1>1, ServeInit, ReportInit DEF NoRemoval
  <2>2. GpioInv /\ ServeInv /\ ReportInv /\ [Next]_vars => ServeInv' /\ ReportInv'
    BY <1>1, ServeStep, ReportStep DEF NoRemoval
  <2>3. ReportInv => NoSpuriousEvent
    BY Zenon DEF ReportInv, ReportOf, NoSpuriousEvent
  <2>4. QED
    BY <2>1, <2>2, <2>3, GpioInvariant, PTL DEF Spec
<1>2. QED
  BY <1>1

-----------------------------------------------------------------------------
(* Callbacks are run within bounds.  A report of a pin that is not its first  *)
(* one is paid for by an edge, and pays for one walk over the library's list,  *)
(* on which every node runs each of the pin's callbacks at most once.          *)
WalkPCs == {"run", "c", "py", "cnext", "gil", "call"}
Walks(t, p) == thread[t].pc \in WalkPCs /\ thread[t].gpio = p
Walkers(p)  == {t \in Threads : Walks(t, p)}
Handlers(p) == {t \in Threads : Handles(t, p)}

\* the walks that p's edges pay for: the reports so far, but those on their way and the
\* first one
First(p)  == IF gpio_initial(p) THEN 1 ELSE 0
Tokens(p) == Cardinality(Handlers(p)) + (IF Ready(p) THEN 1 ELSE 0)
Due(p)    == edges + First(p) - Tokens(p)

\* thread t is still to run callback id from node c of the library's list
Ahead(t, c, id) ==
  \/ thread[t].pc = "run"
  \/ thread[t].pc = "c" /\ thread[t].c # 0 /\ c >= thread[t].c
  \/ thread[t].pc \in {"py", "gil", "call", "cnext"} /\ c > thread[t].c
  \/ /\ thread[t].pc \in {"py", "gil"} /\ c = thread[t].c
     /\ thread[t].py # 0 /\ id >= thread[t].py
  \/ thread[t].pc = "call" /\ c = thread[t].c /\ id > thread[t].py
Todo(n) == {x \in Walkers(n.gpio) \X cCallbacks : Ahead(x[1], x[2].id, n.id)}

\* a walk stands on nodes that are listed
WalkOf(t) ==
  /\ thread[t].pc \in {"py", "cnext", "gil", "call"} => Holds(cCallbacks, thread[t].c)
  /\ thread[t].pc = "c" => thread[t].c = 0 \/ Holds(cCallbacks, thread[t].c)
  /\ thread[t].pc \in {"gil", "call"} =>
       \E n \in pyCallbacks : n.id = thread[t].py /\ n.gpio = thread[t].gpio
  /\ thread[t].pc = "py" => thread[t].py = 0 \/ Holds(pyCallbacks, thread[t].py)
NodesInv ==
  /\ \A m, n \in pyCallbacks : m.id = n.id => m = n
  /\ \A i \in NodeIds : ~Holds(pyCallbacks, i) => invoked[i] = 0

\* nothing of p has been run as long as its first report is not consumed
Unreported(p) == gpio_initial(p) \/ ~Registered(p)
Fresh(p) == Unreported(p) => /\ \A t \in Threads : ~Walks(t, p)
                             /\ \A n \in pyCallbacks : n.gpio = p => invoked[n.id] = 0
Flow(p)  == Cardinality(Walkers(p)) <= Due(p)
Bound(n) == invoked[n.id] + Cardinality(Todo(n)) <= Due(n.gpio) * Cardinality(cCallbacks)
WorkInv ==
  /\ mpc # "crashed" /\ NodesInv
  /\ \A t \in Threads : WalkOf(t)
  /\ \A p \in Pins : Fresh(p) /\ Flow(p)
  /\ \A n \in pyCallbacks : Bound(n)

(* Counting.                                                                *)
LEMMA Smaller ==
  ASSUME NEW T, IsFiniteSet(T), NEW S, S \subseteq T
  PROVE  /\ IsFiniteSet(S) /\ Cardinality(S) \in Nat /\ Cardinality(T) \in Nat
         /\ Cardinality(S) <= Cardinality(T)
  BY FS_Subset, FS_CardinalityType, Zenon

LEMMA Times ==
  ASSUME NEW d \in Int, NEW e \in Int, NEW k \in Nat
  PROVE  /\ d * k \in Int /\ (d + 1) * k = d * k + k /\ d * (k + 1) = d * k + d
         /\ d <= e => d * k <= e * k
         /\ 0 <= d => 0 <= d * k
<1>1. d * k \in Int /\ (d + 1) * k = d * k + k /\ d * (k + 1) = d * k + d
  BY SMT
<1>2. \A a \in Nat : a * k \in Nat /\ (d + a) * k = d * k + a * k
  BY SMT
<1>3. ASSUME d <= e PROVE d * k <= e * k
  <2>1. e - d \in Nat /\ d + (e - d) = e
    BY <1>3, SMT
  <2>2. PICK a \in Nat : d + a = e
    BY <2>1
  <2>3. a * k \in Nat /\ e * k = d * k + a * k
    BY <1>2, <2>2
  <2>4. QED
    BY <1>1, <2>3, SMT
<1>4. 0 <= d => 0 <= d * k
  BY <1>2, SMT
<1>5. QED
  BY <1>1, <1>3, <1>4

LEMMA WorkCounts ==
  ASSUME GpioInv, NEW p
  PROVE  /\ IsFiniteSet(Threads) /\ IsFiniteSet(cCallbacks) /\ edges \in Nat
         /\ Cardinality(cCallbacks) \in Nat
         /\ IsFiniteSet(Walkers(p)) /\ Cardinality(Walkers(p)) \in Nat
         /\ IsFiniteSet(Handlers(p)) /\ Cardinality(Handlers(p)) \in Nat
         /\ First(p) \in {0, 1} /\ Tokens(p) \in Nat /\ Due(p) \in Int
<1>1. IsFiniteSet(Threads)
  BY GpioAssumption, FS_Interval, SMT DEF Threads
<1>2. edges \in Nat /\ IsFiniteSet(cCallbacks)
  BY Typed, SMT DEF GpioInv, HistoryTypes, ListsInv
<1>3. Walkers(p) \subseteq Threads /\ Handlers(p) \subseteq Threads
  BY Zenon DEF Walkers, Handlers
<1>4. First(p) \in {0, 1}
  BY Zenon DEF First
<1>5. /\ IsFiniteSet(Walkers(p)) /\ Cardinality(Walkers(p)) \in Nat
      /\ IsFiniteSet(Handlers(p)) /\ Cardinality(Handlers(p)) \in Nat
  BY <1>1, <1>3, Smaller, Zenon
<1>6. Tokens(p) \in Nat
  BY <1>5, SMT DEF Tokens
<1>7. Due(p) \in Int
  BY <1>2, <1>4, <1>6, SMT DEF Due
<1>8. QED
  BY <1>1, <1>2, <1>4, <1>5, <1>6, <1>7, FS_CardinalityType, Zenon

\* the same, after a step
LEMMA WorkCountsNext ==
  ASSUME GpioInv', NEW p
  PROVE  /\ IsFiniteSet(cCallbacks') /\ edges' \in Nat /\ Cardinality(cCallbacks') \in Nat
         /\ IsFiniteSet(Walkers(p)') /\ Cardinality(Walkers(p)') \in Nat
         /\ IsFiniteSet(Handlers(p)') /\ Cardinality(Handlers(p)') \in Nat
         /\ First(p)' \in {0, 1} /\ Tokens(p)' \in Nat /\ Due(p)' \in Int
<1>1. IsFiniteSet(Threads)
  BY GpioAssumption, FS_Interval, SMT DEF Threads
<1>2. edges' \in Nat /\ IsFiniteSet(cCallbacks')
  BY SMT DEF GpioInv, TypeOK, ListsInv
<1>3. Walkers(p)' \subseteq Threads /\ Handlers(p)' \subseteq Threads
  BY Zenon DEF Walkers, Handlers
<1>4. First(p)' \in {0, 1}
  BY Zenon DEF First
<1>5. /\ IsFiniteSet(Walkers(p)') /\ Cardinality(Walkers(p)') \in Nat
      /\ IsFiniteSet(Handlers(p)') /\ Cardinality(Handlers(p)') \in Nat
  BY <1>1, <1>3, Smaller, Zenon
<1>6. Tokens(p)' \in Nat
  BY <1>5, SMT DEF Tokens
<1>7. Due(p)' \in Int
  BY <1>2, <1>4, <1>6, SMT DEF Due
<1>8. QED
  BY <1>1, <1>2, <1>4, <1>5, <1>6, <1>7, FS_CardinalityType, Zenon

LEMMA TodoFinite ==
  ASSUME GpioInv, NEW n
  PROVE  /\ IsFiniteSet(Todo(n)) /\ Cardinality(Todo(n)) \in Nat
         /\ Cardinality(Todo(n)) <= Cardinality(Walkers(n.gpio)) * Cardinality(cCallbacks)
<1>1. IsFiniteSet(Walkers(n.gpio)) /\ IsFiniteSet(cCallbacks)
  BY WorkCounts, Zenon
<1>2. Todo(n) \subseteq Walkers(n.gpio) \X cCallbacks
  BY Zenon DEF Todo
<1>3. /\ IsFiniteSet(Walkers(n.gpio) \X cCallbacks)
      /\ Cardinality(Walkers(n.gpio) \X cCallbacks)
           = Cardinality(Walkers(n.gpio)) * Cardinality(cCallbacks)
  BY <1>1, FS_Product, Zenon
<1>4. QED
  BY <1>2, <1>3, Smaller, Zenon

\* the pairs of a thread and a node
LEMMA TodoPairs ==
  ASSUME NEW n
  PROVE  /\ \A t, m : <<t, m>> \in Todo(n) <=>
              /\ t \in Threads /\ Walks(t, n.gpio) /\ m \in cCallbacks
              /\ Ahead(t, m.id, n.id)
         /\ \A x \in Todo(n) : \E t, m : x = <<t, m>>
         /\ \A t, m : <<t, m>> \in Todo(n)' <=>
              /\ t \in Threads /\ Walks(t, n.gpio)' /\ m \in cCallbacks'
              /\ Ahead(t, m.id, n.id)'
         /\ \A x \in Todo(n)' : \E t, m : x = <<t, m>>
<1>1. \A t, m : <<t, m>>[1] = t /\ <<t, m>>[2] = m
  BY SMT
<1>2. \A S, T, t, m : <<t, m>> \in S \X T <=> t \in S /\ m \in T
  BY SMT
<1>3. ASSUME NEW t, NEW m
      PROVE  /\ <<t, m>> \in Todo(n) <=>
                  /\ <<t, m>> \in Walkers(n.gpio) \X cCallbacks
                  /\ Ahead(<<t, m>>[1], <<t, m>>[2].id, n.id)
             /\ <<t, m>> \in Todo(n)' <=>
                  /\ <<t, m>> \in Walkers(n.gpio)' \X cCallbacks'
                  /\ Ahead(<<t, m>>[1], <<t, m>>[2].id, n.id)'
  BY Zenon DEF Todo
<1>4. ASSUME NEW t, NEW m
      PROVE  /\ <<t, m>> \in Todo(n) <=> /\ t \in Threads /\ Walks(t, n.gpio) /\ m \in cCallbacks
                                         /\ Ahead(t, m.id, n.id)
             /\ <<t, m>> \in Todo(n)' <=> /\ t \in Threads /\ Walks(t, n.gpio)' /\ m \in cCallbacks'
                                          /\ Ahead(t, m.id, n.id)'
  <2>1. /\ Ahead(<<t, m>>[1], <<t, m>>[2].id, n.id) = Ahead(t, m.id, n.id)
        /\ Ahead(<<t, m>>[1], <<t, m>>[2].id, n.id)' = Ahead(t, m.id, n.id)'
    BY <1>1, Zenon DEF Ahead
  <2>2. /\ t \in Walkers(n.gpio) <=> t \in Threads /\ Walks(t, n.gpio)
        /\ t \in Walkers(n.gpio)' <=> t \in Threads /\ Walks(t, n.gpio)'
    BY Zenon DEF Walkers
  <2>3. QED
    BY <1>2, <1>3, <2>1, <2>2, Zenon
<1>5. Todo(n) \subseteq Walkers(n.gpio) \X cCallbacks /\ Todo(n)' \subseteq Walkers(n.gpio)' \X cCallbacks'
  BY Zenon DEF Todo
<1>6. ASSUME NEW x \in Todo(n) PROVE \E t, m : x = <<t, m>>
  <2>1. x \in Walkers(n.gpio) \X cCallbacks
    BY <1>5
  <2>2. QED
    BY <2>1
<1>7. ASSUME NEW x \in Todo(n)' PROVE \E t, m : x = <<t, m>>
  <2>1. x \in Walkers(n.gpio)' \X cCallbacks'
    BY <1>5
  <2>2. QED
    BY <2>1
<1>8. QED
  BY <1>4, <1>6, <1>7

LEMMA NodeFacts ==
  ASSUME GpioInv, NEW n \in pyCallbacks
  PROVE  n.gpio \in Pins /\ n.id \in NodeIds /\ invoked[n.id] \in Nat
<1>1. pyCallbacks \subseteq NodeType /\ invoked \in [NodeIds -> Nat]
  BY Typed, Zenon DEF GpioInv, NodeTypes, HistoryTypes
<1>2. n.gpio \in Pins /\ n.id \in NodeIds
  BY <1>1, SMT DEF NodeType
<1>3. QED
  BY <1>1, <1>2, Zenon

\* Fewer reports on their way, and no fewer edges: no fewer walks are due.
LEMMA DueGrows ==
  ASSUME GpioInv, GpioInv', NEW p, Ready(p)' => Ready(p),
         \A t \in Threads : Handles(t, p)' => Handles(t, p),
         gpio_initial(p) => gpio_initial(p)', edges <= edges'
  PROVE  Due(p) <= Due(p)'
<1>1. Handlers(p)' \subseteq Handlers(p)
  BY Zenon DEF Handlers
<1>2. Cardinality(Handlers(p)') <= Cardinality(Handlers(p))
  BY <1>1, WorkCounts, Smaller, Zenon
<1>3. First(p) <= First(p)'
  BY SMT DEF First
<1>4. /\ Cardinality(Handlers(p)) \in Nat /\ Cardinality(Handlers(p)') \in Nat
      /\ edges \in Nat /\ edges' \in Nat
      /\ First(p) \in {0, 1} /\ First(p)' \in {0, 1}
  BY WorkCounts, WorkCountsNext, Zenon
<1>5. Tokens(p)' <= Tokens(p) /\ Tokens(p) \in Nat /\ Tokens(p)' \in Nat
  BY <1>2, <1>4, SMT DEF Tokens
<1>6. QED
  BY <1>3, <1>4, <1>5, SMT DEF Due

\* No walk goes on; a pin whose first report is not consumed may spend what is due.
LEMMA WorkKept ==
  ASSUME GpioInv, GpioInv', WorkInv, UNCHANGED <<cCallbacks, pyCallbacks, invoked>>,
         mpc' # "crashed",
         \A t \in Threads : thread'[t].pc \in WalkPCs => thread'[t] = thread[t],
         \A p \in Pins : Unreported(p)' => Unreported(p),
         \A p \in Pins : Due(p) <= Due(p)' \/ (Unreported(p) /\ 0 <= Due(p)')
  PROVE  WorkInv'
<1>1. ASSUME NEW t \in Threads, NEW p, Walks(t, p)' PROVE Walks(t, p)
  <2>1. thread'[t] = thread[t]
    BY <1>1, Zenon DEF Walks
  <2>2. QED
    BY <1>1, <2>1, Zenon DEF Walks
<1>2. \A p : Walkers(p)' \subseteq Walkers(p)
  BY <1>1, Zenon DEF Walkers
<1>3. NodesInv'
  BY Zenon DEF WorkInv, NodesInv, Holds
<1>4. ASSUME NEW t \in Threads PROVE WalkOf(t)'
  <2>1. WalkOf(t)
    BY Zenon DEF WorkInv
  <2>2. CASE thread'[t].pc \in WalkPCs
    <3>1. thread'[t] = thread[t]
      BY <2>2, Zenon
    <3>2. QED
      BY <2>1, <3>1, Zenon DEF WalkOf, Holds
  <2>3. CASE thread'[t].pc \notin WalkPCs
    <3>1. /\ thread'[t].pc \notin {"py", "cnext", "gil", "call"} /\ thread'[t].pc # "c"
          /\ thread'[t].pc \notin {"gil", "call"} /\ thread'[t].pc # "py"
      BY <2>3, SMT DEF WalkPCs
    <3>2. QED
      BY <3>1, Zenon DEF WalkOf
  <2>4. QED
    BY <2>2, <2>3
<1>5. ASSUME NEW p \in Pins PROVE Fresh(p)'
  BY <1>1, Zenon DEF WorkInv, Fresh
<1>6. ASSUME NEW p \in Pins PROVE Flow(p)'
  <2>1. Flow(p) /\ Fresh(p)
    BY Zenon DEF WorkInv
  <2>2. /\ Cardinality(Walkers(p)') <= Cardinality(Walkers(p))
        /\ Cardinality(Walkers(p)') \in Nat /\ Cardinality(Walkers(p)) \in Nat
    BY <1>2, WorkCounts, Smaller, Zenon
  <2>3. Due(p) \in Int /\ Due(p)' \in Int
    BY WorkCounts, WorkCountsNext, Zenon
  <2>4. CASE Due(p) <= Due(p)'
    <3>1. Cardinality(Walkers(p)) <= Due(p)
      BY <2>1, Zenon DEF Flow
    <3>2. Cardinality(Walkers(p)') <= Due(p)'
      BY <3>1, <2>2, <2>3, <2>4, SMT
    <3>3. QED
      BY <3>2, Zenon DEF Flow
  <2>5. CASE Unreported(p) /\ 0 <= Due(p)'
    <3>1. Walkers(p)' = {}
      BY <1>2, <2>1, <2>5, Zenon DEF Fresh, Walkers
    <3>2. QED
      BY <2>5, <3>1, FS_EmptySet, Zenon DEF Flow
  <2>6. QED
    BY <2>4, <2>5
<1>7. ASSUME NEW n \in pyCallbacks PROVE Bound(n)'
  <2>1. Bound(n) /\ n.gpio \in Pins /\ n.id \in NodeIds /\ invoked[n.id] \in Nat
    BY NodeFacts, Zenon DEF WorkInv
  <2>2. PICK p \in Pins : p = n.gpio
    BY <2>1
  <2>3. Todo(n)' \subseteq Todo(n)
    <3>1. ASSUME NEW t, NEW m, <<t, m>> \in Todo(n)' PROVE <<t, m>> \in Todo(n)
      <4>1. /\ t \in Threads /\ Walks(t, n.gpio)' /\ m \in cCallbacks
            /\ Ahead(t, m.id, n.id)'
        BY <3>1, TodoPairs, Zenon
      <4>2. thread'[t] = thread[t]
        BY <4>1, Zenon DEF Walks
      <4>3. Walks(t, n.gpio) /\ Ahead(t, m.id, n.id)
        BY <4>1, <4>2, <1>1, Zenon DEF Ahead
      <4>4. QED
        BY <4>1, <4>3, TodoPairs, Zenon
    <3>2. ASSUME NEW x \in Todo(n)' PROVE x \in Todo(n)
      <4>1. PICK t, m : x = <<t, m>>
        BY TodoPairs, Zenon
      <4>2. QED
        BY <3>1, <4>1, Zenon
    <3>3. QED
      BY <3>2, Zenon
  <2>4. /\ Cardinality(Todo(n)') <= Cardinality(Todo(n))
        /\ Cardinality(Todo(n)') \in Nat /\ Cardinality(Todo(n)) \in Nat
    BY <2>3, TodoFinite, Smaller, Zenon
  <2>5. /\ Due(p) \in Int /\ Due(p)' \in Int /\ Cardinality(cCallbacks) \in Nat
        /\ invoked[n.id] \in Nat /\ invoked'[n.id] = invoked[n.id]
        /\ cCallbacks' = cCallbacks
    BY <2>1, WorkCounts, WorkCountsNext, Zenon
  <2> DEFINE k == Cardinality(cCallbacks)
             i == invoked[n.id]
             a == Cardinality(Todo(n))
             b == Cardinality(Todo(n)')
  <2>6. i + b <= Due(p)' * k
    <3>1. CASE Due(p) <= Due(p)'
      <4>1. i + a <= Due(p) * k
        BY <2>1, <2>2, Zenon DEF Bound
      <4>2. Due(p) * k <= Due(p)' * k /\ Due(p) * k \in Int /\ Due(p)' * k \in Int
        BY <2>5, <3>1, Times, Zenon
      <4> HIDE DEF k
      <4>3. QED
        BY <4>1, <4>2, <2>4, <2>5, SMT
    <3>2. CASE Unreported(p) /\ 0 <= Due(p)'
      <4>1. i = 0 /\ Walkers(p) = {}
        BY <3>2, <2>2, Zenon DEF WorkInv, Fresh, Walkers
      <4>2. Todo(n) = {}
        BY <4>1, <2>2, Zenon DEF Todo
      <4>3. b = 0
        <5>1. Todo(n)' = {}
          BY <2>3, <4>2, Zenon
        <5>2. QED
          BY <5>1, FS_EmptySet
      <4>4. 0 <= Due(p)' * k
        BY <2>5, <3>2, Times, Zenon
      <4> HIDE DEF k
      <4>5. QED
        BY <4>1, <4>3, <4>4
    <3>3. QED
      BY <3>1, <3>2
  <2>7. QED
    BY <2>2, <2>5, <2>6, Zenon DEF Bound
<1>8. QED
  BY <1>3, <1>4, <1>5, <1>6, <1>7, Zenon DEF WorkInv

\* the lists of descriptors and callbacks stay, and no thread starts to handle a report
LEMMA WorkSame ==
  ASSUME GpioInv, GpioInv', WorkInv, SameList(fdList, fdList'),
         \A i \in DOMAIN fdList : fdList'[i].initial = fdList[i].initial,
         UNCHANGED <<epSet, ready, cCallbacks, pyCallbacks, invoked, edges>>, mpc' # "crashed",
         \A t \in Threads : \A p \in Pins : Handles(t, p)' => Handles(t, p),
         \A t \in Threads : thread'[t].pc \in WalkPCs => thread'[t] = thread[t]
  PROVE  WorkInv'
<1>1. /\ DOMAIN fdList' = DOMAIN fdList
      /\ \A i \in DOMAIN fdList : fdList'[i].gpio = fdList[i].gpio
  BY Zenon DEF SameList
<1>2. fdList \in Seq(EntryType) /\ edges \in Nat
  BY Typed, WorkCounts, Zenon DEF GpioInv, LibTypes
<1>3. \A p, f : Maps(p, f)' <=> Maps(p, f)
  BY <1>2, SameMaps, Zenon
<1>4. ASSUME NEW p PROVE gpio_initial(p)' <=> gpio_initial(p)
  <2>1. InitialIn(fdList', p) <=> InitialIn(fdList, p)
    BY <1>1, Zenon DEF InitialIn
  <2>2. QED
    BY <2>1, InitialLookups, Zenon
<1>5. \A p : (Registered(p)' <=> Registered(p)) /\ (Ready(p)' <=> Ready(p))
  BY <1>3, Zenon DEF Registered, Ready
<1>6. \A p : Unreported(p)' => Unreported(p)
  BY <1>4, <1>5, Zenon DEF Unreported
<1>7. ASSUME NEW p \in Pins PROVE Due(p) <= Due(p)'
  <2>1. edges <= edges'
    BY <1>2, SMT
  <2>2. QED
    BY <2>1, <1>4, <1>5, DueGrows, Zenon
<1>8. QED
  BY <1>6, <1>7, WorkKept, Zenon

(* The main thread's steps.                                                 *)
LEMMA WorkPlain ==
  ASSUME NoRemoval, GpioInv, GpioInv', WorkInv,
         \/ \E p \in Pins : Setup(p) \/ EventDetected(p) \/ AddDetect(p) \/ AddCallback(p)
                            \/ WaitForEdge(p)
         \/ AddThread \/ WaitFirst \/ WaitEdge
  PROVE  WorkInv'
<1>1. /\ UNCHANGED <<epSet, ready, cCallbacks, pyCallbacks, invoked, edges>>
      /\ mpc \in PinSteps => mpin \in Pins
  BY Zenon DEF Setup, EventDetected, AddDetect, AddCallback, WaitForEdge, AddThread, WaitFirst,
     WaitEdge, kernelVars, histVars, listVars, GpioInv, CallInv
<1>2. fdList' = fdList \/ \E p \in Pins, e \in BOOLEAN : fdList' = Mark(p, e)
  BY <1>1, Zenon DEF Setup, EventDetected, AddDetect, AddCallback, WaitForEdge, AddThread,
     WaitFirst, WaitEdge, WaitFailed, PinSteps
<1>3. mpc' \in {"idle", "addopen", "cbpy", "waitopen", "waitedge"}
  BY Zenon DEF Setup, EventDetected, AddDetect, AddCallback, WaitForEdge, AddThread, Spawn,
     NextStep, WaitFirst, WaitEdge, WaitFailed, Begin, Return, mainVars
<1>4. mpc' # "crashed"
  BY <1>3, SMT
<1>5. ASSUME NEW t \in Threads, thread'[t].pc \in WalkPCs \cup {"read", "look", "test"}
      PROVE  thread'[t] = thread[t]
  <2>1. CASE \E u \in Threads : thread' = [thread EXCEPT ![u] = [Idle EXCEPT !.pc = "start"]]
    <3>1. PICK u \in Threads : thread' = [thread EXCEPT ![u] = [Idle EXCEPT !.pc = "start"]]
      BY <2>1, Zenon
    <3>2. [Idle EXCEPT !.pc = "start"] \in ThreadType /\ [Idle EXCEPT !.pc = "start"].pc = "start"
      BY SMT DEF Idle, ThreadType, ThreadPCs
    <3>3. PICK e \in ThreadType : e = [Idle EXCEPT !.pc = "start"] /\ e.pc = "start"
      BY <3>2, Zenon
    <3>4. ThreadTypes
      BY Typed, Zenon DEF GpioInv
    <3>5. thread'[u].pc = "start" /\ Others(u)
      BY <3>1, <3>3, <3>4, ThreadChanged, Zenon
    <3>6. t # u
      BY <3>5, <1>5, SMT DEF WalkPCs
    <3>7. QED
      BY <3>5, <3>6, Zenon DEF Others
  <2>2. CASE UNCHANGED thread
    BY <2>2, Zenon
  <2>3. QED
    BY <2>1, <2>2, Zenon DEF Setup, EventDetected, AddDetect, AddCallback, WaitForEdge, AddThread,
       Spawn, WaitFirst, WaitEdge
<1>6. fdList \in Seq(EntryType)
  BY Typed, Zenon DEF GpioInv, LibTypes
<1>7. /\ SameList(fdList, fdList')
      /\ \A i \in DOMAIN fdList : fdList'[i].initial = fdList[i].initial
  <2>1. CASE fdList' = fdList
    BY <2>1, <1>6, Zenon DEF SameList
  <2>2. CASE \E p \in Pins, e \in BOOLEAN : fdList' = Mark(p, e)
    <3>1. PICK p \in Pins, e \in BOOLEAN : fdList' = Mark(p, e)
      BY <2>2, Zenon
    <3>2. /\ SameList(fdList, Mark(p, e))
          /\ \A i \in DOMAIN fdList : Mark(p, e)[i].initial = fdList[i].initial
      BY <1>6, MarkSame
    <3>3. QED
      BY <3>1, <3>2, Zenon
  <2>3. QED
    BY <1>2, <2>1, <2>2
<1>8. \A p, f : Maps(p, f)' <=> Maps(p, f)
  BY <1>6, <1>7, SameMaps, Zenon
<1>9. ASSUME NEW t \in Threads, NEW p \in Pins, Handles(t, p)' PROVE Handles(t, p)
  <2>1. thread'[t].pc \in {"read", "look", "test"}
    BY <1>9, Zenon DEF Handles
  <2>2. thread'[t] = thread[t]
    BY <2>1, <1>5, Zenon
  <2>3. QED
    BY <1>8, <1>9, <2>2, Zenon DEF Handles
<1>10. \A t \in Threads : thread'[t].pc \in WalkPCs => thread'[t] = thread[t]
  BY <1>5, Zenon
<1>11. QED
  BY <1>1, <1>4, <1>7, <1>9, <1>10, WorkSame, Zenon

\* A new value file, of a pin that had none: nothing is registered or on its way for it.
LEMMA WorkOpened ==
  ASSUME GpioInv, GpioInv', ServeInv, WorkInv, NEW p \in Pins, FreeFds # {}, EntriesOf(p) = {},
         fdList' = <<Entry(p, LowestFree)>> \o fdList, mpc' # "crashed",
         UNCHANGED <<epSet, ready, thread, cCallbacks, pyCallbacks, invoked, edges>>
  PROVE  WorkInv'
<1>1. PICK f \in Fds : f = LowestFree /\ f \notin used
  BY LowestFreeIsFree, Zenon
<1>2. PICK s \in Seq(EntryType) : s = fdList
  BY ServeLists, Zenon
<1>3. Longer(s, fdList', p, f)
  BY <1>1, <1>2, EntryLonger, Zenon
<1>4. PICK l \in Seq(EntryType) : l = fdList' /\ Longer(s, l, p, f)
  BY <1>3, Zenon DEF Longer
<1>5. \A q, g : MapsIn(l, q, g) <=> MapsIn(s, q, g) \/ (q = p /\ g = f)
  BY <1>4, LongerLookups
<1>6. ASSUME NEW q, NEW g PROVE Maps(q, g)' <=> Maps(q, g) \/ (q = p /\ g = f)
  <2>1. (Maps(q, g) <=> MapsIn(fdList, q, g)) /\ (Maps(q, g)' <=> MapsIn(fdList', q, g))
    BY Zenon DEF Maps, MapsIn
  <2>2. MapsIn(l, q, g) <=> MapsIn(s, q, g) \/ (q = p /\ g = f)
    BY <1>5, Zenon
  <2>3. QED
    BY <1>2, <1>4, <2>1, <2>2, Zenon
<1>7. f \notin epSet /\ f \notin ready /\ f \notin Listed
  BY <1>1, ServeLists, Zenon
<1>8. \A q : (Registered(q)' <=> Registered(q)) /\ (Ready(q)' <=> Ready(q))
  BY <1>6, <1>7, Zenon DEF Registered, Ready
<1>9. ASSUME NEW q \in Pins, NEW t \in Threads, Handles(t, q)' PROVE Handles(t, q)
  <2>1. thread[t].pc \in {"read", "look"} => thread[t].fd # f
    BY <1>7, Zenon DEF ServeInv
  <2>2. QED
    BY <1>9, <2>1, <1>6, Zenon DEF Handles
<1>10. \A q : gpio_initial(q) => gpio_initial(q)'
  <2>1. \A q : InitialIn(s, q) => InitialIn(l, q)
    BY <1>4, LongerInitial, Zenon
  <2>2. QED
    BY <2>1, <1>2, <1>4, InitialLookups, Zenon
<1>11. ~Registered(p)
  BY Zenon DEF Registered, Maps, EntriesOf
<1>12. ASSUME NEW q, q # p, gpio_initial(q)' PROVE gpio_initial(q)
  <2>1. PICK i \in DOMAIN l : l[i].gpio = q /\ l[i].initial
    BY <1>4, <1>12, InitialLookups, Zenon DEF InitialIn
  <2>2. /\ DOMAIN l = 1 .. Len(s) + 1 /\ l[1].gpio = p
        /\ \A j \in DOMAIN s : l[j + 1] = s[j]
    BY <1>4, SMT DEF Longer, Entry
  <2>3. Len(s) \in Nat /\ DOMAIN s = 1 .. Len(s)
    BY ListFields
  <2>4. i # 1
    BY <1>12, <2>1, <2>2
  <2>5. i - 1 \in DOMAIN s /\ l[i - 1 + 1] = s[i - 1] /\ i - 1 + 1 = i
    BY <2>2, <2>3, <2>4, SMT
  <2>6. PICK j \in DOMAIN s : l[i] = s[j]
    BY <2>5
  <2>7. QED
    BY <1>2, <2>1, <2>6, InitialLookups, Zenon DEF InitialIn
<1>13. \A q \in Pins : Unreported(q)' => Unreported(q)
  BY <1>8, <1>11, <1>12, Zenon DEF Unreported
<1>14. ASSUME NEW q \in Pins PROVE Due(q) <= Due(q)'
  <2>1. edges <= edges'
    <3>1. edges \in Nat
      BY WorkCounts, Zenon
    <3>2. QED
      BY <3>1, SMT
  <2>2. QED
    BY <2>1, <1>8, <1>9, <1>10, DueGrows, Zenon
<1>15. QED
  BY <1>13, <1>14, WorkKept, Zenon

\* Registration: it makes a report, and the pin's entry is marked as initial.
LEMMA WorkRegistered ==
  ASSUME GpioInv, GpioInv', ServeInv, ReportInv, WorkInv, mpc = "addepoll", mfd \notin epSet,
         epSet' = epSet \cup {mfd}, ready' = ready \cup {mfd}, mpc' # "crashed",
         UNCHANGED <<fdList, thread, cCallbacks, pyCallbacks, invoked, edges>>
  PROVE  WorkInv'
<1>1. mpin \in Pins /\ mfd \in Fds /\ mfd # 0 /\ mfd = fd_lookup(mpin)
  BY Typed, Zenon DEF GpioInv, CallInv, PinSteps, CallTypes
<1>2. PICK p \in Pins, f \in Fds : p = mpin /\ f = mfd
  BY <1>1, Zenon
<1>3. fdList \in Seq(EntryType) /\ f = FdIn(fdList, p) /\ f # 0
  BY <1>1, <1>2, ServeLists, Lookups, Zenon
<1>4. Maps(p, f)
  <2>1. PICK s \in Seq(EntryType) : s = fdList
    BY <1>3, Zenon
  <2>2. FdIn(s, p) # 0 => MapsIn(s, p, FdIn(s, p))
    BY FdFound, Zenon
  <2>3. MapsIn(s, p, f)
    BY <1>3, <2>1, <2>2, Zenon
  <2>4. QED
    BY <2>1, <2>3, Zenon DEF Maps, MapsIn
<1>5. \A q, g : Maps(q, g)' <=> Maps(q, g)
  BY Zenon DEF Maps
<1>6. \A t \in Threads, q \in Pins : Handles(t, q)' <=> Handles(t, q)
  BY <1>5, Zenon DEF Handles
<1>7. ~Registered(p)
  <2>1. SUFFICES ASSUME NEW g \in epSet, Maps(p, g) PROVE FALSE
    BY Zenon DEF Registered
  <2>2. g = f
    BY <2>1, <1>4, ServeLists, MapsOne, Zenon
  <2>3. QED
    BY <2>1, <2>2, <1>2, Zenon
<1>8. Unreported(p) /\ (\A t \in Threads : ~Handles(t, p)) /\ AllInitial(fdList, p)
  BY <1>7, InitialLookups, Zenon DEF ReportInv, ReportOf, Unreported
<1>9. gpio_initial(p)'
  <2>1. InitialIn(fdList, p)
    BY <1>4, <1>8, Zenon DEF Maps, AllInitial, InitialIn
  <2>2. QED
    BY <2>1, InitialLookups, Zenon
<1>10. edges \in Nat /\ edges' = edges
  BY WorkCounts, Zenon
<1>11. 0 <= Due(p)'
  <2>1. Handlers(p)' = {}
    BY <1>6, <1>8, Zenon DEF Handlers
  <2>2. Cardinality(Handlers(p)') = 0
    BY <2>1, FS_EmptySet
  <2>3. First(p)' = 1
    BY <1>9, Zenon DEF First
  <2>4. Tokens(p)' <= 1 /\ Tokens(p)' \in Nat
    BY <2>2, SMT DEF Tokens
  <2>5. Due(p)' = edges + 1 - Tokens(p)'
    BY <2>3, Zenon DEF Due
  <2>6. QED
    BY <2>4, <2>5, <1>10, SMT
<1>12. ASSUME NEW q \in Pins, q # p PROVE Due(q) <= Due(q)'
  <2>1. ASSUME Ready(q)' PROVE Ready(q)
    <3>1. PICK g \in ready \cup {f} : Maps(q, g)
      BY <2>1, <1>2, <1>5, Zenon DEF Ready
    <3>2. g # f
      <4>1. g \in Fds
        BY ServeLists, Zenon
      <4>2. p = q <=> f = g
        BY <3>1, <4>1, <1>4, MapsOne
      <4>3. QED
        BY <4>2, <1>12
    <3>3. QED
      BY <3>1, <3>2, Zenon DEF Ready
  <2>2. gpio_initial(q) => gpio_initial(q)'
    BY InitialLookups, Zenon
  <2>3. edges <= edges'
    BY <1>10, SMT
  <2>4. QED
    BY <2>1, <2>2, <2>3, <1>6, DueGrows, Zenon
<1>13. ASSUME NEW q \in Pins, Unreported(q)' PROVE Unreported(q)
  <2>1. gpio_initial(q)' => gpio_initial(q)
    BY InitialLookups, Zenon
  <2>2. Registered(q) => Registered(q)'
    BY <1>5, Zenon DEF Registered
  <2>3. QED
    BY <2>1, <2>2, <1>13, Zenon DEF Unreported
<1>14. QED
  BY <1>8, <1>11, <1>12, <1>13, WorkKept, Zenon

LEMMA WorkEpoll ==
  ASSUME GpioInv, GpioInv', ServeInv, ReportInv, WorkInv, AddEpoll PROVE WorkInv'
<1>1. /\ mpc = "addepoll" /\ mpc' \in {"idle", "addthread"}
      /\ UNCHANGED <<fdList, thread, cCallbacks, pyCallbacks, invoked, edges>>
  BY Zenon DEF AddEpoll, Return, listVars
<1>2. mpc' # "crashed"
  BY <1>1, SMT
<1>3. CASE mfd \notin epSet /\ Register(mfd)
  BY <1>1, <1>2, <1>3, WorkRegistered, Zenon DEF Register
<1>4. CASE UNCHANGED <<epSet, ready>>
  <2>1. fdList \in Seq(EntryType)
    BY Typed, Zenon DEF GpioInv, LibTypes
  <2>2. SameList(fdList, fdList') /\ \A p, f : Maps(p, f)' <=> Maps(p, f)
    BY <1>1, <2>1, Zenon DEF SameList, Maps
  <2>3. \A t \in Threads : \A p \in Pins : Handles(t, p)' => Handles(t, p)
    BY <1>1, <2>2, Zenon DEF Handles
  <2>4. QED
    BY <1>1, <1>2, <1>4, <2>2, <2>3, WorkSame, Zenon
<1>5. QED
  BY <1>3, <1>4, Zenon DEF AddEpoll

LEMMA WorkOpen ==
  ASSUME GpioInv, GpioInv', ServeInv, WorkInv, AddOpen \/ WaitOpen \/ \E p \in Pins : Input(p)
  PROVE  WorkInv'
<1>1. /\ UNCHANGED <<epSet, ready, thread, cCallbacks, pyCallbacks, invoked, edges>>
      /\ mpc \in {"addopen", "waitopen"} => mpin \in Pins /\ mfd = fd_lookup(mpin)
  BY Zenon DEF AddOpen, WaitOpen, Input, histVars, listVars, GpioInv, CallInv, PinSteps
<1>2. mpc' \in {"idle", "addepoll", "waitfirst"}
  BY Zenon DEF AddOpen, OpenFailed, WaitOpen, Input, Begin, Return
<1>3. mpc' # "crashed"
  BY <1>2, SMT
<1>4. \/ fdList' = fdList
      \/ \E p \in Pins : /\ FreeFds # {} /\ fd_lookup(p) = 0
                         /\ fdList' = <<Entry(p, LowestFree)>> \o fdList
  BY <1>1, Zenon DEF AddOpen, OpenFailed, WaitOpen, Input
<1>5. fdList \in Seq(EntryType)
  BY Typed, Zenon DEF GpioInv, LibTypes
<1>6. CASE fdList' = fdList
  <2>1. SameList(fdList, fdList') /\ \A p, f : Maps(p, f)' <=> Maps(p, f)
    BY <1>5, <1>6, Zenon DEF SameList, Maps
  <2>2. \A t \in Threads : \A p \in Pins : Handles(t, p)' => Handles(t, p)
    BY <1>1, <2>1, Zenon DEF Handles
  <2>3. QED
    BY <1>1, <1>3, <1>6, <2>1, <2>2, WorkSame, Zenon
<1>7. ASSUME NEW p \in Pins, FreeFds # {}, fd_lookup(p) = 0,
             fdList' = <<Entry(p, LowestFree)>> \o fdList
      PROVE  WorkInv'
  <2>1. EntriesOf(p) = {}
    <3>1. SUFFICES ASSUME EntriesOf(p) # {} PROVE FALSE
      OBVIOUS
    <3>2. DOMAIN fdList \subseteq Nat /\ \A i \in DOMAIN fdList : fdList[i].fd \in Fds
      BY <1>5, ListFields, SMT
    <3>3. EntriesOf(p) \subseteq DOMAIN fdList
      BY Zenon DEF EntriesOf
    <3>4. FirstOf(EntriesOf(p)) \in EntriesOf(p)
      BY <3>1, <3>2, <3>3, FirstIsIn, Zenon
    <3>5. fd_lookup(p) \in Fds
      BY <3>1, <3>2, <3>3, <3>4, Zenon DEF fd_lookup
    <3>6. QED
      BY <3>5, <1>7, PinsPositive, Zenon
  <2>2. QED
    BY <2>1, <1>1, <1>3, <1>7, WorkOpened, Zenon
<1>8. QED
  BY <1>4, <1>6, <1>7

\* An edge: it pays for the report it makes.
LEMMA WorkEdge ==
  ASSUME GpioInv, GpioInv', ServeInv, WorkInv, NEW p \in Pins, Edge(p) PROVE WorkInv'
<1>1. /\ ready' = ready \cup {f \in epSet : gpio_lookup(f) = p} /\ edges' = edges + 1
      /\ UNCHANGED <<fdList, epSet, thread, mpc, cCallbacks, pyCallbacks, invoked>>
  BY Zenon DEF Edge, listVars
<1>2. fdList \in Seq(EntryType) /\ edges \in Nat
  BY ServeLists, WorkCounts, Zenon
<1>3. \A q, f : Maps(q, f)' <=> Maps(q, f)
  BY <1>1, Zenon DEF Maps
<1>4. \A t \in Threads, q \in Pins : Handles(t, q)' <=> Handles(t, q)
  BY <1>1, <1>3, Zenon DEF Handles
<1>5. \A q : gpio_initial(q)' <=> gpio_initial(q)
  BY <1>1, InitialLookups, Zenon
<1>6. \A q : Unreported(q)' => Unreported(q)
  BY <1>1, <1>3, <1>5, Zenon DEF Unreported, Registered
<1>7. Due(p) <= Due(p)'
  <2>1. Handlers(p)' = Handlers(p)
    BY <1>4, Zenon DEF Handlers
  <2>2. First(p)' = First(p) /\ First(p) \in {0, 1} /\ Cardinality(Handlers(p)) \in Nat
    BY <1>5, WorkCounts, Zenon DEF First
  <2>3. Tokens(p)' <= Tokens(p) + 1 /\ Tokens(p) \in Nat /\ Tokens(p)' \in Nat
    BY <2>1, <2>2, SMT DEF Tokens
  <2>4. QED
    BY <1>1, <1>2, <2>2, <2>3, SMT DEF Due
<1>8. ASSUME NEW q \in Pins, q # p PROVE Due(q) <= Due(q)'
  <2>1. ASSUME NEW f \in ready', Maps(q, f) PROVE f \in ready
    <3>1. SUFFICES ASSUME f \in epSet, gpio_lookup(f) = p PROVE FALSE
      BY <1>1, <2>1, Zenon
    <3>2. MapsIn(fdList, q, f) /\ f \in Fds /\ OnePerPin(fdList) /\ Apart(fdList, {})
      BY <2>1, <3>1, ServeLists, Zenon
    <3>3. PinIn(fdList, f) = q
      BY <1>2, <3>2, LookupsPair, Zenon
    <3>4. gpio_lookup(f) = PinIn(fdList, f)
      BY Lookups, Zenon
    <3>5. QED
      BY <1>8, <3>1, <3>3, <3>4, Zenon
  <2>2. Ready(q)' => Ready(q)
    BY <2>1, <1>3, Zenon DEF Ready
  <2>3. edges <= edges'
    BY <1>1, <1>2, SMT
  <2>4. QED
    BY <2>2, <2>3, <1>4, <1>5, DueGrows, Zenon
<1>9. mpc' # "crashed"
  BY <1>1, Zenon DEF WorkInv
<1>10. \A q \in Pins : Due(q) <= Due(q)'
  BY <1>7, <1>8, Zenon
<1>11. QED
  BY <1>1, <1>6, <1>9, <1>10, WorkKept, Zenon

(* The poll threads' steps.                                                 *)
LEMMA WorkTaken ==
  ASSUME GpioInv, GpioInv', ServeInv, WorkInv, NEW t \in Threads, PollWait(t) PROVE WorkInv'
<1>1. PICK f \in ready : /\ ready' = ready \ {f}
                         /\ thread' = [thread EXCEPT ![t] = [@ EXCEPT !.pc = "read", !.fd = f]]
  BY Zenon DEF PollWait
<1>2. UNCHANGED <<fdList, epSet, cCallbacks, pyCallbacks, invoked, edges, mpc>>
  BY Zenon DEF PollWait, histVars, listVars, mainVars
<1>3. f \in Fds /\ f \in epSet /\ ready \subseteq Fds /\ fdList \in Seq(EntryType)
  BY ServeLists, Zenon
<1>4. Others(t) /\ thread'[t].pc = "read" /\ thread'[t].fd = f
  <2>1. ThreadTypes
    BY Typed, Zenon DEF GpioInv
  <2>2. QED
    BY <1>1, <1>3, <2>1, ThreadTakes, Zenon
<1>5. \A p, g : Maps(p, g)' <=> Maps(p, g)
  BY <1>2, Zenon DEF Maps
<1>6. \A p : gpio_initial(p)' <=> gpio_initial(p)
  BY <1>2, InitialLookups, Zenon
<1>7. \A p : Unreported(p)' => Unreported(p)
  BY <1>2, <1>5, <1>6, Zenon DEF Unreported, Registered
<1>8. ASSUME NEW p \in Pins, NEW u \in Threads, u # t, Handles(u, p)' PROVE Handles(u, p)
  BY <1>4, <1>5, <1>8, Zenon DEF Handles, Others
<1>9. edges \in Nat /\ edges' = edges /\ edges <= edges'
  <2>1. edges \in Nat /\ edges' = edges
    BY <1>2, WorkCounts, Zenon
  <2>2. QED
    BY <2>1, SMT
<1>10. ASSUME NEW p \in Pins, Maps(p, f) PROVE Due(p) <= Due(p)'
  <2>1. ~Ready(p)'
    <3>1. SUFFICES ASSUME NEW g \in ready, g # f, Maps(p, g) PROVE FALSE
      BY <1>1, <1>5, Zenon DEF Ready
    <3>2. g \in Fds
      BY <1>3, Zenon
    <3>3. p = p <=> f = g
      BY <3>1, <3>2, <1>3, <1>10, MapsOne
    <3>4. QED
      BY <3>1, <3>3
  <2>2. Ready(p)
    BY <1>10, Zenon DEF Ready
  <2>3. Handlers(p)' \subseteq Handlers(p) \cup {t}
    BY <1>8, Zenon DEF Handlers
  <2>4. IsFiniteSet(Handlers(p)) /\ Cardinality(Handlers(p)) \in Nat
    BY WorkCounts, Zenon
  <2>5. /\ IsFiniteSet(Handlers(p) \cup {t})
        /\ Cardinality(Handlers(p) \cup {t}) \in {Cardinality(Handlers(p)), Cardinality(Handlers(p)) + 1}
    BY <2>4, FS_AddElement
  <2>6. /\ Cardinality(Handlers(p)') <= Cardinality(Handlers(p) \cup {t})
        /\ Cardinality(Handlers(p)') \in Nat
    BY <2>3, <2>5, Smaller, Zenon
  <2>7. Tokens(p)' <= Tokens(p) /\ Tokens(p)' \in Nat /\ Tokens(p) \in Nat
    BY <2>1, <2>2, <2>4, <2>5, <2>6, SMT DEF Tokens
  <2>8. First(p)' = First(p) /\ First(p) \in {0, 1}
    BY <1>6, WorkCounts, Zenon DEF First
  <2>9. QED
    BY <2>7, <2>8, <1>9, SMT DEF Due
<1>11. ASSUME NEW p \in Pins, ~Maps(p, f) PROVE Due(p) <= Due(p)'
  <2>1. Ready(p)' => Ready(p)
    BY <1>1, <1>5, Zenon DEF Ready
  <2>2. thread'[t].pc # "test"
    BY <1>4
  <2>3. ~Handles(t, p)'
    BY <2>2, <1>4, <1>5, <1>11, Zenon DEF Handles
  <2>4. \A u \in Threads : Handles(u, p)' => Handles(u, p)
    BY <2>3, <1>8, Zenon
  <2>5. QED
    BY <2>1, <2>4, <1>6, <1>9, DueGrows, Zenon
<1>12. ASSUME NEW u \in Threads, thread'[u].pc \in WalkPCs PROVE thread'[u] = thread[u]
  <2>1. u # t
    BY <1>4, <1>12, SMT DEF WalkPCs
  <2>2. QED
    BY <2>1, <1>4, Zenon DEF Others
<1>13. mpc' # "crashed"
  BY <1>2, Zenon DEF WorkInv
<1>14. \A p \in Pins : Due(p) <= Due(p)'
  BY <1>10, <1>11, Zenon
<1>15. QED
  BY <1>2, <1>7, <1>12, <1>13, <1>14, WorkKept, Zenon

\* The first report of a pin pays for no walk.
LEMMA WorkFirst ==
  ASSUME GpioInv, GpioInv', WorkInv, NEW t \in Threads, NEW p \in Pins,
         thread[t].pc = "test", thread[t].gpio = p, gpio_initial(p),
         fdList' = set_initial_false(p), Goto(t, "check"), mpc' # "crashed",
         UNCHANGED <<epSet, ready, cCallbacks, pyCallbacks, invoked, edges>>
  PROVE  WorkInv'
<1>1. fdList \in Seq(EntryType) /\ ThreadTypes
  BY Typed, Zenon DEF GpioInv, LibTypes
<1>2. /\ SameList(fdList, fdList')
      /\ \A i \in DOMAIN fdList : IF fdList[i].gpio = p THEN fdList'[i].initial = FALSE
                                  ELSE fdList'[i].initial = fdList[i].initial
  BY <1>1, InitialSame, Zenon
<1>3. Others(t) /\ thread'[t].pc = "check"
  <2>1. "check" \in ThreadPCs
    BY Zenon DEF ThreadPCs
  <2>2. QED
    BY <1>1, <2>1, ThreadGoes, Zenon
<1>4. \A q, f : Maps(q, f)' <=> Maps(q, f)
  BY <1>1, <1>2, SameMaps, Zenon
<1>5. ASSUME NEW q \in Pins, NEW u \in Threads, Handles(u, q)' PROVE u # t /\ Handles(u, q)
  <2>1. thread'[t].pc \notin {"read", "look", "test"}
    BY <1>3, SMT
  <2>2. u # t
    BY <1>5, <2>1, Zenon DEF Handles
  <2>3. QED
    BY <1>3, <1>4, <1>5, <2>2, Zenon DEF Handles, Others
<1>6. \A q : (Ready(q)' <=> Ready(q)) /\ (Registered(q)' <=> Registered(q))
  BY <1>4, Zenon DEF Ready, Registered
<1>7. edges \in Nat /\ edges' = edges /\ edges <= edges'
  <2>1. edges \in Nat /\ edges' = edges
    BY WorkCounts, Zenon
  <2>2. QED
    BY <2>1, SMT
<1>8. Due(p) <= Due(p)'
  <2>1. Handlers(p)' \subseteq Handlers(p) \ {t} /\ t \in Handlers(p)
    BY <1>5, Zenon DEF Handlers, Handles
  <2>2. IsFiniteSet(Handlers(p)) /\ Cardinality(Handlers(p)) \in Nat
    BY WorkCounts, Zenon
  <2>3. /\ IsFiniteSet(Handlers(p) \ {t})
        /\ Cardinality(Handlers(p) \ {t}) = Cardinality(Handlers(p)) - 1
    BY <2>1, <2>2, FS_RemoveElement
  <2>4. /\ Cardinality(Handlers(p)') <= Cardinality(Handlers(p) \ {t})
        /\ Cardinality(Handlers(p)') \in Nat
    BY <2>1, <2>3, Smaller, Zenon
  <2>5. Tokens(p)' <= Tokens(p) - 1 /\ Tokens(p)' \in Nat /\ Tokens(p) \in Nat
    BY <1>6, <2>2, <2>3, <2>4, SMT DEF Tokens
  <2>6. First(p) = 1 /\ First(p)' \in {0, 1}
    BY WorkCountsNext, Zenon DEF First
  <2>7. QED
    BY <2>5, <2>6, <1>7, SMT DEF Due
<1>9. /\ DOMAIN fdList' = DOMAIN fdList
      /\ \A i \in DOMAIN fdList : fdList'[i].gpio = fdList[i].gpio
  BY <1>2, Zenon DEF SameList
<1>10. ASSUME NEW q \in Pins, q # p PROVE gpio_initial(q)' <=> gpio_initial(q)
  <2>1. \A i \in DOMAIN fdList : fdList[i].gpio = q => fdList'[i].initial = fdList[i].initial
    BY <1>2, <1>10, Zenon
  <2>2. InitialIn(fdList', q) <=> InitialIn(fdList, q)
    BY <1>9, <2>1, Zenon DEF InitialIn
  <2>3. QED
    BY <2>2, InitialLookups, Zenon
<1>11. ASSUME NEW q \in Pins, q # p PROVE Due(q) <= Due(q)'
  BY <1>5, <1>6, <1>7, <1>10, <1>11, DueGrows, Zenon
<1>12. \A q \in Pins : (Unreported(q)' => Unreported(q)) /\ Due(q) <= Due(q)'
  BY <1>6, <1>8, <1>10, <1>11, Zenon DEF Unreported
<1>13. ASSUME NEW u \in Threads, thread'[u].pc \in WalkPCs PROVE thread'[u] = thread[u]
  <2>1. u # t
    BY <1>3, <1>13, SMT DEF WalkPCs
  <2>2. QED
    BY <2>1, <1>3, Zenon DEF Others
<1>14. QED
  BY <1>12, <1>13, WorkKept, Zenon

\* Any other report pays for the walk that it starts.
LEMMA WorkRecorded ==
  ASSUME GpioInv, GpioInv', ReportInv, WorkInv, NEW t \in Threads, NEW p \in Pins \cup {0},
         thread[t].pc = "test", thread[t].gpio = p, ~gpio_initial(p), Goto(t, "run"),
         UNCHANGED <<fdList, epSet, ready, cCallbacks, pyCallbacks, invoked, edges>>,
         mpc' # "crashed"
  PROVE  WorkInv'
<1>1. Others(t) /\ thread'[t].pc = "run" /\ thread'[t].gpio = p
  <2>1. ThreadTypes /\ "run" \in ThreadPCs
    BY Typed, Zenon DEF GpioInv, ThreadPCs
  <2>2. QED
    BY <2>1, ThreadGoes, Zenon
<1>2. /\ \A q, f : Maps(q, f)' <=> Maps(q, f)
      /\ \A q : gpio_initial(q)' <=> gpio_initial(q)
  BY InitialLookups, Zenon DEF Maps
<1>3. \A q : /\ (Ready(q)' <=> Ready(q)) /\ (Registered(q)' <=> Registered(q))
             /\ (Unreported(q)' <=> Unreported(q))
  BY <1>2, Zenon DEF Ready, Registered, Unreported
<1>4. ASSUME NEW q \in Pins, NEW u \in Threads, Handles(u, q)' PROVE u # t /\ Handles(u, q)
  <2>1. thread'[t].pc \notin {"read", "look", "test"}
    BY <1>1, SMT
  <2>2. u # t
    BY <1>4, <2>1, Zenon DEF Handles
  <2>3. QED
    BY <1>1, <1>2, <1>4, <2>2, Zenon DEF Handles, Others
<1>5. ASSUME NEW q, NEW u \in Threads, Walks(u, q)', u # t \/ q # p PROVE Walks(u, q)
  <2>1. u # t
    BY <1>1, <1>5, Zenon DEF Walks
  <2>2. QED
    BY <1>1, <1>5, <2>1, Zenon DEF Walks, Others
<1>6. NodesInv'
  BY Zenon DEF WorkInv, NodesInv, Holds
<1>7. ASSUME NEW u \in Threads PROVE WalkOf(u)'
  <2>1. CASE u = t
    <3>1. /\ thread'[t].pc \notin {"py", "cnext", "gil", "call"} /\ thread'[t].pc # "c"
          /\ thread'[t].pc \notin {"gil", "call"} /\ thread'[t].pc # "py"
      BY <1>1, SMT
    <3>2. QED
      BY <2>1, <3>1, Zenon DEF WalkOf
  <2>2. CASE u # t
    <3>1. thread'[u] = thread[u] /\ WalkOf(u)
      BY <2>2, <1>1, Zenon DEF Others, WorkInv
    <3>2. QED
      BY <3>1, Zenon DEF WalkOf, Holds
  <2>3. QED
    BY <2>1, <2>2
<1>8. ASSUME NEW q \in Pins PROVE Fresh(q)'
  <2>1. CASE q # p
    BY <1>3, <1>5, <2>1, Zenon DEF WorkInv, Fresh
  <2>2. CASE q = p
    <3>1. Handles(t, p) /\ ReportOf(p)
      BY <2>2, Zenon DEF Handles, ReportInv
    <3>2. ~Unreported(p)'
      BY <1>3, <3>1, Zenon DEF Unreported, ReportOf
    <3>3. QED
      BY <2>2, <3>2, Zenon DEF Fresh
  <2>3. QED
    BY <2>1, <2>2
<1>9. edges \in Nat /\ edges' = edges /\ edges <= edges'
  <2>1. edges \in Nat /\ edges' = edges
    BY WorkCounts, Zenon
  <2>2. QED
    BY <2>1, SMT
<1>10. ASSUME NEW q \in Pins PROVE Due(q) <= Due(q)'
  BY <1>2, <1>3, <1>4, <1>9, DueGrows, Zenon
<1>11. p \in Pins => Due(p) + 1 <= Due(p)'
  <2>1. SUFFICES ASSUME p \in Pins PROVE Due(p) + 1 <= Due(p)'
    OBVIOUS
  <2>2. Handlers(p)' \subseteq Handlers(p) \ {t} /\ t \in Handlers(p)
    BY <1>4, <2>1, Zenon DEF Handlers, Handles
  <2>3. IsFiniteSet(Handlers(p)) /\ Cardinality(Handlers(p)) \in Nat
    BY WorkCounts, Zenon
  <2>4. /\ IsFiniteSet(Handlers(p) \ {t})
        /\ Cardinality(Handlers(p) \ {t}) = Cardinality(Handlers(p)) - 1
    BY <2>2, <2>3, FS_RemoveElement
  <2>5. /\ Cardinality(Handlers(p)') <= Cardinality(Handlers(p) \ {t})
        /\ Cardinality(Handlers(p)') \in Nat
    BY <2>2, <2>4, Smaller, Zenon
  <2>6. Tokens(p)' <= Tokens(p) - 1 /\ Tokens(p)' \in Nat /\ Tokens(p) \in Nat
    BY <1>3, <2>3, <2>4, <2>5, SMT DEF Tokens
  <2>7. First(p)' = First(p) /\ First(p) \in {0, 1}
    BY <1>2, WorkCounts, Zenon DEF First
  <2>8. QED
    BY <2>6, <2>7, <1>9, SMT DEF Due
<1>12. ASSUME NEW q \in Pins PROVE Flow(q)'
  <2>1. /\ IsFiniteSet(Walkers(q)) /\ Cardinality(Walkers(q)) \in Nat
        /\ Due(q) \in Int /\ Due(q)' \in Int /\ Cardinality(Walkers(q)) <= Due(q)
    BY WorkCounts, WorkCountsNext, Zenon DEF WorkInv, Flow
  <2>2. CASE q = p
    <3>1. Walkers(q)' \subseteq Walkers(q) \cup {t}
      BY <1>5, Zenon DEF Walkers
    <3>2. /\ IsFiniteSet(Walkers(q) \cup {t})
          /\ Cardinality(Walkers(q) \cup {t}) \in {Cardinality(Walkers(q)), Cardinality(Walkers(q)) + 1}
      BY <2>1, FS_AddElement
    <3>3. /\ Cardinality(Walkers(q)') <= Cardinality(Walkers(q) \cup {t})
          /\ Cardinality(Walkers(q)') \in Nat
      BY <3>1, <3>2, Smaller, Zenon
    <3>4. Due(q) + 1 <= Due(q)'
      BY <1>11, <2>2, Zenon
    <3>5. QED
      BY <2>1, <3>2, <3>3, <3>4, SMT DEF Flow
  <2>3. CASE q # p
    <3>1. Walkers(q)' \subseteq Walkers(q)
      BY <1>5, <2>3, Zenon DEF Walkers
    <3>2. Cardinality(Walkers(q)') <= Cardinality(Walkers(q)) /\ Cardinality(Walkers(q)') \in Nat
      BY <2>1, <3>1, Smaller, Zenon
    <3>3. QED
      BY <2>1, <3>2, <1>10, SMT DEF Flow
  <2>4. QED
    BY <2>2, <2>3
<1>13. ASSUME NEW n \in pyCallbacks PROVE Bound(n)'
  <2>1. n.gpio \in Pins /\ invoked[n.id] \in Nat /\ Bound(n)
    BY NodeFacts, Zenon DEF WorkInv
  <2>2. PICK q \in Pins, i \in Nat : q = n.gpio /\ i = invoked[n.id]
    BY <2>1, Zenon
  <2>3. /\ Due(q) \in Int /\ Due(q)' \in Int /\ Cardinality(cCallbacks) \in Nat
        /\ IsFiniteSet(cCallbacks) /\ IsFiniteSet(Todo(n)) /\ Cardinality(Todo(n)) \in Nat
    BY WorkCounts, WorkCountsNext, TodoFinite, Zenon
  <2>4. PICK d \in Int, e \in Int, k \in Nat, a \in Nat :
          d = Due(q) /\ e = Due(q)' /\ k = Cardinality(cCallbacks) /\ a = Cardinality(Todo(n))
    BY <2>3, Zenon
  <2>5. i + a <= d * k
    BY <2>1, <2>2, <2>4, Zenon DEF Bound
  <2>6. ASSUME NEW u, NEW m, <<u, m>> \in Todo(n)', u # t \/ q # p PROVE <<u, m>> \in Todo(n)
    <3>1. u \in Threads /\ Walks(u, q)' /\ m \in cCallbacks /\ Ahead(u, m.id, n.id)'
      BY <2>2, <2>6, TodoPairs, Zenon
    <3>2. Walks(u, q) /\ thread'[u] = thread[u]
      BY <1>1, <1>5, <2>6, <3>1, Zenon DEF Walks, Others
    <3>3. Ahead(u, m.id, n.id)
      BY <3>1, <3>2, Zenon DEF Ahead
    <3>4. QED
      BY <2>2, <3>1, <3>2, <3>3, TodoPairs, Zenon
  <2>7. PICK b \in Nat : b = Cardinality(Todo(n)') /\ (q = p => b <= a + k) /\ (q # p => b <= a)
    <3>1. CASE q = p
      <4>1. Todo(n)' \subseteq Todo(n) \cup ({t} \X cCallbacks)
        <5>1. SUFFICES ASSUME NEW x \in Todo(n)', x \notin Todo(n) PROVE x \in {t} \X cCallbacks
          BY Zenon
        <5>2. PICK u, m : x = <<u, m>>
          BY TodoPairs, Zenon
        <5>3. u = t /\ m \in cCallbacks
          BY <2>6, <5>1, <5>2, TodoPairs, Zenon
        <5>4. QED
          BY <5>2, <5>3
      <4>2. /\ IsFiniteSet({t} \X cCallbacks)
            /\ Cardinality({t} \X cCallbacks) = Cardinality({t}) * Cardinality(cCallbacks)
        BY <2>3, FS_Singleton, FS_Product
      <4>3. Cardinality({t} \X cCallbacks) = k
        <5>1. Cardinality({t}) = 1
          BY FS_Singleton, Zenon
        <5>2. 1 * k = k
          BY SMT
        <5>3. QED
          BY <2>4, <4>2, <5>1, <5>2, Zenon
      <4>4. /\ IsFiniteSet(Todo(n) \cup ({t} \X cCallbacks))
            /\ Cardinality(Todo(n) \cup ({t} \X cCallbacks))
                 = a + k - Cardinality(Todo(n) \cap ({t} \X cCallbacks))
            /\ Cardinality(Todo(n) \cap ({t} \X cCallbacks)) \in Nat
        BY <2>3, <2>4, <4>2, <4>3, FS_Union, FS_Intersection, FS_CardinalityType
      <4>5. /\ Cardinality(Todo(n)') <= Cardinality(Todo(n) \cup ({t} \X cCallbacks))
            /\ Cardinality(Todo(n)') \in Nat
        BY <4>1, <4>4, Smaller, Zenon
      <4>6. Cardinality(Todo(n)') <= a + k
        BY <4>4, <4>5, SMT
      <4>7. QED
        BY <3>1, <4>5, <4>6, Zenon
    <3>2. CASE q # p
      <4>1. Todo(n)' \subseteq Todo(n)
        <5>1. SUFFICES ASSUME NEW x \in Todo(n)' PROVE x \in Todo(n)
          BY Zenon
        <5>2. PICK u, m : x = <<u, m>>
          BY TodoPairs, Zenon
        <5>3. QED
          BY <2>6, <3>2, <5>2, Zenon
      <4>2. QED
        BY <2>3, <2>4, <3>2, <4>1, Smaller, Zenon
    <3>3. QED
      BY <3>1, <3>2
  <2>8. i + b <= e * k
    <3>1. CASE q = p
      <4>1. d + 1 <= e
        BY <1>11, <2>4, <3>1, Zenon
      <4>2. /\ d * k \in Int /\ (d + 1) * k = d * k + k
            /\ (d + 1) * k <= e * k /\ e * k \in Int
        <5>1. d + 1 \in Int
          BY SMT
        <5>2. (d + 1) * k <= e * k
          BY <4>1, <5>1, Times, Zenon
        <5>3. QED
          BY <5>2, Times, Zenon
      <4>3. QED
        BY <2>5, <2>7, <3>1, <4>2, SMT
    <3>2. CASE q # p
      <4>1. d <= e
        BY <1>10, <2>4, Zenon
      <4>2. d * k <= e * k /\ d * k \in Int /\ e * k \in Int
        BY <4>1, Times, Zenon
      <4>3. QED
        BY <2>5, <2>7, <3>2, <4>2, SMT
    <3>3. QED
      BY <3>1, <3>2
  <2>9. QED
    BY <2>2, <2>4, <2>7, <2>8, Zenon DEF Bound
<1>14. QED
  BY <1>6, <1>7, <1>8, <1>12, <1>13, Zenon DEF WorkInv

(* The walk.                                                                *)
LEMMA ThreadStands ==
  ASSUME ThreadTypes, NEW t \in Threads, NEW pc \in ThreadPCs, NEW n \in Nat
  PROVE  /\ Goto(t, pc) => /\ Others(t) /\ thread'[t].pc = pc
                           /\ thread'[t].gpio = thread[t].gpio
                           /\ thread'[t].c = thread[t].c /\ thread'[t].py = thread[t].py
         /\ ToC(t, n) => /\ Others(t) /\ thread'[t].pc = "c" /\ thread'[t].c = n
                         /\ thread'[t].gpio = thread[t].gpio
         /\ ToPy(t, n) => /\ Others(t) /\ thread'[t].pc = "py" /\ thread'[t].py = n
                          /\ thread'[t].c = thread[t].c /\ thread'[t].gpio = thread[t].gpio
<1>1. PICK r \in ThreadType : r = thread[t]
  BY Zenon DEF ThreadTypes
<1>2. ASSUME Goto(t, pc)
      PROVE  /\ Others(t) /\ thread'[t].pc = pc /\ thread'[t].gpio = thread[t].gpio
             /\ thread'[t].c = thread[t].c /\ thread'[t].py = thread[t].py
  <2>1. /\ [r EXCEPT !.pc = pc] \in ThreadType
        /\ [r EXCEPT !.pc = pc].pc = pc /\ [r EXCEPT !.pc = pc].gpio = r.gpio
        /\ [r EXCEPT !.pc = pc].c = r.c /\ [r EXCEPT !.pc = pc].py = r.py
    BY SMT DEF ThreadType
  <2>2. PICK e \in ThreadType : /\ e = [r EXCEPT !.pc = pc] /\ e.pc = pc /\ e.gpio = r.gpio
                                /\ e.c = r.c /\ e.py = r.py
    BY <2>1, Zenon
  <2>3. thread' = [thread EXCEPT ![t] = e]
    BY <1>1, <1>2, <2>2, Zenon DEF Goto
  <2>4. QED
    BY <1>1, <2>2, <2>3, ThreadChanged, Zenon
<1>3. ASSUME ToC(t, n)
      PROVE  /\ Others(t) /\ thread'[t].pc = "c" /\ thread'[t].c = n
             /\ thread'[t].gpio = thread[t].gpio
  <2>1. PICK x \in ThreadType : /\ x = [r EXCEPT !.pc = "c"]
                                /\ x.pc = "c" /\ x.gpio = r.gpio
    <3>1. /\ [r EXCEPT !.pc = "c"] \in ThreadType /\ [r EXCEPT !.pc = "c"].pc = "c"
          /\ [r EXCEPT !.pc = "c"].gpio = r.gpio /\ [r EXCEPT !.pc = "c"].c = r.c
      BY SMT DEF ThreadType, ThreadPCs
    <3>2. QED
      BY <3>1, Zenon
  <2>2. PICK e \in ThreadType : /\ e = [x EXCEPT !.c = n] /\ e.c = n
                                /\ e.pc = "c" /\ e.gpio = r.gpio
    <3>1. /\ [x EXCEPT !.c = n] \in ThreadType /\ [x EXCEPT !.c = n].c = n
          /\ [x EXCEPT !.c = n].pc = x.pc /\ [x EXCEPT !.c = n].gpio = x.gpio
      BY SMT DEF ThreadType
    <3>2. QED
      BY <2>1, <3>1, Zenon
  <2>3. e = [r EXCEPT !.pc = "c", !.c = n]
    BY <2>1, <2>2, SMT DEF ThreadType
  <2>4. thread' = [thread EXCEPT ![t] = e]
    BY <1>1, <1>3, <2>3, Zenon DEF ToC
  <2>5. QED
    BY <1>1, <2>2, <2>4, ThreadChanged, Zenon
<1>4. ASSUME ToPy(t, n)
      PROVE  /\ Others(t) /\ thread'[t].pc = "py" /\ thread'[t].py = n
             /\ thread'[t].c = thread[t].c /\ thread'[t].gpio = thread[t].gpio
  <2>1. PICK x \in ThreadType : /\ x = [r EXCEPT !.pc = "py"]
                                /\ x.pc = "py" /\ x.gpio = r.gpio /\ x.c = r.c
    <3>1. /\ [r EXCEPT !.pc = "py"] \in ThreadType /\ [r EXCEPT !.pc = "py"].pc = "py"
          /\ [r EXCEPT !.pc = "py"].gpio = r.gpio /\ [r EXCEPT !.pc = "py"].c = r.c
      BY SMT DEF ThreadType, ThreadPCs
    <3>2. QED
      BY <3>1, Zenon
  <2>2. PICK e \in ThreadType : /\ e = [x EXCEPT !.py = n] /\ e.py = n
                                /\ e.pc = "py" /\ e.gpio = r.gpio /\ e.c = r.c
    <3>1. /\ [x EXCEPT !.py = n] \in ThreadType /\ [x EXCEPT !.py = n].py = n
          /\ [x EXCEPT !.py = n].pc = x.pc /\ [x EXCEPT !.py = n].gpio = x.gpio /\ [x EXCEPT !.py = n].c = x.c
      BY SMT DEF ThreadType
    <3>2. QED
      BY <2>1, <3>1, Zenon
  <2>3. e = [r EXCEPT !.pc = "py", !.py = n]
    BY <2>1, <2>2, SMT DEF ThreadType
  <2>4. thread' = [thread EXCEPT ![t] = e]
    BY <1>1, <1>4, <2>3, Zenon DEF ToPy
  <2>5. QED
    BY <1>1, <2>2, <2>4, ThreadChanged, Zenon
<1>5. QED
  BY <1>2, <1>3, <1>4

\* the first node of a list, and one behind another
LEMMA ListOrder ==
  ASSUME GpioInv, NEW list, list \in {cCallbacks, pyCallbacks}
  PROVE  /\ HeadOf(list) \in Nat /\ (HeadOf(list) = 0 \/ Holds(list, HeadOf(list)))
         /\ \A n \in Nat : /\ NextOf(list, n) \in Nat
                           /\ NextOf(list, n) = 0 \/ Holds(list, NextOf(list, n))
                           /\ NextOf(list, n) # 0 => NextOf(list, n) > n
         /\ \A m \in list : m.id \in NodeIds /\ m.id \in Nat /\ m.id # 0
<1>1. \A m \in list : m.id \in NodeIds /\ m.id \in Nat /\ m.id # 0
  <2>1. \A m \in list : m.id \in NodeIds
    BY NodeNumbers, Zenon DEF GpioInv
  <2>2. \A i \in NodeIds : i \in Nat /\ i # 0
    BY GpioAssumption, SMT DEF NodeIds
  <2>3. QED
    BY <2>1, <2>2, Zenon
<1>2. ASSUME NEW n \in Nat, Behind(list, n) # {}
      PROVE  /\ FirstOf(Behind(list, n)) \in Nat /\ Holds(list, FirstOf(Behind(list, n)))
             /\ FirstOf(Behind(list, n)) > n
  <2>1. Behind(list, n) \subseteq Nat
    BY <1>1, Zenon DEF Behind
  <2>2. FirstOf(Behind(list, n)) \in Behind(list, n)
    BY <1>2, <2>1, FirstIsIn, Zenon
  <2>3. \A x \in Behind(list, n) : Holds(list, x) /\ x > n
    BY Zenon DEF Behind, Holds
  <2>4. QED
    BY <2>1, <2>2, <2>3, Zenon
<1>3. ASSUME NEW n \in Nat
      PROVE  /\ NextOf(list, n) \in Nat
             /\ NextOf(list, n) = 0 \/ Holds(list, NextOf(list, n))
             /\ NextOf(list, n) # 0 => NextOf(list, n) > n
  BY <1>2, Zenon DEF NextOf
<1>4. HeadOf(list) \in Nat /\ (HeadOf(list) = 0 \/ Holds(list, HeadOf(list)))
  BY <1>2, Zenon DEF HeadOf
<1>5. QED
  BY <1>1, <1>3, <1>4, Zenon

\* A step of a walk: each run of a callback takes one pair off the walk's work.
LEMMA WorkWalked ==
  ASSUME GpioInv, GpioInv', WorkInv, NEW t \in Threads, Others(t),
         UNCHANGED <<fdList, epSet, ready, cCallbacks, pyCallbacks, edges>>, mpc' # "crashed",
         thread[t].pc \in WalkPCs, thread'[t].pc \in Walking,
         thread'[t].gpio = thread[t].gpio, WalkOf(t)',
         \A m \in cCallbacks, n \in pyCallbacks : Ahead(t, m.id, n.id)' => Ahead(t, m.id, n.id),
         \A i \in NodeIds : ~Holds(pyCallbacks, i) => invoked'[i] = invoked[i],
         \A n \in pyCallbacks :
           \/ invoked'[n.id] = invoked[n.id]
           \/ /\ invoked'[n.id] = invoked[n.id] + 1 /\ n.gpio = thread[t].gpio
              /\ \E m \in cCallbacks : Ahead(t, m.id, n.id) /\ ~Ahead(t, m.id, n.id)'
  PROVE  WorkInv'
<1>1. /\ \A q, f : Maps(q, f)' <=> Maps(q, f)
      /\ \A q : gpio_initial(q)' <=> gpio_initial(q)
  BY InitialLookups, Zenon DEF Maps
<1>2. \A q : (Ready(q)' <=> Ready(q)) /\ (Unreported(q)' <=> Unreported(q))
  BY <1>1, Zenon DEF Ready, Registered, Unreported
<1>3. ASSUME NEW q \in Pins, NEW u \in Threads, Handles(u, q)' PROVE Handles(u, q)
  <2>1. thread'[t].pc \notin {"read", "look", "test"}
    BY SMT DEF Walking
  <2>2. u # t
    BY <1>3, <2>1, Zenon DEF Handles
  <2>3. QED
    BY <1>1, <1>3, <2>2, Zenon DEF Handles, Others
<1>4. ASSUME NEW q, NEW u \in Threads, Walks(u, q)' PROVE Walks(u, q)
  BY <1>4, Zenon DEF Walks, Others
<1>5. NodesInv'
  BY Zenon DEF WorkInv, NodesInv, Holds
<1>6. ASSUME NEW u \in Threads, u # t PROVE WalkOf(u)'
  <2>1. thread'[u] = thread[u] /\ WalkOf(u)
    BY <1>6, Zenon DEF Others, WorkInv
  <2>2. QED
    BY <2>1, Zenon DEF WalkOf, Holds
<1>7. ASSUME NEW q \in Pins PROVE Fresh(q)'
  <2>1. SUFFICES ASSUME Unreported(q)
                 PROVE  /\ \A u \in Threads : ~Walks(u, q)'
                        /\ \A n \in pyCallbacks : n.gpio = q => invoked'[n.id] = 0
    BY <1>2, Zenon DEF Fresh
  <2>2. /\ \A u \in Threads : ~Walks(u, q)
        /\ \A n \in pyCallbacks : n.gpio = q => invoked[n.id] = 0
    BY <2>1, Zenon DEF WorkInv, Fresh
  <2>3. thread[t].gpio # q
    BY <2>2, Zenon DEF Walks
  <2>4. QED
    BY <1>4, <2>2, <2>3, Zenon
<1>8. ASSUME NEW q \in Pins PROVE Due(q) <= Due(q)'
  <2>1. edges <= edges'
    <3>1. edges \in Nat /\ edges' = edges
      BY WorkCounts, Zenon
    <3>2. QED
      BY <3>1, SMT
  <2>2. QED
    BY <2>1, <1>1, <1>2, <1>3, DueGrows, Zenon
<1>9. ASSUME NEW q \in Pins PROVE Flow(q)'
  <2>1. /\ IsFiniteSet(Walkers(q)) /\ Cardinality(Walkers(q)) \in Nat
        /\ Due(q) \in Int /\ Due(q)' \in Int /\ Cardinality(Walkers(q)) <= Due(q)
    BY WorkCounts, WorkCountsNext, Zenon DEF WorkInv, Flow
  <2>2. Walkers(q)' \subseteq Walkers(q)
    BY <1>4, Zenon DEF Walkers
  <2>3. Cardinality(Walkers(q)') <= Cardinality(Walkers(q)) /\ Cardinality(Walkers(q)') \in Nat
    BY <2>1, <2>2, Smaller, Zenon
  <2>4. QED
    BY <1>8, <2>1, <2>3, SMT DEF Flow
<1>10. ASSUME NEW n \in pyCallbacks PROVE Bound(n)'
  <2>1. n.gpio \in Pins /\ invoked[n.id] \in Nat /\ Bound(n)
    BY NodeFacts, Zenon DEF WorkInv
  <2>2. PICK q \in Pins, i \in Nat : q = n.gpio /\ i = invoked[n.id]
    BY <2>1, Zenon
  <2>3. /\ Due(q) \in Int /\ Due(q)' \in Int /\ Cardinality(cCallbacks) \in Nat
        /\ IsFiniteSet(Todo(n)) /\ Cardinality(Todo(n)) \in Nat
    BY WorkCounts, WorkCountsNext, TodoFinite, Zenon
  <2>4. PICK d \in Int, e \in Int, k \in Nat, a \in Nat :
          d = Due(q) /\ e = Due(q)' /\ k = Cardinality(cCallbacks) /\ a = Cardinality(Todo(n))
    BY <2>3, Zenon
  <2>5. i + a <= d * k /\ d <= e
    BY <1>8, <2>1, <2>2, <2>4, Zenon DEF Bound
  <2>6. d * k <= e * k /\ d * k \in Int /\ e * k \in Int
    BY <2>5, Times, Zenon
  <2>7. ASSUME NEW u, NEW m, <<u, m>> \in Todo(n)' PROVE <<u, m>> \in Todo(n)
    <3>1. u \in Threads /\ Walks(u, q)' /\ m \in cCallbacks /\ Ahead(u, m.id, n.id)'
      BY <2>2, <2>7, TodoPairs, Zenon
    <3>2. Walks(u, q)
      BY <1>4, <3>1, Zenon
    <3>3. Ahead(u, m.id, n.id)
      <4>1. CASE u = t
        BY <3>1, <4>1, Zenon
      <4>2. CASE u # t
        <5>1. thread'[u] = thread[u]
          BY <3>1, <4>2, Zenon DEF Others
        <5>2. QED
          BY <3>1, <5>1, Zenon DEF Ahead
      <4>3. QED
        BY <4>1, <4>2
    <3>4. QED
      BY <2>2, <3>1, <3>2, <3>3, TodoPairs, Zenon
  <2>8. Todo(n)' \subseteq Todo(n)
    <3>1. SUFFICES ASSUME NEW x \in Todo(n)' PROVE x \in Todo(n)
      BY Zenon
    <3>2. PICK u, m : x = <<u, m>>
      BY TodoPairs, Zenon
    <3>3. QED
      BY <2>7, <3>2, Zenon
  <2>9. PICK j \in Nat, b \in Nat :
          j = invoked'[n.id] /\ b = Cardinality(Todo(n)') /\ j + b <= i + a
    <3>1. CASE invoked'[n.id] = invoked[n.id]
      <4>1. Cardinality(Todo(n)') <= a /\ Cardinality(Todo(n)') \in Nat
        BY <2>3, <2>4, <2>8, Smaller, Zenon
      <4>2. PICK b \in Nat : b = Cardinality(Todo(n)') /\ b <= a
        BY <4>1, Zenon
      <4>3. i + b <= i + a
        BY <4>2, SMT
      <4>4. QED
        BY <2>2, <3>1, <4>2, <4>3, Zenon
    <3>2. CASE /\ invoked'[n.id] = invoked[n.id] + 1 /\ n.gpio = thread[t].gpio
               /\ \E m \in cCallbacks : Ahead(t, m.id, n.id) /\ ~Ahead(t, m.id, n.id)'
      <4>1. PICK m \in cCallbacks : Ahead(t, m.id, n.id) /\ ~Ahead(t, m.id, n.id)'
        BY <3>2, Zenon
      <4>2. <<t, m>> \in Todo(n) /\ <<t, m>> \notin Todo(n)'
        BY <3>2, <4>1, TodoPairs, Zenon DEF Walks
      <4>3. /\ IsFiniteSet(Todo(n) \ {<<t, m>>})
            /\ Cardinality(Todo(n) \ {<<t, m>>}) = a - 1
        BY <2>3, <2>4, <4>2, FS_RemoveElement
      <4>4. Todo(n)' \subseteq Todo(n) \ {<<t, m>>}
        BY <2>8, <4>2, Zenon
      <4>5. Cardinality(Todo(n)') <= a - 1 /\ Cardinality(Todo(n)') \in Nat
        BY <4>3, <4>4, Smaller, Zenon
      <4>6. PICK b \in Nat : b = Cardinality(Todo(n)') /\ b <= a - 1
        BY <4>5, Zenon
      <4>7. i + 1 + b <= i + a /\ i + 1 \in Nat
        BY <4>6, SMT
      <4>8. invoked'[n.id] = i + 1
        BY <2>2, <3>2, Zenon
      <4>9. QED
        BY <4>6, <4>7, <4>8, Zenon
    <3>3. QED
      BY <3>1, <3>2, Zenon
  <2>10. j + b <= e * k
    BY <2>5, <2>6, <2>9, SMT
  <2>11. QED
    BY <2>2, <2>4, <2>9, <2>10, Zenon DEF Bound
<1>11. \A u \in Threads : WalkOf(u)'
  BY <1>6, Zenon
<1>12. QED
  BY <1>5, <1>7, <1>9, <1>10, <1>11, Zenon DEF WorkInv

\* Walking over the library's list: the node called stays the current one until its
\* function is back, the others are left behind.
LEMMA WorkCallbacks ==
  ASSUME GpioInv, GpioInv', WorkInv, NEW t \in Threads,
         RunCallbacks(t) \/ CallbackNode(t) \/ CallbackNext(t)
  PROVE  WorkInv'
<1>1. /\ UNCHANGED <<fdList, epSet, ready, cCallbacks, pyCallbacks, edges>>
      /\ ThreadTypes /\ mpc # "crashed" /\ WalkOf(t)
  BY Typed, Zenon DEF RunCallbacks, CallbackNode, CallbackNext, WalkUnchanged, kernelVars, listVars,
     WorkInv, GpioInv
<1>2. PICK c \in Nat : c = thread[t].c
  BY <1>1, SMT DEF ThreadTypes, ThreadType
<1>3. PICK h \in Nat, g \in Nat, k \in Nat :
        /\ h = HeadOf(cCallbacks) /\ (h = 0 \/ Holds(cCallbacks, h))
        /\ g = HeadOf(pyCallbacks) /\ (g = 0 \/ Holds(pyCallbacks, g))
        /\ k = NextOf(cCallbacks, c) /\ (k = 0 \/ Holds(cCallbacks, k)) /\ (k # 0 => k > c)
  BY ListOrder, Zenon
<1>4. /\ \A m \in cCallbacks : m.id \in Nat /\ m.id # 0
      /\ \A n \in pyCallbacks : n.id \in Nat /\ n.id # 0
  BY ListOrder, Zenon
<1>5. ASSUME UNCHANGED <<mpc, invoked>>, Others(t), thread[t].pc \in {"run", "c", "cnext"},
             thread'[t].pc \in {"c", "py", "check"}, thread'[t].gpio = thread[t].gpio, WalkOf(t)',
             \A m \in cCallbacks, n \in pyCallbacks : Ahead(t, m.id, n.id)' => Ahead(t, m.id, n.id)
      PROVE  WorkInv'
  <2>1. thread[t].pc \in WalkPCs /\ thread'[t].pc \in Walking
    BY <1>5, SMT DEF WalkPCs, Walking
  <2>2. mpc' # "crashed"
    BY <1>1, <1>5, Zenon
  <2>3. QED
    BY <1>1, <1>5, <2>1, <2>2, WorkWalked, Zenon
<1>6. ASSUME thread'[t].pc = "c", thread'[t].c = 0 \/ Holds(cCallbacks, thread'[t].c)
      PROVE  WalkOf(t)'
  <2>1. /\ thread'[t].pc \notin {"py", "cnext", "gil", "call"} /\ thread'[t].pc # "py"
        /\ thread'[t].pc \notin {"gil", "call"}
    BY <1>6, SMT
  <2>2. QED
    BY <1>1, <1>6, <2>1, Zenon DEF WalkOf, Holds
<1>7. CASE RunCallbacks(t)
  <2>1. thread[t].pc = "run" /\ ToC(t, h)
    BY <1>3, <1>7, Zenon DEF RunCallbacks, AtPC
  <2>2. /\ Others(t) /\ thread'[t].pc = "c" /\ thread'[t].c = h
        /\ thread'[t].gpio = thread[t].gpio /\ UNCHANGED <<mpc, invoked>>
    BY <1>1, <2>1, ThreadStands, Zenon DEF ToC, ThreadPCs
  <2>3. \A m \in cCallbacks, n \in pyCallbacks : Ahead(t, m.id, n.id)
    BY <2>1, Zenon DEF Ahead
  <2>4. QED
    BY <1>3, <1>5, <1>6, <2>1, <2>2, <2>3, Zenon
<1>8. CASE CallbackNext(t)
  <2>1. thread[t].pc = "cnext" /\ Holds(cCallbacks, c)
    BY <1>1, <1>2, <1>8, Zenon DEF CallbackNext, AtPC, WalkOf
  <2>2. ToC(t, k)
    BY <1>2, <1>3, <1>8, <2>1, Zenon DEF CallbackNext
  <2>3. /\ Others(t) /\ thread'[t].pc = "c" /\ thread'[t].c = k
        /\ thread'[t].gpio = thread[t].gpio /\ UNCHANGED <<mpc, invoked>>
    BY <1>1, <2>2, ThreadStands, Zenon DEF ToC, ThreadPCs
  <2>4. \A m \in cCallbacks, n \in pyCallbacks : Ahead(t, m.id, n.id)' => Ahead(t, m.id, n.id)
    BY <1>2, <1>3, <1>4, <2>1, <2>3, SMT DEF Ahead
  <2>5. QED
    BY <1>3, <1>5, <1>6, <2>1, <2>3, <2>4, Zenon
<1>9. CASE CallbackNode(t)
  <2>1. thread[t].pc = "c" /\ (c = 0 \/ Holds(cCallbacks, c))
    BY <1>1, <1>2, <1>9, Zenon DEF CallbackNode, AtPC, WalkOf
  <2>2. CASE c = 0 /\ On(t, "check")
    <3>1. /\ Others(t) /\ thread'[t].pc = "check"
          /\ thread'[t].gpio = thread[t].gpio /\ UNCHANGED <<mpc, invoked>>
      BY <1>1, <2>2, ThreadStands, Zenon DEF On, ThreadPCs
    <3>2. /\ WalkOf(t)'
          /\ \A m \in cCallbacks, n \in pyCallbacks : ~Ahead(t, m.id, n.id)'
      BY <3>1, SMT DEF WalkOf, Ahead
    <3>3. QED
      BY <1>5, <2>1, <3>1, <3>2, Zenon
  <2>3. CASE Holds(cCallbacks, c) /\ ToPy(t, g)
    <3>1. /\ Others(t) /\ thread'[t].pc = "py" /\ thread'[t].py = g /\ thread'[t].c = c
          /\ thread'[t].gpio = thread[t].gpio /\ UNCHANGED <<mpc, invoked>>
      BY <1>1, <1>2, <2>3, ThreadStands, Zenon DEF ToPy, ThreadPCs
    <3>2. WalkOf(t)'
      <4>1. thread'[t].pc # "c" /\ thread'[t].pc \notin {"gil", "call"}
        BY <3>1, SMT
      <4>2. QED
        BY <1>1, <1>3, <2>3, <3>1, <4>1, Zenon DEF WalkOf, Holds
    <3>3. c # 0
      BY <1>4, <2>3, Zenon DEF Holds
    <3>4. \A m \in cCallbacks, n \in pyCallbacks : Ahead(t, m.id, n.id)' => Ahead(t, m.id, n.id)
      BY <1>2, <1>4, <2>1, <3>1, <3>3, SMT DEF Ahead
    <3>5. QED
      BY <1>5, <2>1, <3>1, <3>2, <3>4, Zenon
  <2>4. CASE Holds(cCallbacks, c) /\ ToC(t, k)
    <3>1. /\ Others(t) /\ thread'[t].pc = "c" /\ thread'[t].c = k
          /\ thread'[t].gpio = thread[t].gpio /\ UNCHANGED <<mpc, invoked>>
      BY <1>1, <2>4, ThreadStands, Zenon DEF ToC, ThreadPCs
    <3>2. c # 0
      BY <1>4, <2>4, Zenon DEF Holds
    <3>3. \A m \in cCallbacks, n \in pyCallbacks : Ahead(t, m.id, n.id)' => Ahead(t, m.id, n.id)
      BY <1>2, <1>3, <1>4, <2>1, <3>1, <3>2, SMT DEF Ahead
    <3>4. QED
      BY <1>3, <1>5, <1>6, <2>1, <3>1, <3>3, Zenon
  <2>5. QED
    BY <1>2, <1>3, <1>9, <2>1, <2>2, <2>3, <2>4, Zenon DEF CallbackNode
<1>10. QED
  BY <1>7, <1>8, <1>9, Zenon

\* Walking over the module's list for one node of the library's: a callback is run when it
\* is the current one, and left behind after that.
LEMMA WorkPyCallbacks ==
  ASSUME GpioInv, GpioInv', WorkInv, NEW t \in Threads, PyNode(t) \/ PyCall(t) \/ PyReturn(t)
  PROVE  WorkInv'
<1>1. /\ UNCHANGED <<fdList, epSet, ready, cCallbacks, pyCallbacks, edges>>
      /\ ThreadTypes /\ mpc # "crashed" /\ WalkOf(t)
  BY Typed, Zenon DEF PyNode, PyCall, PyReturn, WalkUnchanged, kernelVars, listVars, WorkInv, GpioInv
<1>2. PICK c \in Nat, y \in Nat : c = thread[t].c /\ y = thread[t].py
  <2>1. thread[t].c \in Nat /\ thread[t].py \in Nat
    BY <1>1, SMT DEF ThreadTypes, ThreadType
  <2>2. QED
    BY <2>1, Zenon
<1>3. PICK k \in Nat : /\ k = NextOf(pyCallbacks, y)
                       /\ k = 0 \/ Holds(pyCallbacks, k)
                       /\ k # 0 => k > y
  BY ListOrder, Zenon
<1>4. /\ \A m \in cCallbacks : m.id \in Nat /\ m.id # 0
      /\ \A n \in pyCallbacks : n.id \in Nat /\ n.id # 0 /\ n.id \in NodeIds
  BY ListOrder, Zenon
<1>5. ASSUME UNCHANGED <<mpc, invoked>>, Others(t), thread[t].pc \in {"py", "call"},
             thread'[t].pc \in {"cnext", "gil", "py"}, thread'[t].gpio = thread[t].gpio, WalkOf(t)',
             \A m \in cCallbacks, n \in pyCallbacks : Ahead(t, m.id, n.id)' => Ahead(t, m.id, n.id)
      PROVE  WorkInv'
  <2>1. thread[t].pc \in WalkPCs /\ thread'[t].pc \in Walking
    BY <1>5, SMT DEF WalkPCs, Walking
  <2>2. mpc' # "crashed"
    BY <1>1, <1>5, Zenon
  <2>3. QED
    BY <1>1, <1>5, <2>1, <2>2, WorkWalked, Zenon
<1>6. ASSUME thread'[t].pc = "py", thread'[t].c = c, Holds(cCallbacks, c),
             thread'[t].py = 0 \/ Holds(pyCallbacks, thread'[t].py)
      PROVE  WalkOf(t)'
  <2>1. thread'[t].pc # "c" /\ thread'[t].pc \notin {"gil", "call"}
    BY <1>6, SMT
  <2>2. QED
    BY <1>1, <1>6, <2>1, Zenon DEF WalkOf, Holds
<1>7. CASE PyNode(t)
  <2>1. thread[t].pc = "py" /\ Holds(cCallbacks, c) /\ (y = 0 \/ Holds(pyCallbacks, y))
    BY <1>1, <1>2, <1>7, Zenon DEF PyNode, AtPC, WalkOf
  <2>2. CASE y = 0 /\ On(t, "cnext")
    <3>1. /\ Others(t) /\ thread'[t].pc = "cnext" /\ thread'[t].c = c
          /\ thread'[t].gpio = thread[t].gpio /\ UNCHANGED <<mpc, invoked>>
      BY <1>1, <1>2, <2>2, ThreadStands, Zenon DEF On, ThreadPCs
    <3>2. WalkOf(t)'
      <4>1. /\ thread'[t].pc # "c" /\ thread'[t].pc # "py"
            /\ thread'[t].pc \notin {"gil", "call"}
        BY <3>1, SMT
      <4>2. QED
        BY <1>1, <2>1, <3>1, <4>1, Zenon DEF WalkOf, Holds
    <3>3. \A m \in cCallbacks, n \in pyCallbacks : Ahead(t, m.id, n.id)' => Ahead(t, m.id, n.id)
      BY <1>2, <1>4, <2>1, <3>1, SMT DEF Ahead
    <3>4. QED
      BY <1>5, <2>1, <3>1, <3>2, <3>3, Zenon
  <2>3. CASE /\ Holds(pyCallbacks, y) /\ PinOf(pyCallbacks, y) = thread[t].gpio
             /\ On(t, "gil")
    <3>1. /\ Others(t) /\ thread'[t].pc = "gil" /\ thread'[t].c = c /\ thread'[t].py = y
          /\ thread'[t].gpio = thread[t].gpio /\ UNCHANGED <<mpc, invoked>>
      BY <1>1, <1>2, <2>3, ThreadStands, Zenon DEF On, ThreadPCs
    <3>2. \E n \in pyCallbacks : n.id = y /\ n.gpio = thread[t].gpio
      BY <2>3, Zenon DEF Holds, PinOf
    <3>3. WalkOf(t)'
      <4>1. thread'[t].pc # "c" /\ thread'[t].pc # "py"
        BY <3>1, SMT
      <4>2. QED
        BY <1>1, <2>1, <3>1, <3>2, <4>1, Zenon DEF WalkOf, Holds
    <3>4. \A m \in cCallbacks, n \in pyCallbacks : Ahead(t, m.id, n.id)' => Ahead(t, m.id, n.id)
      BY <1>2, <1>4, <2>1, <3>1, SMT DEF Ahead
    <3>5. QED
      BY <1>5, <2>1, <3>1, <3>3, <3>4, Zenon
  <2>4. CASE Holds(pyCallbacks, y) /\ ToPy(t, k)
    <3>1. /\ Others(t) /\ thread'[t].pc = "py" /\ thread'[t].py = k /\ thread'[t].c = c
          /\ thread'[t].gpio = thread[t].gpio /\ UNCHANGED <<mpc, invoked>>
      BY <1>1, <1>2, <2>4, ThreadStands, Zenon DEF ToPy, ThreadPCs
    <3>2. y # 0
      BY <1>4, <2>4, Zenon DEF Holds
    <3>3. \A m \in cCallbacks, n \in pyCallbacks : Ahead(t, m.id, n.id)' => Ahead(t, m.id, n.id)
      BY <1>2, <1>3, <1>4, <2>1, <3>1, <3>2, SMT DEF Ahead
    <3>4. QED
      BY <1>3, <1>5, <1>6, <2>1, <3>1, <3>3, Zenon
  <2>5. QED
    BY <1>2, <1>3, <1>7, <2>1, <2>2, <2>3, <2>4, Zenon DEF PyNode
<1>8. CASE PyReturn(t)
  <2>1. thread[t].pc = "call" /\ Holds(cCallbacks, c) /\ Holds(pyCallbacks, y)
    BY <1>1, <1>2, <1>8, Zenon DEF PyReturn, AtPC, WalkOf, Holds
  <2>2. ToPy(t, k)
    BY <1>2, <1>3, <1>8, <2>1, Zenon DEF PyReturn
  <2>3. /\ Others(t) /\ thread'[t].pc = "py" /\ thread'[t].py = k /\ thread'[t].c = c
        /\ thread'[t].gpio = thread[t].gpio /\ UNCHANGED <<mpc, invoked>>
    BY <1>1, <1>2, <2>2, ThreadStands, Zenon DEF ToPy, ThreadPCs
  <2>4. \A m \in cCallbacks, n \in pyCallbacks : Ahead(t, m.id, n.id)' => Ahead(t, m.id, n.id)
    BY <1>2, <1>3, <1>4, <2>1, <2>3, SMT DEF Ahead
  <2>5. QED
    BY <1>3, <1>5, <1>6, <2>1, <2>3, <2>4, Zenon
<1>9. CASE PyCall(t)
  <2>1. thread[t].pc = "gil" /\ Holds(cCallbacks, c)
    BY <1>1, <1>2, <1>9, Zenon DEF PyCall, AtPC, WalkOf
  <2>2. PICK o \in pyCallbacks : o.id = y /\ o.gpio = thread[t].gpio
    BY <1>1, <1>2, <2>1, Zenon DEF WalkOf
  <2>3. PICK m \in cCallbacks : m.id = c
    BY <2>1, Zenon DEF Holds
  <2>4. /\ invoked' = [invoked EXCEPT ![y] = @ + 1] /\ Goto(t, "call")
        /\ UNCHANGED mpc
    BY <1>2, <1>9, <2>2, Zenon DEF PyCall, Holds
  <2>5. /\ Others(t) /\ thread'[t].pc = "call" /\ thread'[t].c = c /\ thread'[t].py = y
        /\ thread'[t].gpio = thread[t].gpio
    BY <1>1, <1>2, <2>4, ThreadStands, Zenon DEF ThreadPCs
  <2>6. WalkOf(t)'
    <3>1. thread'[t].pc # "c" /\ thread'[t].pc # "py"
      BY <2>5, SMT
    <3>2. QED
      BY <1>1, <2>1, <2>2, <2>5, <3>1, Zenon DEF WalkOf, Holds
  <2>7. \A a \in cCallbacks, n \in pyCallbacks : Ahead(t, a.id, n.id)' => Ahead(t, a.id, n.id)
    <3>1. y # 0
      BY <1>4, <2>2, Zenon
    <3>2. QED
      BY <1>2, <1>4, <2>1, <2>5, <3>1, SMT DEF Ahead
  <2>8. Ahead(t, m.id, o.id) /\ ~Ahead(t, m.id, o.id)'
    BY <1>2, <1>4, <2>1, <2>2, <2>3, <2>5, SMT DEF Ahead
  <2>9. invoked \in [NodeIds -> Nat] /\ y \in NodeIds
    BY <1>4, <2>2, Typed, Zenon DEF GpioInv, HistoryTypes
  <2>10. /\ invoked'[y] = invoked[y] + 1
         /\ \A i \in NodeIds : i # y => invoked'[i] = invoked[i]
    BY <2>4, <2>9, Zenon
  <2>11. \A i \in NodeIds : ~Holds(pyCallbacks, i) => invoked'[i] = invoked[i]
    BY <2>2, <2>10, Zenon DEF Holds
  <2>12. ASSUME NEW n \in pyCallbacks
         PROVE  \/ invoked'[n.id] = invoked[n.id]
                \/ /\ invoked'[n.id] = invoked[n.id] + 1 /\ n.gpio = thread[t].gpio
                   /\ \E a \in cCallbacks : Ahead(t, a.id, n.id) /\ ~Ahead(t, a.id, n.id)'
    <3>1. CASE n.id = y
      <4>1. n = o
        BY <2>2, <3>1, Zenon DEF WorkInv, NodesInv
      <4>2. QED
        BY <2>2, <2>8, <2>10, <4>1, Zenon
    <3>2. CASE n.id # y
      BY <1>4, <2>10, <3>2, Zenon
    <3>3. QED
      BY <3>1, <3>2
  <2>13. thread[t].pc \in WalkPCs /\ thread'[t].pc \in Walking /\ mpc' # "crashed"
    <3>1. thread[t].pc \in WalkPCs /\ thread'[t].pc \in Walking
      BY <2>1, <2>5, SMT DEF WalkPCs, Walking
    <3>2. QED
      BY <1>1, <2>4, <3>1, Zenon
  <2>14. QED
    BY <1>1, <2>5, <2>6, <2>7, <2>11, <2>12, <2>13, WorkWalked, Zenon
<1>10. QED
  BY <1>7, <1>8, <1>9, Zenon

(* New callbacks.                                                           *)
\* descriptors, threads and counts stay: walks and what is due do as well
LEMMA WorkStays ==
  ASSUME GpioInv, GpioInv', UNCHANGED <<fdList, epSet, ready, thread, edges>>, NEW q
  PROVE  /\ Unreported(q)' <=> Unreported(q)
         /\ \A u \in Threads : Walks(u, q)' <=> Walks(u, q)
         /\ Walkers(q)' = Walkers(q) /\ Due(q) <= Due(q)'
         /\ \A u, c, i : Ahead(u, c, i)' <=> Ahead(u, c, i)
<1>1. /\ \A p, f : Maps(p, f)' <=> Maps(p, f)
      /\ \A p : gpio_initial(p)' <=> gpio_initial(p)
  BY InitialLookups, Zenon DEF Maps
<1>2. /\ Unreported(q)' <=> Unreported(q)
      /\ Ready(q)' <=> Ready(q)
      /\ \A u \in Threads : Handles(u, q)' <=> Handles(u, q)
  BY <1>1, Zenon DEF Ready, Registered, Unreported, Handles
<1>3. \A u \in Threads : Walks(u, q)' <=> Walks(u, q)
  BY Zenon DEF Walks
<1>4. Walkers(q)' = Walkers(q)
  BY <1>3, Zenon DEF Walkers
<1>5. ASSUME NEW u, NEW c, NEW i PROVE Ahead(u, c, i)' <=> Ahead(u, c, i)
  <2>1. thread'[u] = thread[u]
    BY Zenon
  <2>2. QED
    BY <2>1, Zenon DEF Ahead
<1>6. edges <= edges'
  <2>1. edges \in Nat /\ edges' = edges
    BY WorkCounts, Zenon
  <2>2. QED
    BY <2>1, SMT
<1>7. Due(q) <= Due(q)'
  BY <1>1, <1>2, <1>6, DueGrows, Zenon
<1>8. QED
  BY <1>2, <1>3, <1>4, <1>5, <1>7

\* A callback that was just added has not been run, and every walk may still run it.
LEMMA WorkAddPy == ASSUME GpioInv, GpioInv', WorkInv, AddPyCallback PROVE WorkInv'
<1>1. /\ UNCHANGED <<fdList, epSet, ready, thread, cCallbacks, invoked, edges>>
      /\ mpc = "cbpy" /\ mpc' = "cbc"
  BY Zenon DEF AddPyCallback, kernelVars, histVars
<1>2. PICK z \in NodeType : z = Node /\ z.id = nodes + 1
  <2>1. mpc \in {"cbpy", "cbc"}
    BY <1>1
  <2>2. QED
    BY <2>1, NodeTyped, NodeNew, Zenon
<1>3. pyCallbacks' = pyCallbacks \cup {z}
  BY <1>2, Zenon DEF AddPyCallback
<1>4. \A n \in pyCallbacks : n.id # z.id
  <2>1. nodes \in Nat /\ \A n \in pyCallbacks : n.id \in Nat /\ n.id <= nodes
    BY Typed, NodeNumbers, Zenon DEF GpioInv, NodeTypes, ListsInv
  <2>2. QED
    BY <1>2, <2>1, SMT
<1>5. z.id \in NodeIds /\ z.gpio \in Pins
  BY <1>2, SMT DEF NodeType
<1>6. invoked[z.id] = 0
  BY <1>4, <1>5, Zenon DEF WorkInv, NodesInv, Holds
<1>7. NodesInv'
  BY <1>1, <1>3, <1>4, Zenon DEF WorkInv, NodesInv, Holds
<1>8. ASSUME NEW u \in Threads PROVE WalkOf(u)'
  <2>1. thread'[u] = thread[u] /\ WalkOf(u)
    BY <1>1, Zenon DEF WorkInv
  <2>2. QED
    BY <1>1, <1>3, <2>1, Zenon DEF WalkOf, Holds
<1>9. ASSUME NEW q \in Pins PROVE Fresh(q)' /\ Flow(q)'
  <2>1. Fresh(q) /\ Flow(q)
    BY Zenon DEF WorkInv
  <2>2. /\ Unreported(q)' <=> Unreported(q)
        /\ \A u \in Threads : Walks(u, q)' <=> Walks(u, q)
        /\ Walkers(q)' = Walkers(q) /\ Due(q) <= Due(q)'
    BY <1>1, WorkStays, Zenon
  <2>3. Fresh(q)'
    BY <1>1, <1>3, <1>6, <2>1, <2>2, Zenon DEF Fresh
  <2>4. /\ Cardinality(Walkers(q)) \in Nat /\ Due(q) \in Int /\ Due(q)' \in Int
        /\ Cardinality(Walkers(q)) <= Due(q)
    BY <2>1, WorkCounts, WorkCountsNext, Zenon DEF Flow
  <2>5. Cardinality(Walkers(q)) <= Due(q)'
    BY <2>2, <2>4, SMT
  <2>6. QED
    BY <2>2, <2>3, <2>5, Zenon DEF Flow
<1>10. ASSUME NEW n, n \in pyCallbacks \cup {z} PROVE Bound(n)'
  <2>1. n.gpio \in Pins /\ n.id \in NodeIds /\ invoked[n.id] \in Nat
    <3>1. CASE n \in pyCallbacks
      BY <3>1, NodeFacts, Zenon
    <3>2. CASE n = z
      BY <1>5, <1>6, <3>2
    <3>3. QED
      BY <1>10, <3>1, <3>2, Zenon
  <2>2. PICK q \in Pins, i \in Nat : q = n.gpio /\ i = invoked[n.id]
    BY <2>1, Zenon
  <2>3. /\ Due(q) \in Int /\ Due(q)' \in Int /\ Cardinality(cCallbacks) \in Nat
        /\ Cardinality(Walkers(q)) \in Nat /\ Cardinality(Todo(n)) \in Nat
        /\ Cardinality(Todo(n)) <= Cardinality(Walkers(q)) * Cardinality(cCallbacks)
    BY <2>2, WorkCounts, WorkCountsNext, TodoFinite, Zenon
  <2>4. PICK d \in Int, e \in Int, k \in Nat, a \in Nat, w \in Nat :
          /\ d = Due(q) /\ e = Due(q)' /\ k = Cardinality(cCallbacks)
          /\ a = Cardinality(Todo(n)) /\ w = Cardinality(Walkers(q)) /\ a <= w * k
    BY <2>3, Zenon
  <2>5. d <= e /\ w <= d
    BY <1>1, <2>4, WorkStays, Zenon DEF WorkInv, Flow
  <2>6. d * k <= e * k /\ w * k <= d * k /\ d * k \in Int /\ e * k \in Int /\ w * k \in Int
    <3>1. w \in Int
      BY SMT
    <3>2. QED
      BY <2>5, <3>1, Times, Zenon
  <2>7. i + a <= e * k
    <3>1. CASE n \in pyCallbacks
      <4>1. i + a <= d * k
        BY <2>2, <2>4, <3>1, Zenon DEF WorkInv, Bound
      <4>2. QED
        BY <2>6, <4>1, SMT
    <3>2. CASE n = z
      <4>1. i = 0
        BY <1>6, <2>2, <3>2, Zenon
      <4>2. QED
        BY <2>4, <2>6, <4>1, SMT
    <3>3. QED
      BY <1>10, <3>1, <3>2, Zenon
  <2>8. Todo(n)' = Todo(n)
    <3>1. Walkers(n.gpio)' = Walkers(n.gpio) /\ \A u, c, j : Ahead(u, c, j)' <=> Ahead(u, c, j)
      BY <1>1, WorkStays, Zenon
    <3>2. QED
      BY <1>1, <3>1, Zenon DEF Todo
  <2>9. QED
    BY <1>1, <2>2, <2>4, <2>7, <2>8, Zenon DEF Bound
<1>11. mpc' # "crashed"
  BY <1>1, SMT
<1>12. QED
  BY <1>3, <1>7, <1>8, <1>9, <1>10, <1>11, Zenon DEF WorkInv

\* A new node of the library's list: every walk may still come to it, and no more walks are
\* on than are due.
LEMMA WorkAddEdge == ASSUME GpioInv, GpioInv', WorkInv, AddEdgeCallback PROVE WorkInv'
<1>1. /\ UNCHANGED <<fdList, epSet, ready, thread, pyCallbacks, invoked, edges>>
      /\ mpc = "cbc" /\ mpc' = "idle"
  BY Zenon DEF AddEdgeCallback, kernelVars, histVars, Return
<1>2. PICK z : z = Node /\ z \notin cCallbacks
  BY NodeNew, Zenon
<1>3. cCallbacks' = cCallbacks \cup {z}
  BY <1>2, Zenon DEF AddEdgeCallback
<1>4. NodesInv'
  BY <1>1, Zenon DEF WorkInv, NodesInv, Holds
<1>5. ASSUME NEW u \in Threads PROVE WalkOf(u)'
  <2>1. thread'[u] = thread[u] /\ WalkOf(u)
    BY <1>1, Zenon DEF WorkInv
  <2>2. QED
    BY <1>1, <1>3, <2>1, Zenon DEF WalkOf, Holds
<1>6. ASSUME NEW q \in Pins PROVE Fresh(q)' /\ Flow(q)'
  <2>1. Fresh(q) /\ Flow(q)
    BY Zenon DEF WorkInv
  <2>2. /\ Unreported(q)' <=> Unreported(q)
        /\ \A u \in Threads : Walks(u, q)' <=> Walks(u, q)
        /\ Walkers(q)' = Walkers(q) /\ Due(q) <= Due(q)'
    BY <1>1, WorkStays, Zenon
  <2>3. Fresh(q)'
    BY <1>1, <2>1, <2>2, Zenon DEF Fresh
  <2>4. /\ Cardinality(Walkers(q)) \in Nat /\ Due(q) \in Int /\ Due(q)' \in Int
        /\ Cardinality(Walkers(q)) <= Due(q)
    BY <2>1, WorkCounts, WorkCountsNext, Zenon DEF Flow
  <2>5. Cardinality(Walkers(q)) <= Due(q)'
    BY <2>2, <2>4, SMT
  <2>6. QED
    BY <2>2, <2>3, <2>5, Zenon DEF Flow
<1>7. ASSUME NEW n \in pyCallbacks PROVE Bound(n)'
  <2>1. n.gpio \in Pins /\ invoked[n.id] \in Nat /\ Bound(n)
    BY NodeFacts, Zenon DEF WorkInv
  <2>2. PICK q \in Pins, i \in Nat : q = n.gpio /\ i = invoked[n.id]
    BY <2>1, Zenon
  <2>3. /\ Due(q) \in Int /\ Due(q)' \in Int
        /\ IsFiniteSet(cCallbacks) /\ Cardinality(cCallbacks) \in Nat
        /\ IsFiniteSet(Walkers(q)) /\ Cardinality(Walkers(q)) \in Nat
        /\ IsFiniteSet(Todo(n)) /\ Cardinality(Todo(n)) \in Nat
    BY <2>2, WorkCounts, WorkCountsNext, TodoFinite, Zenon
  <2>4. PICK d \in Int, e \in Int, k \in Nat, a \in Nat, w \in Nat :
          /\ d = Due(q) /\ e = Due(q)' /\ k = Cardinality(cCallbacks)
          /\ a = Cardinality(Todo(n)) /\ w = Cardinality(Walkers(q))
    BY <2>3, Zenon
  <2>5. Cardinality(cCallbacks') = k + 1
    BY <1>2, <1>3, <2>3, <2>4, FS_AddElement
  <2>6. Todo(n)' \subseteq Todo(n) \cup (Walkers(q) \X {z})
    <3>1. SUFFICES ASSUME NEW x \in Todo(n)' PROVE x \in Todo(n) \/ x \in Walkers(q) \X {z}
      BY Zenon
    <3>2. PICK u, m : x = <<u, m>>
      BY TodoPairs, Zenon
    <3>3. /\ u \in Threads /\ Walks(u, q) /\ m \in cCallbacks \cup {z}
          /\ Ahead(u, m.id, n.id)
      BY <1>1, <1>3, <2>2, <3>2, TodoPairs, WorkStays, Zenon
    <3>4. CASE m \in cCallbacks
      BY <2>2, <3>2, <3>3, <3>4, TodoPairs, Zenon
    <3>5. CASE m = z
      <4>1. u \in Walkers(q)
        BY <3>3, Zenon DEF Walkers
      <4>2. QED
        BY <3>2, <3>5, <4>1
    <3>6. QED
      BY <3>3, <3>4, <3>5, Zenon
  <2>7. IsFiniteSet(Walkers(q) \X {z}) /\ Cardinality(Walkers(q) \X {z}) = w
    <3>1. IsFiniteSet({z}) /\ Cardinality({z}) = 1 /\ w * 1 = w
      <4>1. w * 1 = w
        BY SMT
      <4>2. QED
        BY <4>1, FS_Singleton, Zenon
    <3>2. /\ IsFiniteSet(Walkers(q) \X {z})
          /\ Cardinality(Walkers(q) \X {z}) = Cardinality(Walkers(q)) * Cardinality({z})
      BY <2>3, <3>1, FS_Product, Zenon
    <3>3. QED
      BY <2>4, <3>1, <3>2, Zenon
  <2>8. /\ IsFiniteSet(Todo(n) \cup (Walkers(q) \X {z}))
        /\ Cardinality(Todo(n) \cup (Walkers(q) \X {z}))
             = a + w - Cardinality(Todo(n) \cap (Walkers(q) \X {z}))
        /\ Cardinality(Todo(n) \cap (Walkers(q) \X {z})) \in Nat
    BY <2>3, <2>4, <2>7, FS_Union, FS_Intersection, FS_CardinalityType
  <2>9. /\ Cardinality(Todo(n)') <= Cardinality(Todo(n) \cup (Walkers(q) \X {z}))
        /\ Cardinality(Todo(n)') \in Nat
    BY <2>6, <2>8, Smaller, Zenon
  <2>10. PICK b \in Nat : b = Cardinality(Todo(n)') /\ b <= a + w
    <3>1. Cardinality(Todo(n)') <= a + w
      BY <2>8, <2>9, SMT
    <3>2. QED
      BY <2>9, <3>1, Zenon
  <2>11. d <= e /\ w <= d /\ i + a <= d * k
    BY <1>1, <2>1, <2>2, <2>4, WorkStays, Zenon DEF WorkInv, Flow, Bound
  <2>12. /\ d * k \in Int /\ d * (k + 1) = d * k + d
         /\ d * (k + 1) <= e * (k + 1) /\ e * (k + 1) \in Int
    <3>1. k + 1 \in Nat
      BY SMT
    <3>2. QED
      BY <2>11, <3>1, Times, Zenon
  <2>13. i + b <= e * (k + 1)
    BY <2>10, <2>11, <2>12, SMT
  <2>14. QED
    BY <1>1, <2>2, <2>4, <2>5, <2>10, <2>13, Zenon DEF Bound
<1>8. mpc' # "crashed"
  BY <1>1, SMT
<1>9. QED
  BY <1>1, <1>4, <1>5, <1>6, <1>7, <1>8, Zenon DEF WorkInv

LEMMA WorkPolls ==
  ASSUME GpioInv, GpioInv', ServeInv, ReportInv, WorkInv, NEW t \in Threads,
         Poll(t) \/ PollInterrupted(t)
  PROVE  WorkInv'
<1>1. TypeOK /\ ThreadTypes /\ fdList \in Seq(EntryType)
  BY Typed, Zenon DEF GpioInv, LibTypes
<1>2. CASE \/ PollStart(t) \/ PollCheck(t) \/ PollLeave(t) \/ PollEnter(t) \/ PollRead(t)
           \/ PollLookup(t) \/ PollInterrupted(t)
  <2>1. /\ UNCHANGED <<fdList, epSet, ready, cCallbacks, pyCallbacks, invoked, edges, mpc>>
        /\ SameList(fdList, fdList')
    BY <1>1, <1>2, Zenon DEF PollStart, PollCheck, PollLeave, PollEnter, PollRead, PollLookup,
       PollInterrupted, kernelVars, listVars, histVars, mainVars, SameList
  <2>2. mpc' # "crashed"
    BY <2>1, Zenon DEF WorkInv
  <2>3. /\ Others(t) /\ thread'[t].pc \in {"check", "leave", "enter", "wait", "look", "test", "gone"}
        /\ \A p \in Pins : Handles(t, p)' => Handles(t, p)
    <3>1. CASE \/ PollStart(t) \/ PollCheck(t) \/ PollLeave(t) \/ PollEnter(t)
               \/ PollInterrupted(t)
      <4>1. \E pc \in {"check", "leave", "enter", "wait", "gone"} : Goto(t, pc)
        BY <3>1, Zenon DEF PollStart, PollCheck, PollLeave, PollEnter, PollInterrupted, Exit
      <4>2. \A pc \in {"check", "leave", "enter", "wait", "gone"} : pc \in ThreadPCs
        BY SMT DEF ThreadPCs
      <4>3. Others(t) /\ thread'[t].pc \in {"check", "leave", "enter", "wait", "gone"}
        BY <1>1, <4>1, <4>2, ThreadGoes, Zenon
      <4>4. thread'[t].pc \notin {"read", "look"} /\ thread'[t].pc # "test"
        BY <4>3, SMT
      <4>5. QED
        BY <4>3, <4>4, Zenon DEF Handles
    <3>2. CASE PollRead(t)
      <4>1. thread[t].pc = "read"
        BY <3>2, Zenon DEF PollRead, AtPC
      <4>2. \E pc \in {"look", "gone"} : Goto(t, pc)
        BY <3>2, Zenon DEF PollRead, Exit
      <4>3. \A pc \in {"look", "gone"} : pc \in ThreadPCs
        BY SMT DEF ThreadPCs
      <4>4. Others(t) /\ thread'[t].pc \in {"look", "gone"} /\ thread'[t].fd = thread[t].fd
        BY <1>1, <4>2, <4>3, ThreadGoes, Zenon
      <4>5. thread'[t].pc # "test"
        BY <4>4, SMT
      <4>6. QED
        BY <2>1, <4>1, <4>4, <4>5, Zenon DEF Handles, Maps
    <3>3. CASE PollLookup(t)
      <4>1. thread[t].pc = "look"
        BY <3>3, Zenon DEF PollLookup, AtPC
      <4>2. PICK f : f = thread[t].fd
        OBVIOUS
      <4>3. PICK q \in Pins \cup {0} : q = gpio_lookup(f)
        BY LookupTypes, Zenon DEF GpioInv
      <4>4. Others(t) /\ thread'[t].pc = "test" /\ thread'[t].gpio = q
        BY <1>1, <3>3, <4>2, <4>3, ThreadLooks, Zenon DEF PollLookup
      <4>5. q # 0 => Maps(q, f)
        <5>1. PICK s \in Seq(EntryType) : s = fdList
          BY <1>1, Zenon
        <5>2. PinIn(s, f) # 0 => MapsIn(s, PinIn(s, f), f)
          BY PinFound
        <5>3. q = PinIn(s, f)
          BY <4>3, <5>1, Lookups, Zenon
        <5>4. QED
          BY <5>1, <5>2, <5>3, Zenon DEF Maps, MapsIn
      <4>6. ASSUME NEW p \in Pins, Handles(t, p)' PROVE Handles(t, p)
        <5>1. thread'[t].pc \notin {"read", "look"}
          BY <4>4, SMT
        <5>2. p = q /\ p # 0
          BY <4>4, <4>6, <5>1, PinsPositive, Zenon DEF Handles
        <5>3. QED
          BY <4>1, <4>2, <4>5, <5>2, Zenon DEF Handles
      <4>7. QED
        BY <4>4, <4>6, Zenon
    <3>4. QED
      BY <1>2, <3>1, <3>2, <3>3, Zenon
  <2>4. ASSUME NEW u \in Threads, NEW p \in Pins, Handles(u, p)' PROVE Handles(u, p)
    <3>1. \A f : Maps(p, f)' <=> Maps(p, f)
      BY <2>1, Zenon DEF Maps
    <3>2. QED
      BY <2>3, <2>4, <3>1, Zenon DEF Handles, Others
  <2>5. ASSUME NEW u \in Threads, thread'[u].pc \in WalkPCs PROVE thread'[u] = thread[u]
    <3>1. u # t
      BY <2>3, <2>5, SMT DEF WalkPCs
    <3>2. QED
      BY <2>3, <3>1, Zenon DEF Others
  <2>6. QED
    BY <2>1, <2>2, <2>4, <2>5, WorkSame, Zenon
<1>3. CASE PollTest(t)
  <2>1. /\ thread[t].pc = "test" /\ mpc' # "crashed"
        /\ UNCHANGED <<epSet, ready, cCallbacks, pyCallbacks, invoked, edges>>
    BY <1>3, Zenon DEF PollTest, AtPC, kernelVars, listVars, histVars, mainVars, WorkInv
  <2>2. PICK p \in Pins \cup {0} : p = thread[t].gpio
    <3>1. thread[t].gpio \in Pins \cup {0}
      BY <1>1, SMT DEF ThreadTypes, ThreadType
    <3>2. QED
      BY <3>1, Zenon
  <2>3. CASE gpio_initial(p)
    <3>1. fdList' = set_initial_false(p) /\ Goto(t, "check")
      BY <1>3, <2>2, <2>3, Zenon DEF PollTest, InitialReport, AfterInitial
    <3>2. p \in Pins
      <4>1. \A i \in DOMAIN fdList : fdList[i].gpio \in Pins
        BY <1>1, ListFields, Zenon
      <4>2. QED
        BY <4>1, <2>3, Zenon DEF gpio_initial, EntriesOf
    <3>3. QED
      BY <2>1, <2>2, <2>3, <3>1, <3>2, WorkFirst, Zenon
  <2>4. CASE ~gpio_initial(p)
    <3>1. Goto(t, "run") /\ UNCHANGED fdList
      BY <1>3, <2>2, <2>4, Zenon DEF PollTest, InitialReport
    <3>2. QED
      BY <2>1, <2>2, <2>4, <3>1, WorkRecorded, Zenon
  <2>5. QED
    BY <2>3, <2>4
<1>4. QED
  BY <1>2, <1>3, WorkTaken, WorkCallbacks, WorkPyCallbacks, Zenon DEF Poll

\* what the counts say of a callback that may be run
LEMMA WorkBounded == ASSUME GpioInv, WorkInv PROVE CallbacksBounded
<1>1. SUFFICES ASSUME NEW i \in NodeIds PROVE invoked[i] <= edges * Cardinality(cCallbacks)
  BY Zenon DEF CallbacksBounded
<1>2. edges \in Nat /\ Cardinality(cCallbacks) \in Nat
  BY WorkCounts, Zenon
<1>3. PICK e \in Nat, k \in Nat : e = edges /\ k = Cardinality(cCallbacks)
  BY <1>2, Zenon
<1>4. 0 <= e * k /\ e * k \in Int
  BY SMT
<1>5. CASE ~Holds(pyCallbacks, i)
  BY <1>3, <1>4, <1>5, Zenon DEF WorkInv, NodesInv
<1>6. ASSUME NEW n \in pyCallbacks, n.id = i PROVE invoked[i] <= e * k
  <2>1. n.gpio \in Pins /\ invoked[n.id] \in Nat
    BY NodeFacts, Zenon
  <2>2. PICK q \in Pins, v \in Nat : q = n.gpio /\ v = invoked[n.id]
    BY <2>1, Zenon
  <2>3. CASE gpio_initial(q)
    <3>1. v = 0
      BY <2>2, <2>3, Zenon DEF WorkInv, Fresh, Unreported
    <3>2. QED
      BY <1>4, <1>6, <2>2, <3>1, Zenon
  <2>4. CASE ~gpio_initial(q)
    <3>1. Tokens(q) \in Nat /\ First(q) = 0 /\ Due(q) \in Int
      BY <2>4, WorkCounts, Zenon DEF First
    <3>2. PICK d \in Int, a \in Nat : d = Due(q) /\ a = Cardinality(Todo(n))
      BY <3>1, TodoFinite, Zenon
    <3>3. d <= e
      BY <1>3, <3>1, <3>2, SMT DEF Due
    <3>4. v + a <= d * k
      BY <1>3, <2>2, <3>2, Zenon DEF WorkInv, Bound
    <3>5. d * k <= e * k /\ d * k \in Int /\ e \in Int
      <4>1. e \in Int
        BY SMT
      <4>2. QED
        BY <3>3, <4>1, Times, Zenon
    <3>6. v <= e * k
      BY <1>4, <3>4, <3>5, SMT
    <3>7. QED
      BY <1>6, <2>2, <3>6, Zenon
  <2>5. QED
    BY <2>3, <2>4
<1>7. QED
  BY <1>3, <1>5, <1>6, Zenon DEF Holds

LEMMA WorkInit == Init => WorkInv
<1>1. SUFFICES ASSUME Init PROVE WorkInv
  OBVIOUS
<1>2. /\ mpc = "idle" /\ edges = 0 /\ ready = {} /\ pyCallbacks = {} /\ cCallbacks = {}
      /\ fdList = <<>> /\ epSet = {} /\ invoked = [n \in NodeIds |-> 0]
  BY <1>1, Zenon DEF Init
<1>3. \A t \in Threads : thread[t].pc = "none"
  BY <1>1, SMT DEF Init, Idle
<1>4. \A t \in Threads : thread[t].pc \notin WalkPCs \cup {"read", "look", "test"}
  BY <1>3, SMT DEF WalkPCs
<1>5. \A t \in Threads, p \in Pins : ~Walks(t, p) /\ ~Handles(t, p)
  BY <1>4, Zenon DEF Walks, Handles
<1>6. ASSUME NEW p \in Pins PROVE Fresh(p) /\ Flow(p)
  <2>1. Walkers(p) = {} /\ Handlers(p) = {} /\ ~Ready(p)
    BY <1>2, <1>5, Zenon DEF Walkers, Handlers, Ready
  <2>2. Cardinality(Walkers(p)) = 0 /\ Tokens(p) = 0
    BY <2>1, FS_EmptySet, SMT DEF Tokens
  <2>3. First(p) \in {0, 1}
    BY Zenon DEF First
  <2>4. 0 <= Due(p)
    BY <1>2, <2>2, <2>3, SMT DEF Due
  <2>5. QED
    BY <1>2, <1>5, <2>2, <2>4, Zenon DEF Fresh, Flow
<1>7. NodesInv
  BY <1>2, Zenon DEF NodesInv
<1>8. \A t \in Threads : WalkOf(t)
  BY <1>3, SMT DEF WalkOf
<1>9. mpc # "crashed"
  BY <1>2, SMT
<1>10. QED
  BY <1>2, <1>6, <1>7, <1>8, <1>9, Zenon DEF WorkInv

LEMMA WorkStep ==
  ASSUME NoRemoval, GpioInv, GpioInv', ServeInv, ReportInv, WorkInv, [Next]_vars PROVE WorkInv'
<1>1. CASE UNCHANGED vars
  <2>1. UNCHANGED <<fdList, epSet, ready, cCallbacks, pyCallbacks, invoked, edges, thread, mpc>>
    BY <1>1, Zenon DEF vars
  <2>2. /\ mpc' # "crashed" /\ SameList(fdList, fdList')
        /\ \A t \in Threads : \A p \in Pins : Handles(t, p)' => Handles(t, p)
    <3>1. fdList \in Seq(EntryType)
      BY Typed, Zenon DEF GpioInv, LibTypes
    <3>2. \A p, f : Maps(p, f)' <=> Maps(p, f)
      BY <2>1, Zenon DEF Maps
    <3>3. QED
      BY <2>1, <3>1, <3>2, Zenon DEF SameList, WorkInv, Handles
  <2>3. QED
    BY <2>1, <2>2, WorkSame, Zenon
<1>2. /\ ~Cleanup /\ ~CleanupStop /\ ~CleanupExports
      /\ ~RemoveCallbacks /\ ~RemoveEpoll /\ ~RemoveFlag /\ \A p \in Pins : ~RemoveDetect(p)
  BY NoneRemoved, Zenon
<1>3. ASSUME InCall PROVE WorkInv'
  <2>1. AddOpen \/ WaitOpen \/ AddEpoll \/ AddThread \/ AddPyCallback \/ AddEdgeCallback \/ WaitFirst
    BY <1>2, <1>3, Zenon DEF InCall
  <2>2. QED
    BY <2>1, WorkOpen, WorkEpoll, WorkPlain, WorkAddPy, WorkAddEdge, Zenon
<1>4. ASSUME NEW p \in Pins, Setup(p) \/ Input(p) \/ EventDetected(p) \/ AddDetect(p)
                             \/ AddCallback(p) \/ WaitForEdge(p)
      PROVE  WorkInv'
  BY <1>4, WorkOpen, WorkPlain, Zenon
<1>5. CASE WaitEdge
  BY <1>5, WorkPlain, Zenon
<1>6. QED
  BY <1>1, <1>2, <1>3, <1>4, <1>5, WorkPolls, WorkEdge, Zenon DEF Next, Main

\* In a program that neither cleans up nor takes detection back, no callback is run oftener
\* than once for every edge and every node of the library's list, although threads, calls and
\* edges interleave and callbacks are added while a thread walks over the lists: the report
\* that registration causes pays for no walk, every other one for one, and a walk runs a
\* callback at most once from each node (event_gpio.c:560, py_gpio.c:281).
THEOREM CallbacksLimited == NoRemoval => (Spec => []CallbacksBounded)
<1>1. ASSUME NoRemoval PROVE Spec => []CallbacksBounded
  <2>1. Init => ServeInv /\ ReportInv /\ WorkInv
    BY <1>1, ServeInit, ReportInit, WorkInit DEF NoRemoval
  <2>2. /\ GpioInv /\ GpioInv' /\ ServeInv /\ ReportInv /\ WorkInv /\ [Next]_vars
        => ServeInv' /\ ReportInv' /\ WorkInv'
    BY <1>1, ServeStep, ReportStep, WorkStep DEF NoRemoval
  <2>3. GpioInv /\ WorkInv => CallbacksBounded
    BY WorkBounded
  <2>4. QED
    BY <2>1, <2>2, <2>3, GpioInvariant, PTL DEF Spec
<1>2. QED
  BY <1>1
=============================================================================
