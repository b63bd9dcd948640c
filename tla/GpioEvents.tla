------------------------------ MODULE GpioEvents ------------------------------
(***************************************************************************)
(* Edge detection of Adafruit_BBIO.GPIO (event_gpio.c, py_gpio.c).  The     *)
(* Python thread calls the module; add_event_detect() starts a thread that  *)
(* waits in epoll and runs callbacks.  The two share fd_list, two callback  *)
(* lists, event_occurred[] and thread_running, without any lock: the        *)
(* interpreter's lock only keeps a Python callback out of a call in         *)
(* progress.                                                               *)
(*                                                                         *)
(* One Python thread is modelled, with inputs only and bouncetime 0, and    *)
(* callbacks that call nothing of the module.  A callback is known by the   *)
(* number of its list node; new nodes go to the end, so a callback list is   *)
(* the set of its nodes in the order of their numbers.  The kernel's part    *)
(* (sysfs, epoll, descriptor numbers) is modelled from its use here; a file  *)
(* system call on sysfs whose failure the code ignores always succeeds.     *)
(* A program that waits for edges does not clean up: a wait that fails      *)
(* leaves its epoll instance open, and the number that cleanup() closed but *)
(* did not forget could later be that instance's.                          *)
(***************************************************************************)
EXTENDS Naturals, SequencesExt

CONSTANTS
  Pins,       \* gpio numbers, positive: 0 stands for "not found" as well
  Foreign,    \* pins another process has exported
  Calls,      \* the functions the program calls, see CallNames
  MaxCalls, MaxEdges, MaxInterrupts, MaxThreads, MaxFd  \* bounds

CallNames == {"add", "addcb", "callback", "detected", "input", "remove",
              "cleanup", "wait"}

ASSUME GpioAssumption ==
  /\ Pins \subseteq Nat \ {0} /\ Foreign \subseteq Pins
  /\ Calls \subseteq CallNames /\ ~({"cleanup", "wait"} \subseteq Calls)
  /\ MaxCalls \in Nat /\ MaxEdges \in Nat /\ MaxInterrupts \in Nat /\ MaxThreads \in Nat /\ MaxFd \in Nat

VARIABLES
  exported,      \* exported_gpios[]: "no", "us" or "other"
  sysfs, edge,   \* kernel: pins exported, pins whose edge is not "none"
  direction,     \* gpio_direction[]: "unset" or "in"
  fdList,        \* fd_list, its head first
  used,          \* kernel: descriptor numbers in use
  epfd, epLive,  \* epfd (0 for -1), and whether the instance is still open
  epSet, ready,  \* kernel: descriptors registered in it, those to be reported
  occurred,      \* event_occurred[], 0 included
  running,       \* thread_running
  cCallbacks, pyCallbacks,   \* callbacks and py_callbacks, nodes [id, gpio]
  nodes,         \* list nodes allocated so far
  thread,        \* the poll threads
  mpc, mpin, mfd, mcb, \* the call in progress: control, gpio, fd, callback given
  wfd, wready,   \* blocking_wait_for_edge(): its own instance, edge to report
  result,        \* what the last call but setup() returned
  calls, edges,  \* bounds
  interrupts,    \* waits of a poll thread that a signal ended so far
  real,          \* history: pins with an edge since detection was last added
  invoked        \* history: callback -> times it was run

kernelVars == <<sysfs, edge, used, epLive, epSet, ready>>
listVars   == <<cCallbacks, pyCallbacks, nodes>>
mainVars   == <<mpc, mpin, mfd, mcb, wfd, wready, result, calls>>
histVars   == <<edges, interrupts, real, invoked>>
vars == <<exported, sysfs, edge, direction, fdList, used, epfd, epLive, epSet,
          ready, occurred, running, cCallbacks, pyCallbacks, nodes, thread, mpc,
          mpin, mfd, mcb, wfd, wready, result, calls, edges, interrupts, real, invoked>>

Threads == 1 .. MaxThreads
Fds     == 1 .. MaxFd
NodeIds == 1 .. 2 * MaxCalls

ThreadPCs == {"none", "start", "check", "leave", "enter", "wait", "read", "look", "test",
              "run", "c", "py", "cnext", "gil", "call", "gone"}
MainPCs == {"idle", "addopen", "addepoll", "addthread", "cbpy", "cbc", "rmc",
            "rmepoll", "rmflag", "stop", "unexport",
            "waitopen", "waitfirst", "waitedge", "crashed"}
Results == {"ok", "already", "other", "true", "false", "error"}

Idle == [pc |-> "none", fd |-> 0, gpio |-> 0, c |-> 0, py |-> 0]

TypeOK ==
  /\ exported \in [Pins -> {"no", "us", "other"}]
  /\ sysfs \subseteq Pins /\ edge \subseteq Pins
  /\ direction \in [Pins -> {"unset", "in"}]
  /\ fdList \in Seq([fd : Fds, gpio : Pins, initial : BOOLEAN, evented : BOOLEAN])
  /\ used \subseteq Fds /\ epfd \in Fds \cup {0} /\ epLive \in BOOLEAN
  /\ epSet \subseteq Fds /\ ready \subseteq epSet
  /\ occurred \in [Pins \cup {0} -> BOOLEAN] /\ running \in BOOLEAN
  /\ cCallbacks \subseteq [id : NodeIds, gpio : Pins]
  /\ pyCallbacks \subseteq [id : NodeIds, gpio : Pins]
  /\ nodes \in Nat
  /\ thread \in [Threads -> [pc : ThreadPCs, fd : Fds \cup {0}, gpio : Pins \cup {0},
                             c : Nat, py : Nat]]
  /\ mpc \in MainPCs /\ mpin \in Pins \cup {0} /\ mfd \in Fds \cup {0} /\ mcb \in BOOLEAN
  /\ wfd \in Fds \cup {0} /\ wready \in BOOLEAN
  /\ result \in Results /\ calls \in 0 .. MaxCalls /\ edges \in 0 .. MaxEdges
  /\ interrupts \in 0 .. MaxInterrupts
  /\ real \subseteq Pins /\ invoked \in [NodeIds -> Nat]

Init ==
  /\ exported = [p \in Pins |-> "no"] /\ sysfs = Foreign /\ edge = {}
  /\ direction = [p \in Pins |-> "unset"]
  /\ fdList = <<>> /\ used = {} /\ epfd = 0 /\ epLive = FALSE
  /\ epSet = {} /\ ready = {}
  /\ occurred = [p \in Pins \cup {0} |-> FALSE] /\ running = FALSE
  /\ cCallbacks = {} /\ pyCallbacks = {} /\ nodes = 0
  /\ thread = [t \in Threads |-> Idle]
  /\ mpc = "idle" /\ mpin = 0 /\ mfd = 0 /\ mcb = FALSE
  /\ wfd = 0 /\ wready = FALSE /\ result = "ok" /\ calls = 0
  /\ edges = 0 /\ interrupts = 0 /\ real = {} /\ invoked = [n \in NodeIds |-> 0]

-----------------------------------------------------------------------------
(* The lists.                                                              *)

EntriesOf(p) == {i \in DOMAIN fdList : fdList[i].gpio = p}
FirstOf(S) == CHOOSE i \in S : \A j \in S : i <= j

\* fd_lookup() and gpio_lookup(): the first match, or 0
fd_lookup(p) == IF EntriesOf(p) = {} THEN 0 ELSE fdList[FirstOf(EntriesOf(p))].fd
gpio_lookup(fd) ==
  LET S == {i \in DOMAIN fdList : fdList[i].fd = fd}
  IN  IF S = {} THEN 0 ELSE fdList[FirstOf(S)].gpio

gpio_is_evented(p) == EntriesOf(p) # {}
gpio_initial(p) == \E i \in EntriesOf(p) : fdList[i].initial

\* gpio_event_add() and gpio_event_remove() mark the first entry, if any
IsMarked(p) == EntriesOf(p) # {} /\ fdList[FirstOf(EntriesOf(p))].evented
Mark(p, e) == IF EntriesOf(p) = {} THEN fdList
              ELSE [fdList EXCEPT ![FirstOf(EntriesOf(p))].evented = e]

\* add_fd_list(): a new entry in front
Entry(p, fd) == [fd |-> fd, gpio |-> p, initial |-> TRUE, evented |-> FALSE]

\* nodes of a callback list: the first, and the next one; the variant stops after one
Holds(list, id) == \E n \in list : n.id = id
PinOf(list, id) == (CHOOSE n \in list : n.id = id).gpio
Behind(list, id) == {n.id : n \in {m \in list : m.id > id}}
NextNever(list, id) == 0
NextOf(list, id) == IF Behind(list, id) = {} THEN 0 ELSE FirstOf(Behind(list, id))
HeadOf(list) == IF Behind(list, 0) = {} THEN 0 ELSE FirstOf(Behind(list, 0))

\* remove_callbacks(): every node of p; the variant looks at the head only
RemoveHeadOnly(list, p) == {n \in list : n.id # HeadOf(list) \/ n.gpio # p}
remove_callbacks(list, p) == {n \in list : n.gpio # p}

\* kernel: the lowest descriptor number free, and what closing S undoes
FreeFds == Fds \ used
LowestFree == CHOOSE f \in FreeFds : \A g \in FreeFds : f <= g
Close(S) == used' = used \ S /\ epSet' = epSet \ S /\ ready' = ready \ S

\* gpio_export(): what the kernel and the library then hold of p
gpio_export(p) ==
  IF exported[p] # "no" THEN UNCHANGED <<exported, sysfs>>
  ELSE IF p \in sysfs
       THEN exported' = [exported EXCEPT ![p] = "other"] /\ UNCHANGED sysfs
       ELSE exported' = [exported EXCEPT ![p] = "us"] /\ sysfs' = sysfs \cup {p}

-----------------------------------------------------------------------------
(* The Python thread.  Each action of a call that another thread can tell   *)
(* from the next one is a step of its own.                                 *)

Begin(name, p) ==
  /\ mpc = "idle" /\ name \in Calls /\ calls < MaxCalls
  /\ calls' = calls + 1 /\ mpin' = p
Return(r) == mpc' = "idle" /\ result' = r

\* setup(p, IN); setting the direction may fail
Setup(p) ==
  /\ mpc = "idle"
  /\ gpio_export(p)
  /\ \/ direction' = [direction EXCEPT ![p] = "in"]
     \/ UNCHANGED direction
  /\ UNCHANGED <<edge, used, epLive, epSet, ready, fdList, epfd, occurred, running,
                 listVars, thread, mainVars, histVars>>

\* input(): the value file is opened once and stays open
Input(p) ==
  /\ Begin("input", p) /\ direction[p] = "in" /\ UNCHANGED mpc
  /\ IF fd_lookup(p) = 0 /\ p \in sysfs /\ FreeFds # {}
     THEN /\ fdList' = <<Entry(p, LowestFree)>> \o fdList
          /\ used' = used \cup {LowestFree}
     ELSE UNCHANGED <<fdList, used>>
  /\ result' = "ok"
  /\ UNCHANGED <<exported, sysfs, edge, direction, epLive, epSet, ready, epfd, occurred,
                 running, listVars, thread, mfd, mcb, wfd, wready, histVars>>

\* event_detected(): the flag is read and cleared
EventDetected(p) ==
  /\ Begin("detected", p) /\ UNCHANGED mpc
  /\ result' = IF occurred[p] THEN "true" ELSE "false"
  /\ occurred' = [occurred EXCEPT ![p] = FALSE]
  /\ UNCHANGED <<exported, kernelVars, direction, fdList, epfd, running, listVars, thread,
                 mfd, mcb, wfd, wready, histVars>>

\* add_event_detect(): fd_lookup() and gpio_event_add()
AddDetect(p) ==
  /\ \/ Begin("add", p) /\ mcb' = FALSE
     \/ Begin("addcb", p) /\ mcb' = TRUE
  /\ direction[p] = "in"
  /\ mfd' = fd_lookup(p)
  /\ IF IsMarked(p)
     THEN Return("already") /\ UNCHANGED fdList
     ELSE fdList' = Mark(p, TRUE) /\ mpc' = "addopen" /\ UNCHANGED result
  /\ UNCHANGED <<exported, kernelVars, direction, epfd, occurred, running, listVars,
                 thread, wfd, wready, histVars>>

\* open_value_file() returned an error; the variant has listed it as if there
\* were a descriptor
OpenFailedUnchecked ==
  fdList' = <<Entry(mpin, 0)>> \o fdList /\ Return("other") /\ UNCHANGED <<mfd, used>>
OpenFailed == Return("other") /\ UNCHANGED <<mfd, fdList, used>>

\* export, direction, edge, value file; opening it may fail
AddOpen ==
  /\ mpc = "addopen"
  /\ gpio_export(mpin) /\ edge' = edge \cup {mpin}
  /\ \/ /\ mfd # 0
        /\ mpc' = "addepoll" /\ UNCHANGED <<mfd, fdList, used, result>>
     \/ /\ mfd = 0 /\ FreeFds # {}
        /\ mfd' = LowestFree /\ used' = used \cup {LowestFree}
        /\ fdList' = <<Entry(mpin, LowestFree)>> \o fdList
        /\ mpc' = "addepoll" /\ UNCHANGED result
     \/ mfd = 0 /\ OpenFailed
  /\ UNCHANGED <<direction, epLive, epSet, ready, epfd, occurred, running, listVars,
                 thread, mpin, mcb, wfd, wready, calls, histVars>>

\* a descriptor is reported once as soon as it is registered
Register(fd) == epSet' = epSet \cup {fd} /\ ready' = ready \cup {fd}

\* epoll_create() unless there is an instance, and epoll_ctl(); each may fail, and
\* epoll_ctl() must, on a closed instance or for a descriptor it has
NewInstance ==
  /\ epfd = 0 /\ FreeFds # {}
  /\ epfd' = LowestFree /\ used' = used \cup {LowestFree} /\ epLive' = TRUE
AddEpoll ==
  /\ mpc = "addepoll"
  /\ NewInstance \/ UNCHANGED <<epfd, epLive, used>>
  /\ \/ /\ epLive' /\ mfd \notin epSet
        /\ Register(mfd) /\ real' = real \ {mpin}
        /\ mpc' = "addthread" /\ UNCHANGED result
     \/ Return("other") /\ UNCHANGED <<epSet, ready, real>>
  /\ UNCHANGED <<exported, sysfs, edge, direction, fdList, occurred, running, listVars,
                 thread, mpin, mfd, mcb, wfd, wready, calls, edges, interrupts, invoked>>

\* start the poll thread unless thread_running says that there is one; the
\* variant reads it the wrong way round
ThreadNeededNot == running
ThreadNeeded == ~running
NextStep == IF mcb THEN mpc' = "cbpy" /\ UNCHANGED result ELSE Return("ok")
Spawn ==
  \/ \E t \in Threads :
       /\ thread[t].pc \in {"none", "gone"}
       /\ \A u \in Threads : u < t => thread[u].pc \notin {"none", "gone"}
       /\ thread' = [thread EXCEPT ![t] = [Idle EXCEPT !.pc = "start"]]
       /\ NextStep
  \/ /\ \A t \in Threads : thread[t].pc \notin {"none", "gone"}
     /\ Return("other") /\ UNCHANGED thread
AddThread ==
  /\ mpc = "addthread"
  /\ IF ThreadNeeded THEN Spawn ELSE NextStep /\ UNCHANGED thread
  /\ UNCHANGED <<exported, kernelVars, direction, fdList, epfd, occurred, running,
                 listVars, mpin, mfd, mcb, wfd, wready, calls, histVars>>

\* add_event_callback()
AddCallback(p) ==
  /\ Begin("callback", p) /\ direction[p] = "in"
  /\ IF gpio_is_evented(p) THEN mpc' = "cbpy" /\ UNCHANGED result
                           ELSE Return("error")
  /\ UNCHANGED <<exported, kernelVars, direction, fdList, epfd, occurred, running,
                 listVars, thread, mfd, mcb, wfd, wready, histVars>>

\* add_py_callback() and add_edge_callback(): at the end of each list
Node == [id |-> nodes + 1, gpio |-> mpin]
AddPyCallback ==
  /\ mpc = "cbpy"
  /\ pyCallbacks' = pyCallbacks \cup {Node} /\ nodes' = nodes + 1
  /\ mpc' = "cbc"
  /\ UNCHANGED <<exported, kernelVars, direction, fdList, epfd, occurred, running,
                 cCallbacks, thread, mpin, mfd, mcb, wfd, wready, result, calls, histVars>>
AddEdgeCallback ==
  /\ mpc = "cbc"
  /\ cCallbacks' = cCallbacks \cup {Node} /\ nodes' = nodes + 1
  /\ Return("ok")
  /\ UNCHANGED <<exported, kernelVars, direction, fdList, epfd, occurred, running,
                 pyCallbacks, thread, mpin, mfd, mcb, wfd, wready, calls, histVars>>

\* remove_event_detect(): the Python callbacks, the C callbacks, epoll, edge
\* and mark, and at last the flag
RemoveDetect(p) ==
  /\ Begin("remove", p)
  /\ pyCallbacks' = {n \in pyCallbacks : n.gpio # p} /\ mpc' = "rmc"
  /\ UNCHANGED <<exported, kernelVars, direction, fdList, epfd, occurred, running,
                 cCallbacks, nodes, thread, mfd, mcb, wfd, wready, result, histVars>>
RemoveCallbacks ==
  /\ mpc = "rmc"
  /\ cCallbacks' = remove_callbacks(cCallbacks, mpin) /\ mfd' = fd_lookup(mpin)
  /\ mpc' = "rmepoll"
  /\ UNCHANGED <<exported, kernelVars, direction, fdList, epfd, occurred, running,
                 pyCallbacks, nodes, thread, mpin, mcb, wfd, wready, result, calls,
                 histVars>>

\* EPOLL_CTL_DEL; the variant forgets it
UnregisterNot(fd) == UNCHANGED <<epSet, ready>>
Unregister(fd) == IF epLive THEN epSet' = epSet \ {fd} /\ ready' = ready \ {fd}
                  ELSE UNCHANGED <<epSet, ready>>
RemoveEpoll ==
  /\ mpc = "rmepoll"
  /\ Unregister(mfd)
  /\ edge' = edge \ {mpin} /\ fdList' = Mark(mpin, FALSE)
  /\ mpc' = "rmflag"
  /\ UNCHANGED <<exported, sysfs, used, epLive, direction, epfd, occurred, running,
                 listVars, thread, mpin, mfd, mcb, wfd, wready, result, calls, histVars>>
RemoveFlag ==
  /\ mpc = "rmflag"
  /\ occurred' = [occurred EXCEPT ![mpin] = FALSE]
  /\ Return("ok")
  /\ UNCHANGED <<exported, kernelVars, direction, fdList, epfd, running, listVars,
                 thread, mpin, mfd, mcb, wfd, wready, calls, histVars>>

\* cleanup(): close(epfd), which keeps its value; thread_running; the exports
Cleanup ==
  /\ Begin("cleanup", 0) /\ mpc' = "stop"
  /\ IF epLive
     THEN epLive' = FALSE /\ used' = used \ {epfd} /\ UNCHANGED <<epSet, ready>>
     ELSE Close({epfd}) /\ UNCHANGED epLive
  /\ UNCHANGED <<exported, sysfs, edge, direction, fdList, epfd, occurred, running,
                 listVars, thread, mfd, mcb, wfd, wready, result, histVars>>
CleanupStop ==
  /\ mpc = "stop"
  /\ running' = FALSE /\ mpc' = "unexport"
  /\ UNCHANGED <<exported, kernelVars, direction, fdList, epfd, occurred, listVars,
                 thread, mpin, mfd, mcb, wfd, wready, result, calls, histVars>>

\* close_value_fd(), one node of fd_list at a time; the variant drops the node without
\* closing its descriptor
DropValueFd(p) ==
  fdList' = RemoveAt(fdList, FirstOf(EntriesOf(p))) /\ UNCHANGED <<used, epSet, ready>>
close_value_fd(p) ==
  /\ Close({fdList[FirstOf(EntriesOf(p))].fd})
  /\ fdList' = RemoveAt(fdList, FirstOf(EntriesOf(p)))

\* gpio_unexport() of the lowest pin left; only those exported by us
Ours == {p \in Pins : exported[p] = "us"}
gpio_unexport(p) ==
  IF EntriesOf(p) # {}
  THEN close_value_fd(p) /\ UNCHANGED <<exported, sysfs, edge>>
  ELSE /\ sysfs' = sysfs \ {p} /\ edge' = edge \ {p}
       /\ exported' = [exported EXCEPT ![p] = "no"]
       /\ UNCHANGED <<used, epSet, ready, fdList>>
CleanupExports ==
  /\ mpc = "unexport"
  /\ IF Ours = {}
     THEN Return("ok") /\ UNCHANGED <<exported, sysfs, edge, used, epSet, ready, fdList>>
     ELSE gpio_unexport(FirstOf(Ours)) /\ UNCHANGED <<mpc, result>>
  /\ UNCHANGED <<epLive, direction, epfd, occurred, running, listVars, thread, mpin, mfd,
                 mcb, wfd, wready, calls, histVars>>

\* wait_for_edge(): an epoll instance of its own, the interpreter's lock
\* released.  Returning early keeps that instance open.
WaitForEdge(p) ==
  /\ Begin("wait", p) /\ direction[p] = "in"
  /\ mfd' = fd_lookup(p)
  /\ \/ FreeFds = {} /\ Return("error") /\ UNCHANGED <<used, wfd, fdList>>
     \/ /\ FreeFds # {} /\ used' = used \cup {LowestFree}
        /\ IF IsMarked(p)
           THEN Return("already") /\ UNCHANGED <<wfd, fdList>>
           ELSE /\ fdList' = Mark(p, TRUE) /\ wfd' = LowestFree
                /\ mpc' = "waitopen" /\ UNCHANGED result
  /\ UNCHANGED <<exported, sysfs, edge, epLive, epSet, ready, direction, epfd, occurred,
                 running, listVars, thread, mcb, wready, histVars>>
WaitOpen ==
  /\ mpc = "waitopen"
  /\ gpio_export(mpin) /\ edge' = edge \cup {mpin}
  /\ \/ /\ mfd # 0
        /\ mpc' = "waitfirst" /\ UNCHANGED <<mfd, wfd, fdList, used, result>>
     \/ /\ mfd = 0 /\ FreeFds # {}
        /\ mfd' = LowestFree /\ used' = used \cup {LowestFree}
        /\ fdList' = <<Entry(mpin, LowestFree)>> \o fdList
        /\ mpc' = "waitfirst" /\ UNCHANGED <<wfd, result>>
     \/ /\ mfd = 0
        /\ Return("error") /\ wfd' = 0 /\ UNCHANGED <<mfd, fdList, used>>
  /\ UNCHANGED <<epLive, epSet, ready, direction, epfd, occurred, running, listVars,
                 thread, mpin, mcb, wready, calls, histVars>>

\* epoll_ctl(), epoll_wait() or read() failed: the instance stays open
WaitFailed == Return("error") /\ fdList' = Mark(mpin, FALSE) /\ wfd' = 0 /\ UNCHANGED used

\* the first epoll_wait() returns at once, with the current state
WaitFirst ==
  /\ mpc = "waitfirst" /\ wready' = FALSE
  /\ \/ mpc' = "waitedge" /\ UNCHANGED <<fdList, used, wfd, result>>
     \/ WaitFailed
  /\ UNCHANGED <<exported, sysfs, edge, epLive, epSet, ready, direction, epfd, occurred,
                 running, listVars, thread, mpin, mfd, mcb, calls, histVars>>

\* the second one returns with an edge, or after the timeout
WaitEdge ==
  /\ mpc = "waitedge"
  /\ \/ /\ Return(IF wready THEN "ok" ELSE "false")
        /\ fdList' = Mark(mpin, FALSE) /\ used' = used \ {wfd} /\ wfd' = 0
     \/ WaitFailed
  /\ UNCHANGED <<exported, sysfs, edge, epLive, epSet, ready, direction, epfd, occurred,
                 running, listVars, thread, mpin, mfd, mcb, wready, calls, histVars>>

-----------------------------------------------------------------------------
(* The poll threads.                                                       *)

Goto(t, pc) == thread' = [thread EXCEPT ![t].pc = pc]
GilFree == mpc \in {"idle", "waitopen", "waitfirst", "waitedge"}
AtPC(t, pc) == thread[t].pc = pc /\ mpc # "crashed"

\* thread_running is set by the thread itself
PollStart(t) ==
  /\ AtPC(t, "start") /\ running' = TRUE /\ Goto(t, "check")
  /\ UNCHANGED <<exported, kernelVars, direction, fdList, epfd, occurred, listVars,
                 mainVars, histVars>>
Exit(t) == running' = FALSE /\ Goto(t, "gone")
PollCheck(t) ==
  /\ AtPC(t, "check")
  /\ IF running THEN Goto(t, "enter") ELSE Goto(t, "leave")
  /\ UNCHANGED <<exported, kernelVars, direction, fdList, epfd, occurred, running,
                 listVars, mainVars, histVars>>
\* after the loop; another thread may have started since thread_running was read
PollLeave(t) ==
  /\ AtPC(t, "leave") /\ Exit(t)
  /\ UNCHANGED <<exported, kernelVars, direction, fdList, epfd, occurred, listVars,
                 mainVars, histVars>>

\* epoll_wait(): it fails on a closed instance, but one closed while a thread
\* is already waiting in it still reports
PollEnter(t) ==
  /\ AtPC(t, "enter")
  /\ IF epLive THEN Goto(t, "wait") /\ UNCHANGED running ELSE Exit(t)
  /\ UNCHANGED <<exported, kernelVars, direction, fdList, epfd, occurred, listVars,
                 mainVars, histVars>>
PollWait(t) ==
  /\ AtPC(t, "wait")
  /\ \E f \in ready :
       /\ ready' = ready \ {f}
       /\ thread' = [thread EXCEPT ![t] = [@ EXCEPT !.pc = "read", !.fd = f]]
  /\ UNCHANGED <<exported, sysfs, edge, used, epLive, epSet, direction, fdList, epfd,
                 occurred, running, listVars, mainVars, histVars>>

\* a signal, or the process stopped and continued, ends the wait with EINTR and with it
\* the thread; a descriptor to be reported is reported first
PollInterrupted(t) ==
  /\ AtPC(t, "wait") /\ ready = {} /\ interrupts < MaxInterrupts
  /\ Exit(t) /\ interrupts' = interrupts + 1
  /\ UNCHANGED <<exported, kernelVars, direction, fdList, epfd, occurred, listVars,
                 mainVars, edges, real, invoked>>

\* read() fails unless the number still is, or is again, a value file's
PollRead(t) ==
  /\ AtPC(t, "read")
  /\ IF gpio_lookup(thread[t].fd) # 0 THEN Goto(t, "look") /\ UNCHANGED running ELSE Exit(t)
  /\ UNCHANGED <<exported, kernelVars, direction, fdList, epfd, occurred, listVars,
                 mainVars, histVars>>
PollLookup(t) ==
  /\ AtPC(t, "look")
  /\ thread' = [thread EXCEPT ![t] = [@ EXCEPT !.pc = "test", !.gpio = gpio_lookup(thread[t].fd)]]
  /\ UNCHANGED <<exported, kernelVars, direction, fdList, epfd, occurred, running,
                 listVars, mainVars, histVars>>

\* the first report of a descriptor is its current state, not an edge; the
\* variants take it for one, and leave the loop after it
InitialIgnored(p) == FALSE
InitialReport(p) == gpio_initial(p)
AfterInitialLeave(t) == Goto(t, "gone")
AfterInitial(t) == Goto(t, "check")
set_initial_false(p) ==
  [i \in DOMAIN fdList |-> IF i \in EntriesOf(p) THEN [fdList[i] EXCEPT !.initial = FALSE]
                            ELSE fdList[i]]
PollTest(t) ==
  LET p == thread[t].gpio IN
  /\ AtPC(t, "test")
  /\ IF InitialReport(p)
     THEN fdList' = set_initial_false(p) /\ AfterInitial(t) /\ UNCHANGED occurred
     ELSE occurred' = [occurred EXCEPT ![p] = TRUE] /\ Goto(t, "run") /\ UNCHANGED fdList
  /\ UNCHANGED <<exported, kernelVars, direction, epfd, running, listVars, mainVars,
                 histVars>>

-----------------------------------------------------------------------------
(* run_callbacks() walks callbacks; each of its nodes calls                 *)
(* run_py_callbacks(), which walks py_callbacks.                           *)

\* reading a freed node: the process crashes, or goes on anywhere
Crash == mpc' = "crashed" /\ UNCHANGED <<thread, invoked>>
Astray(t, pc, walk, list) ==
  \/ Crash
  \/ \E n \in {0} \cup {m.id : m \in list} :
       /\ thread' = [thread EXCEPT ![t] = IF walk = "c" THEN [@ EXCEPT !.pc = pc, !.c = n]
                                                        ELSE [@ EXCEPT !.pc = pc, !.py = n]]
       /\ UNCHANGED <<mpc, invoked>>
ToC(t, n)  == /\ thread' = [thread EXCEPT ![t] = [@ EXCEPT !.pc = "c", !.c = n]]
              /\ UNCHANGED <<mpc, invoked>>
ToPy(t, n) == /\ thread' = [thread EXCEPT ![t] = [@ EXCEPT !.pc = "py", !.py = n]]
              /\ UNCHANGED <<mpc, invoked>>
On(t, pc)  == Goto(t, pc) /\ UNCHANGED <<mpc, invoked>>

WalkUnchanged ==
  UNCHANGED <<exported, kernelVars, direction, fdList, epfd, occurred, running, listVars,
              mpin, mfd, mcb, wfd, wready, result, calls, edges, interrupts, real>>

RunCallbacks(t) == AtPC(t, "run") /\ ToC(t, HeadOf(cCallbacks)) /\ WalkUnchanged
CallbackNode(t) ==
  LET n == thread[t].c IN
  /\ AtPC(t, "c")
  /\ \/ n = 0 /\ On(t, "check")
     \/ n # 0 /\ ~Holds(cCallbacks, n) /\ Astray(t, "c", "c", cCallbacks)
     \/ /\ Holds(cCallbacks, n)
        /\ IF PinOf(cCallbacks, n) = thread[t].gpio
           THEN ToPy(t, HeadOf(pyCallbacks)) ELSE ToC(t, NextOf(cCallbacks, n))
  /\ WalkUnchanged

\* back from func(): cb->next is read then
CallbackNext(t) ==
  LET n == thread[t].c IN
  /\ AtPC(t, "cnext")
  /\ \/ Holds(cCallbacks, n) /\ ToC(t, NextOf(cCallbacks, n))
     \/ ~Holds(cCallbacks, n) /\ Astray(t, "c", "c", cCallbacks)
  /\ WalkUnchanged
PyNode(t) ==
  LET n == thread[t].py IN
  /\ AtPC(t, "py")
  /\ \/ n = 0 /\ On(t, "cnext")
     \/ n # 0 /\ ~Holds(pyCallbacks, n) /\ Astray(t, "py", "py", pyCallbacks)
     \/ /\ Holds(pyCallbacks, n)
        /\ IF PinOf(pyCallbacks, n) = thread[t].gpio
           THEN On(t, "gil") ELSE ToPy(t, NextOf(pyCallbacks, n))
  /\ WalkUnchanged

\* the Python function runs while no call of the main thread is in progress
PyCall(t) ==
  LET n == thread[t].py IN
  /\ AtPC(t, "gil") /\ GilFree
  /\ \/ /\ Holds(pyCallbacks, n)
        /\ invoked' = [invoked EXCEPT ![n] = @ + 1]
        /\ Goto(t, "call") /\ UNCHANGED mpc
     \/ ~Holds(pyCallbacks, n) /\ Astray(t, "py", "py", pyCallbacks)
  /\ WalkUnchanged
PyReturn(t) ==
  LET n == thread[t].py IN
  /\ AtPC(t, "call") /\ GilFree
  /\ \/ Holds(pyCallbacks, n) /\ ToPy(t, NextOf(pyCallbacks, n))
     \/ ~Holds(pyCallbacks, n) /\ Astray(t, "py", "py", pyCallbacks)
  /\ WalkUnchanged

-----------------------------------------------------------------------------
\* the level of p changes; registered descriptors of it are reported
Edge(p) ==
  /\ edges < MaxEdges /\ p \in edge \cap sysfs /\ mpc # "crashed"
  /\ edges' = edges + 1 /\ real' = real \cup {p}
  /\ ready' = ready \cup {f \in epSet : gpio_lookup(f) = p}
  /\ wready' = (wready \/ (mpc = "waitedge" /\ mpin = p))
  /\ UNCHANGED <<exported, sysfs, edge, used, epLive, epSet, direction, fdList, epfd,
                 occurred, running, listVars, thread, mpc, mpin, mfd, mcb, wfd, result,
                 calls, interrupts, invoked>>

InCall ==
  \/ AddOpen \/ AddEpoll \/ AddThread \/ AddPyCallback \/ AddEdgeCallback
  \/ RemoveCallbacks \/ RemoveEpoll \/ RemoveFlag \/ CleanupStop \/ CleanupExports
  \/ WaitOpen \/ WaitFirst
Main == InCall \/ WaitEdge \/ Cleanup
        \/ \E p \in Pins : Setup(p) \/ Input(p) \/ EventDetected(p) \/ AddDetect(p)
                           \/ AddCallback(p) \/ RemoveDetect(p) \/ WaitForEdge(p)
Poll(t) == PollStart(t) \/ PollCheck(t) \/ PollLeave(t) \/ PollEnter(t) \/ PollWait(t)
           \/ PollRead(t) \/ PollLookup(t) \/ PollTest(t) \/ RunCallbacks(t) \/ CallbackNode(t)
           \/ CallbackNext(t) \/ PyNode(t) \/ PyCall(t) \/ PyReturn(t)
Next == Main \/ (\E t \in Threads : Poll(t) \/ PollInterrupted(t)) \/ \E p \in Pins : Edge(p)

Spec == Init /\ [][Next]_vars

\* a call in progress goes on, and every thread is scheduled; no signal need come
FairSpec == Spec /\ WF_vars(InCall) /\ \A t \in Threads : WF_vars(Poll(t))

-----------------------------------------------------------------------------
(* Properties.                                                             *)

\* Between two calls the library's and the module's list hold as many
\* callbacks of each pin: no Python callback is left that no C callback
\* reaches, whatever calls and threads came before.
Count(list, p) == Cardinality({n \in list : n.gpio = p})
CallbackListsAgree ==
  mpc = "idle" => \A p \in Pins : Count(cCallbacks, p) = Count(pyCallbacks, p)

\* The descriptors in use are those of fd_list, which has one for a pin, and epfd: no
\* call, failed ones included, leaks a descriptor or closes one that is still listed.
\* wait_for_edge() does leak its own.  The exception is the number that cleanup() leaves in
\* epfd: it may be given to a value file, and a second cleanup() closes that.
Listed == {fdList[i].fd : i \in DOMAIN fdList}
Live   == IF epLive THEN {epfd} ELSE {}
Stale  == IF epLive THEN {} ELSE {epfd}
DescriptorsListed ==
  /\ \A i, j \in DOMAIN fdList :
       i # j => /\ fdList[i].gpio # fdList[j].gpio
                /\ fdList[i].fd # fdList[j].fd \/ fdList[i].fd \in Stale
  /\ (Listed \cup Live) \ used \subseteq Stale
  /\ "wait" \notin Calls => used \subseteq Listed \cup Live

\* Every descriptor registered in the open instance belongs to a listed pin whose edge is
\* on, so remove_event_detect() leaves nothing that could still be reported.
RegisteredHasEdge == epLive => \A f \in epSet : gpio_lookup(f) \in edge

\* Whatever calls, failures and threads came before, the library accounts for every
\* descriptor and every registration.
DescriptorsConsistent == DescriptorsListed /\ RegisteredHasEdge

\* As long as the program neither cleans up nor runs out of threads, there is
\* a poll thread between two calls whenever a descriptor is registered, even
\* when thread_running is read before a new thread has set it.  Only a signal
\* during epoll_wait() takes the thread away, and then thread_running says so,
\* for the next add_event_detect() to start another.
Alive(t) == thread[t].pc \notin {"none", "gone"}
DetectionServed ==
  mpc = "idle" /\ epSet # {} =>
    (\E t \in Threads : Alive(t)) \/ (interrupts > 0 /\ ~running)

\* event_occurred[] is only set for a pin that had an edge since detection was
\* added: the report that registration itself causes is taken for the initial
\* one, in whatever order two pins are added and reported.
NoSpuriousEvent == \A p \in Pins : occurred[p] => p \in real

\* A report of a pin whose initial one was consumed sets event_occurred[],
\* although the thread holds no lock and its flag is read by others; unless a
\* signal during epoll_wait() left no thread at all.
Deaf == interrupts > 0 /\ \A t \in Threads : ~Alive(t)
EventNoticed ==
  \A p \in Pins :
    (\E f \in ready : gpio_lookup(f) = p /\ ~gpio_initial(p)) ~> (occurred[p] \/ Deaf)

\* Once such an event is recorded, every callback is run that the pin has in
\* both lists; one whose add_event_detect() is between the two is not.
CallbacksRun ==
  \A n \in NodeIds :
    (\E t \in Threads :
       /\ thread[t].pc = "run" /\ Count(cCallbacks, thread[t].gpio) > 0
       /\ [id |-> n, gpio |-> thread[t].gpio] \in pyCallbacks)
    ~> invoked[n] > 0

\* Each of a pin's k callbacks is run by each of its k nodes of the library's list
\* (py_gpio.c:281), so up to k times for an edge; but never oftener, and never for the
\* report that registration causes, while callbacks are added and edges come.
CallbacksBounded == \A n \in NodeIds : invoked[n] <= edges * Cardinality(cCallbacks)
=============================================================================
