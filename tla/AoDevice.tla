------------------------------- MODULE AoDevice -------------------------------
(***************************************************************************)
(* The audio device of mpg321 (ao.c and its callers): which libao device is *)
(* opened for the options given, how the chain of fallbacks is walked, and  *)
(* when a device is closed and opened again because the format of the frames *)
(* changes.  ao.c has every function twice: for the player without a buffer, *)
(* where a failure exits, and for the output process of the buffered player, *)
(* where it returns NULL.  One attempt to open a device is one step, since   *)
(* it may block; signals arrive in between.                                 *)
(***************************************************************************)
EXTENDS Naturals, FiniteSets

CONSTANTS
  Requests,       \* sets of MPG321_USE_* flags the options may have set
  Formats,        \* sample rate and channels of a frame
  Installations,  \* sets of chained drivers that libao may have
  DefaultDevices, \* names AUDIO_DEFAULT or libao may give as default
  None

Chain == {"alsa", "alsa09", "oss", "sun", "esd", "arts"}
FileFlags == {"au", "cdr", "wav", "stdout"}
Flags == Chain \cup FileFlags \cup {"null", "userdef"}

ASSUME AoAssumption ==
  /\ Requests \subseteq SUBSET Flags /\ Formats # {}
  /\ Installations \subseteq SUBSET Chain /\ DefaultDevices \subseteq Chain \cup {"other"}
  /\ None \notin Formats /\ None \notin Flags /\ None \notin [flag : Flags, format : Formats]

VARIABLES
  buffered,    \* MPG321_ENABLE_BUFFER
  requested,   \* the flags of the command line; opt changes
  opt,         \* options.opt, its device flags
  device,      \* options.device: "none", "empty" or "name"
  devicetype,  \* what libao knows of options.devicetype: "live", "file", "unknown"
  installed,   \* the chained drivers libao has
  pc,
  playdevice,  \* mad.c: playdevice, fbuffer.c: play_device
  pldev,       \* the local of open_ao_playdevice_buffer()
  closed,      \* playdevice points to a device that has been closed
  format,      \* rate and channels as remembered by the caller
  frame,       \* those of the frame to be played
  sigint,      \* disposition of SIGINT
  gaveUp,      \* the output has asked its parent to quit
  chosen, tried, leaked  \* history: the flags once the default is chosen, those that
                         \* did not open, devices open and no longer known

given == <<buffered, requested, device, devicetype, installed>>
vars == <<given, opt, pc, playdevice, pldev, closed, format, frame, sigint, gaveUp,
          chosen, tried, leaked>>

Devices == [flag : Flags, format : Formats]
Opening == {"specified", "restore"} \cup Chain
Ends == {"exited", "killed", "segfault", "ended", "closedTwice"}
TypeOK ==
  /\ buffered \in BOOLEAN /\ requested \in Requests /\ opt \subseteq Flags
  /\ device \in {"none", "empty", "name"} /\ devicetype \in {"live", "file", "unknown"}
  /\ installed \in Installations
  /\ pc \in {"check", "frame", "play"} \cup Opening \cup Ends
  /\ playdevice \in Devices \cup {None} /\ pldev \in Devices \cup {None}
  /\ format \in Formats \cup {None} /\ frame \in Formats
  /\ sigint \in {"default", "handler"} /\ closed \in BOOLEAN /\ gaveUp \in BOOLEAN
  /\ chosen \subseteq Flags /\ tried \subseteq Flags /\ leaked \subseteq Flags

\* a file to write is named by the option that asks for it
Init ==
  /\ buffered \in BOOLEAN /\ requested \in Requests /\ opt = requested
  /\ device \in {"none", "empty", "name"} /\ devicetype \in {"live", "file", "unknown"}
  /\ requested \cap {"au", "cdr", "wav"} # {} => device = "name"
  /\ installed \in Installations
  /\ pc = "check" /\ playdevice = None /\ pldev = None /\ closed = FALSE
  /\ format = None /\ frame \in Formats
  /\ sigint = IF buffered THEN "default" ELSE "handler"
  /\ gaveUp = FALSE /\ chosen = requested /\ tried = {} /\ leaked = {}

-----------------------------------------------------------------------------
(* Choosing the device.                                                    *)

\* the variant keeps a name that has no flag of its own
SetPlainName(name) == opt' = opt \cup {name}
set_play_device(name) == opt' = opt \cup {IF name \in Chain THEN name ELSE "userdef"}

\* the mask of check_default_play_device() has every flag but MPG321_USE_SUN; the
\* variant's lacks MPG321_USE_ESD too
NothingSelectedEsd == opt \cap (Flags \ {"sun", "esd"}) = {}
NothingSelected == opt \cap (Flags \ {"sun"}) = {}

\* "other": a default that is no driver of the chain.  Libao has every default it gives;
\* the name of AUDIO_DEFAULT it may not know
DefaultChosen(failed) ==
  /\ pc = "check"
  /\ \/ ~NothingSelected /\ pc' = "frame" /\ UNCHANGED <<opt, gaveUp>>
     \/ \E name \in DefaultDevices :
          /\ NothingSelected /\ set_play_device(name)
          /\ pc' = "frame" /\ UNCHANGED gaveUp
     \/ NothingSelected /\ failed /\ UNCHANGED opt
  /\ chosen' = opt'
  /\ UNCHANGED <<given, playdevice, pldev, closed, format, frame, sigint, tried, leaked>>

check_default_play_device ==
  ~buffered /\ DefaultChosen(pc' = "exited" /\ UNCHANGED gaveUp)
\* -1: the parent is told to quit, and the output goes on into its loop
check_default_play_device_buffer ==
  buffered /\ DefaultChosen(pc' = "frame" /\ gaveUp' = TRUE)

\* the libao driver a flag stands for, and whether libao has it
Has(flag) ==
  CASE flag \in Chain     -> flag \in installed
    [] flag = "userdef"   -> devicetype # "unknown"
    [] OTHER              -> TRUE
Live(flag) == flag \in Chain \cup {"null"} \/ (flag = "userdef" /\ devicetype = "live")

\* playdevice_is_live() asks for the first of these flags that is set, whatever is open
Order == <<"au", "cdr", "wav", "null", "stdout", "esd", "arts", "alsa", "oss", "sun",
           "alsa09", "userdef">>
AskedFirst(order) ==
  LET i == CHOOSE i \in DOMAIN order :
             order[i] \in opt /\ \A j \in 1 .. i - 1 : order[j] \notin opt
  IN order[i]
Asked == AskedFirst(Order)
playdevice_is_live == Has(Asked) /\ Live(Asked)

-----------------------------------------------------------------------------
(* Opening it.                                                             *)

\* the pointer that receives the result of an attempt; a device it points to is lost
Lost(p) == IF p = None THEN {} ELSE {p.flag}
Assign(d) ==
  IF buffered
  THEN pldev' = d /\ leaked' = leaked \cup Lost(pldev) /\ UNCHANGED <<playdevice, closed>>
  ELSE /\ playdevice' = d /\ closed' = FALSE /\ UNCHANGED pldev
       /\ leaked' = leaked \cup IF closed THEN {} ELSE Lost(playdevice)

\* what each variant does when a device does not open: exit(), or return NULL past the
\* call that restores the signal handler; frame_buffer_p() then tells its parent to quit
Exit == pc' = "exited" /\ UNCHANGED <<playdevice, pldev, closed, gaveUp, leaked>>
\* the variant leaves the caller's pointer alone
ReturnNullKept ==
  /\ pc' = "frame" /\ gaveUp' = TRUE
  /\ pldev' = None /\ UNCHANGED <<playdevice, closed, leaked>>
ReturnNull ==
  /\ pc' = "frame" /\ gaveUp' = TRUE
  /\ playdevice' = None /\ pldev' = None /\ closed' = FALSE
  /\ leaked' = leaked \cup Lost(pldev)

\* ao_open_live() and ao_open_file()
Opened(flag, next) ==
  /\ Has(flag) /\ Assign([flag |-> flag, format |-> frame])
  /\ pc' = next /\ UNCHANGED <<opt, tried, gaveUp>>

NotAssigned == UNCHANGED <<opt, playdevice, pldev, closed, gaveUp, tried, leaked>>
OpenedOrFailed(flag, failed) ==
  \/ Opened(flag, "restore")
  \/ failed /\ tried' = tried \cup {flag} /\ UNCHANGED opt

\* userdef: how it is opened goes by playdevice_is_live(), and so by the first flag set in
\* that order, which may be another one and of a driver libao lacks.  A file driver cannot
\* be opened live; a file without a name is not opened, and that is no failure
OpenUserdef(failed) ==
  \/ devicetype = "unknown" /\ pc' = "exited" /\ NotAssigned
  \/ devicetype # "unknown" /\ ~Has(Asked) /\ pc' = "segfault" /\ NotAssigned
  \/ /\ devicetype # "unknown" /\ playdevice_is_live
     /\ \/ devicetype = "live" /\ Opened("userdef", "restore")
        \/ failed /\ tried' = tried \cup {"userdef"} /\ UNCHANGED opt
  \/ /\ Has(Asked) /\ ~Live(Asked)
     /\ IF device = "none" THEN pc' = "restore" /\ NotAssigned
        ELSE OpenedOrFailed("userdef", failed)

\* au, cdr, wav, null, stdout and userdef, in this order; otherwise on to the chain
Specified == AskedFirst(<<"au", "cdr", "wav", "null", "stdout", "userdef">>)
OpenSpecified(failed) ==
  /\ pc = "specified"
  /\ IF opt \subseteq Chain THEN pc' = "alsa" /\ NotAssigned
     ELSE IF Specified = "userdef" THEN OpenUserdef(failed)
     ELSE OpenedOrFailed(Specified, failed)
  /\ UNCHANGED <<given, format, frame, sigint, chosen>>

NextDriver(flag) ==
  CASE flag = "alsa" -> "alsa09" [] flag = "alsa09" -> "oss" [] flag = "oss" -> "sun"
    [] flag = "sun" -> "esd" [] flag = "esd" -> "arts" [] flag = "arts" -> "restore"
\* "opened" is counted up for every driver but sun; in the variant for oss neither
AfterOpenedOss(flag) == IF flag \in {"oss", "sun"} THEN NextDriver(flag) ELSE "restore"
AfterOpened(flag) == IF flag = "sun" THEN NextDriver(flag) ELSE "restore"
\* a device that fails falls through to the next driver, unless one was specified; in
\* the variant whatever was specified
FallsThroughAlways(flag) == flag # "arts"
FallsThrough(flag) == device = "none" /\ flag # "arts"

\* one driver of the chain; "alsa:" with nothing after it exits in both variants
TryDriver(flag, failed) ==
  /\ pc = flag
  /\ \/ flag \notin opt /\ pc' = NextDriver(flag) /\ NotAssigned
     \/ flag = "alsa" /\ flag \in opt /\ device = "empty" /\ pc' = "exited" /\ NotAssigned
     \/ /\ flag \in opt /\ (flag = "alsa" => device # "empty")
        /\ \/ Opened(flag, AfterOpened(flag))
           \/ /\ FallsThrough(flag) /\ tried' = tried \cup {flag}
              /\ opt' = opt \cup {NextDriver(flag)} /\ Assign(None)
              /\ pc' = NextDriver(flag) /\ UNCHANGED gaveUp
           \/ ~FallsThrough(flag) /\ failed /\ tried' = tried \cup {flag} /\ UNCHANGED opt
  /\ UNCHANGED <<given, format, frame, sigint, chosen>>

\* SIGINT is handled again; the variant forgets it when the chain opened the device
RestoredSpecified == sigint' = IF opt \subseteq Chain THEN sigint ELSE "handler"
Restored == sigint' = "handler"
Restore ==
  /\ pc = "restore" /\ ~buffered /\ pc' = "play" /\ Restored
  /\ UNCHANGED <<given, opt, playdevice, pldev, closed, format, frame, gaveUp, chosen,
                 tried, leaked>>

open_ao_playdevice == ~buffered /\ OpenSpecified(Exit)
FallThrough == ~buffered /\ \E flag \in Chain : TryDriver(flag, Exit)
open_ao_playdevice_buffer == buffered /\ OpenSpecified(ReturnNull)
FallThroughBuffer == buffered /\ \E flag \in Chain : TryDriver(flag, ReturnNull)

\* return pldev: without a device the caller tells its parent to quit
RestoreBuffer ==
  /\ pc = "restore" /\ buffered /\ Restored
  /\ playdevice' = pldev /\ closed' = FALSE /\ pldev' = None
  /\ IF pldev = None THEN pc' = "frame" /\ gaveUp' = TRUE ELSE pc' = "play" /\ UNCHANGED gaveUp
  /\ UNCHANGED <<given, opt, format, frame, chosen, tried, leaked>>

-----------------------------------------------------------------------------
(* The callers.                                                            *)

\* whether the device has to be opened again for a frame of format f; the variant
\* compares one of rate and channels, and misses the change to some format
DiffersInRate(f) == f # format /\ f # CHOOSE g \in Formats : TRUE
Differs(f) == f # format

\* the frame is played when the device suits it; the old device is closed before the
\* new one is opened, and the pointer goes on pointing to it
OutputFrame ==
  /\ pc \in {"frame", "play"}
  /\ \E f \in Formats :
       /\ frame' = f
       /\ \/ /\ playdevice = None
             /\ format' = f /\ pc' = "specified" /\ sigint' = "default" /\ UNCHANGED closed
          \/ /\ playdevice # None /\ Differs(f) /\ playdevice_is_live
             /\ closed' = TRUE
             /\ format' = f /\ pc' = "specified" /\ sigint' = "default"
          \/ /\ playdevice # None /\ Differs(f) /\ ~Has(Asked)
             /\ pc' = "segfault" /\ UNCHANGED <<closed, format, sigint>>
          \/ /\ playdevice # None /\ (Differs(f) => Has(Asked) /\ ~Live(Asked))
             /\ pc' = "play" /\ UNCHANGED <<closed, format, sigint>>
  /\ UNCHANGED <<given, opt, playdevice, pldev, gaveUp, chosen, tried, leaked>>

\* the end of main()
CloseAtEnd ==
  /\ ~buffered /\ pc \in {"frame", "play"} /\ pc' = "ended"
  /\ UNCHANGED <<given, opt, playdevice, pldev, closed, format, frame, sigint, gaveUp,
                 chosen, tried, leaked>>

\* SIGUSR1 from the parent, which is done or has been told to quit
output_sighandler ==
  /\ buffered /\ pc \notin Ends
  /\ pc' = IF playdevice # None /\ closed THEN "closedTwice" ELSE "ended"
  /\ UNCHANGED <<given, opt, playdevice, pldev, closed, format, frame, sigint, gaveUp,
                 chosen, tried, leaked>>

\* Ctrl-C while nothing handles it
Interrupt ==
  /\ sigint = "default" /\ pc \notin Ends /\ pc' = "killed"
  /\ UNCHANGED <<given, opt, playdevice, pldev, closed, format, frame, sigint, gaveUp,
                 chosen, tried, leaked>>

Next ==
  \/ check_default_play_device \/ check_default_play_device_buffer
  \/ OutputFrame
  \/ open_ao_playdevice \/ FallThrough \/ Restore
  \/ open_ao_playdevice_buffer \/ FallThroughBuffer \/ RestoreBuffer
  \/ CloseAtEnd \/ output_sighandler \/ Interrupt
Spec == Init /\ [][Next]_vars

-----------------------------------------------------------------------------
(* Properties.                                                             *)

\* "Principle of least surprise" (ao.c:440): with a device specified, no flag is added
\* to those that were set when the first device was opened, over any number of openings.
NoFallThrough == device # "none" => opt = chosen

\* Only the missing "opened++" of the sun driver (ao.c:544) makes the chain go on with
\* a device open, and so lose one.
LeaksBehindSun == leaked \subseteq {"sun"}

\* Every device is known or lost behind sun's, and an option is always a flag of its own:
\* a name without one becomes "userdef" (ao.c:39).
Bookkeeping == TypeOK /\ LeaksBehindSun

\* Whatever was opened and given up before, a frame goes to a device that is not closed,
\* with Ctrl-C handled, and to a live one in the format it was opened with: neither the
\* remembered rate and channels nor the device they stand for are stale.
PlaysRight ==
  pc = "play" =>
    /\ sigint = "handler" /\ ~closed
    /\ playdevice # None /\ Live(playdevice.flag) => playdevice.format = frame

\* playdevice_is_live() asks about the first flag set, and dereferences what it gets for a
\* driver libao lacks, before a device is closed and in the opening of userdef (ao.c:291,
\* 403, 698): that needs a driver that failed before, sun, which the mask forgets, or a
\* second -o.
Drivers == Chain \cup {"userdef"}
CrashAfterFallback ==
  pc = "segfault" =>
    \/ Asked \in tried \/ requested = {"sun"}
    \/ \E f, g \in requested \cap Drivers : f # g

\* The device type of -o is the one that is opened, unless one so named failed (mpg321.1:19).
\* Sun, which the mask forgets, is left out, and so is -w with another file, where the
\* code prefers the other one (README, section 10).
SpecifiedFirst ==
  playdevice # None /\ requested # {} =>
    playdevice.flag \in requested \/ requested \cap tried # {}
WavAndOther == "wav" \in requested /\ requested \cap {"au", "cdr"} # {}
SpecifiedFirstButSun == requested # {"sun"} /\ ~WavAndOther => SpecifiedFirst

\* What the user named is what is opened: the device type first, and with a device no other
\* type at all.
UserObeyed == NoFallThrough /\ SpecifiedFirstButSun

\* The signal that ends the output closes a device a second time only when it arrives
\* between ao_close() and the end of the opening that follows.
ClosedTwiceOnlyOpening == [][pc' = "closedTwice" => pc \in Opening]_vars
=============================================================================
