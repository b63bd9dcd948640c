---------------------------------- MODULE Pwm ----------------------------------
(***************************************************************************)
(* Adafruit_BBIO.PWM (c_pwm.c, py_pwm.c) as built for kernels from 4.1 on   *)
(* (BBBVERSION41).  The library keeps a list of started channels with the   *)
(* period and duty cycle it believes the kernel to have; the truth is in    *)
(* four sysfs files per channel.  The module's calls are made by one thread *)
(* that holds the interpreter's lock, so what can go wrong between two steps *)
(* of a call is that a file operation fails or that the process dies: the   *)
(* kernel keeps what was written, the list is lost or runs ahead.           *)
(*                                                                         *)
(* A frequency is known by the period (unsigned long)(1e9 / freq) it asks   *)
(* for: 0 stands for every frequency above 1e9.  Duty cycles are percentages *)
(* whose hundredths are exact.  The kernel is modelled from the comments    *)
(* and the order of the writes here, in two versions: the one the library   *)
(* was built for, and one from 4.7 on, which checks the whole state at every *)
(* write and refuses any while the period is 0.                            *)
(***************************************************************************)
EXTENDS Naturals, FiniteSets, SequencesExt

CONSTANTS
  Keys,                  \* channels
  Settings,              \* what the program asks for: channel, period in ns, duty cycle
                         \* in percent, polarity
  MaxFaults, MaxCrashes  \* bounds: failing file operations, deaths of the process

ASSUME PwmAssumption ==
  /\ Keys # {}
  /\ Settings \subseteq [key : Keys, period : Nat, duty : Nat, polarity : Nat]
  /\ MaxFaults \in Nat /\ MaxCrashes \in Nat

VARIABLES
  exported_pwms,  \* the list, head first: the keys of its nodes
  cache,          \* period_ns, duty_ns and duty of a node, by key
  fds,            \* open descriptors of a channel's files
  kernel,         \* what the kernel holds of a channel
  strict,         \* whether it is one from 4.7 on; never changes
  call,           \* the call in progress, or the last one
  faults, crashes,
  stale,          \* history: keys not started successfully since a call failed
  orphans         \* history: channels a dead process has left enabled

vars == <<exported_pwms, cache, fds, kernel, strict, call, faults, crashes, stale, orphans>>

Files == {"period", "duty", "polarity", "enable"}
Functions == {"none", "start", "stop", "set_duty_cycle", "set_frequency", "cleanup"}
Writes == {"dutyDown", "periodDown", "periodUp", "dutyUp", "duty", "disableFirst",
           "polarity", "reenable", "enable", "disable"}
Steps == {"idle", "prepare", "open", "list", "readPeriod", "readDuty",
          "readEnable", "close", "cleanup"} \cup Writes

\* garbage of a node that is malloc'ed: some period, and a float that is no percentage
AnyPeriod == {s.period : s \in Settings}
AnyDuty == {0, 200}
DutyNs(period, duty) == (period * duty) \div 100

TypeOK ==
  /\ exported_pwms \in Seq(Keys)
  /\ cache \in [Keys -> [period : Nat, duty_ns : Nat, duty : Nat]]
  /\ fds \in [Keys -> SUBSET Files]
  /\ kernel \in [Keys -> [period : Nat, duty : Nat, polarity : {0, 1}, enabled : BOOLEAN]]
  /\ strict \in BOOLEAN
  /\ call \in [pc : Steps, fn : Functions, key : Keys, period : Nat, duty : 0 .. 100,
               polarity : {0, 1}, enabled : BOOLEAN]
  /\ faults \in 0 .. MaxFaults /\ crashes \in 0 .. MaxCrashes
  /\ stale \subseteq Keys /\ orphans \subseteq Keys

\* a channel nobody has used, and no call made
NoNode == [period |-> 0, duty_ns |-> 0, duty |-> 0]
Call(fn, k) == [pc |-> "idle", fn |-> fn, key |-> k, period |-> 0, duty |-> 0,
                polarity |-> 0, enabled |-> FALSE]
NoCall == Call("none", CHOOSE k \in Keys : TRUE)
Init ==
  /\ exported_pwms = <<>>
  /\ cache = [k \in Keys |-> NoNode]
  /\ fds = [k \in Keys |-> {}]
  /\ kernel = [k \in Keys |-> [period |-> 0, duty |-> 0, polarity |-> 0, enabled |-> FALSE]]
  /\ strict \in BOOLEAN
  /\ call = NoCall
  /\ faults = 0 /\ crashes = 0 /\ stale = Keys /\ orphans = {}

-----------------------------------------------------------------------------
(* The list, the files and the ways a call goes on.                        *)

lookup_exported_pwm(k) == \E i \in DOMAIN exported_pwms : exported_pwms[i] = k
Own == call.key
Mine == cache[call.key]
At(step) == call.pc = step
Goto(step) == call' = [call EXCEPT !.pc = step]

\* the result of a call is kept for a start() that succeeds only; cleanup() does not
\* look at errors of pwm_disable()
Succeed ==
  /\ call' = IF call.fn = "start" THEN [call EXCEPT !.pc = "idle", !.enabled = FALSE]
             ELSE NoCall
  /\ stale' = IF call.fn = "start" THEN stale \ {Own} ELSE stale
Fail ==
  /\ call' = IF call.fn = "cleanup" THEN [call EXCEPT !.pc = "cleanup"] ELSE NoCall
  /\ stale' = stale \cup {Own}

\* a file operation that fails for a reason of its own
Fault == faults < MaxFaults /\ faults' = faults + 1 /\ Fail

\* kernel: a duty cycle above the period is refused, so is a period of 0, and a
\* polarity while the channel is enabled; a strict one refuses everything else, the
\* disabling of the channel too, until it has a period
Accepts(k, file, v) ==
  CASE file = "period"   -> v > 0 /\ kernel[k].duty <= v
    [] file = "duty"     -> kernel[k].period > 0 /\ v <= kernel[k].period
    [] file = "polarity" -> ~kernel[k].enabled /\ (strict => kernel[k].period > 0)
    [] file = "enable"   -> v \/ strict => kernel[k].period > 0

Written(k, file, v) ==
  CASE file = "period"   -> [kernel EXCEPT ![k].period = v]
    [] file = "duty"     -> [kernel EXCEPT ![k].duty = v]
    [] file = "polarity" -> [kernel EXCEPT ![k].polarity = v]
    [] file = "enable"   -> [kernel EXCEPT ![k].enabled = v]

\* write(): accepted and on to "next", refused, or failed
Write(file, v, next) ==
  /\ \/ /\ Accepts(Own, file, v) /\ kernel' = Written(Own, file, v)
        /\ IF next = "idle" THEN Succeed ELSE Goto(next) /\ UNCHANGED stale
        /\ UNCHANGED faults
     \/ ~Accepts(Own, file, v) /\ Fail /\ UNCHANGED <<kernel, faults>>
     \/ Fault /\ UNCHANGED kernel
  /\ UNCHANGED <<exported_pwms, fds, crashes, orphans>>

-----------------------------------------------------------------------------
(* start(), first part: pwm_setup() of a channel that is not in the list.  *)

\* the checks of the module before the library is called; the variant has none
ValidAll(s) == TRUE
Valid(s) == s.duty <= 100 /\ s.polarity <= 1

Start(s) ==
  /\ At("idle") /\ Valid(s)
  /\ call' = [pc |-> IF lookup_exported_pwm(s.key) THEN "readPeriod" ELSE "prepare",
              fn |-> "start", key |-> s.key, period |-> s.period, duty |-> s.duty,
              polarity |-> s.polarity, enabled |-> FALSE]
  /\ UNCHANGED <<exported_pwms, cache, fds, kernel, faults, crashes, stale, orphans>>

\* a cape, the pin's mode, and the channel's directory, exported by whomever: whether it
\* had to be exported makes no difference later
SetupPath ==
  /\ At("prepare")
  /\ (Goto("open") /\ UNCHANGED <<faults, stale>>) \/ Fault
  /\ UNCHANGED <<exported_pwms, cache, fds, kernel, crashes, orphans>>

\* open() four times: what was opened before the one that fails is closed again; the
\* variant forgets one of them
OpenedFirst == <<"period", "duty", "polarity", "enable">>
AfterFailedOpenKept(opened) == opened \ {"period"}
AfterFailedOpen(opened) == {}
SetupOpen ==
  /\ At("open")
  /\ \/ Goto("list") /\ fds' = [fds EXCEPT ![Own] = Files] /\ UNCHANGED <<faults, stale>>
     \/ \E n \in 0 .. 3 :
          /\ fds' = [fds EXCEPT ![Own] =
                       AfterFailedOpen({OpenedFirst[i] : i \in 1 .. n})]
          /\ Fault
  /\ UNCHANGED <<exported_pwms, cache, kernel, crashes, orphans>>

\* malloc() and export_pwm(): a node at the end whose numbers are not set
SetupList ==
  /\ At("list")
  /\ \/ /\ exported_pwms' = Append(exported_pwms, Own)
        /\ \E p \in AnyPeriod, d \in AnyDuty :
             cache' = [cache EXCEPT ![Own] = [period |-> p, duty_ns |-> 0, duty |-> d]]
        /\ Goto("readPeriod")
        /\ orphans' = orphans \ {Own} /\ UNCHANGED <<fds, faults, stale>>
     \/ /\ Fault /\ fds' = [fds EXCEPT ![Own] = {}]
        /\ UNCHANGED <<exported_pwms, cache, orphans>>
  /\ UNCHANGED <<kernel, crashes>>

-----------------------------------------------------------------------------
(* start(), second part: the cache is read from the files before anything   *)
(* is written.                                                             *)

PeriodReadNot(k) == cache[k].period      \* the variant trusts the cache
PeriodRead(k) == kernel[k].period
ReadPeriod ==
  /\ At("readPeriod")
  /\ \/ /\ cache' = [cache EXCEPT ![Own].period = PeriodRead(Own)]
        /\ Goto("readDuty") /\ UNCHANGED <<faults, stale>>
     \/ Fault /\ UNCHANGED cache
  /\ UNCHANGED <<exported_pwms, fds, kernel, crashes, orphans>>

\* where pwm_set_frequency() goes on, given the period it finds in the cache; the variant
\* writes a shorter period before the duty cycle
FrequencyStepPeriodFirst(asked, cached) ==
  CASE asked < cached -> "periodDown"
    [] asked > cached -> "periodUp"
    [] OTHER          -> "done"
FrequencyStep(asked, cached) ==
  CASE asked < cached -> "dutyDown"
    [] asked > cached -> "periodUp"
    [] OTHER          -> "done"

\* pwm_set_frequency() after its checks, on a node whose cache is c: the period is
\* cached before anything is written
SetFrequency(c, asked, after, args) ==
  LET step == FrequencyStep(asked, c.period)
  IN  /\ cache' = [cache EXCEPT ![args.key] =
                     [c EXCEPT !.period = asked,
                               !.duty_ns = IF step = "dutyDown"
                                           THEN DutyNs(asked, c.duty) ELSE @]]
      /\ call' = IF step # "done" THEN [args EXCEPT !.pc = step]
                 ELSE IF after = "idle" THEN NoCall ELSE [args EXCEPT !.pc = after]

AfterFrequency == IF call.fn = "start" THEN "duty" ELSE "idle"

\* duty_ns from its file, duty from the arguments, and into pwm_set_frequency()
ReadDuty ==
  /\ At("readDuty")
  /\ \/ /\ SetFrequency([Mine EXCEPT !.duty_ns = kernel[Own].duty, !.duty = call.duty],
                        call.period, "duty", call)
        /\ UNCHANGED <<faults, stale>>
     \/ Fault /\ UNCHANGED cache
  /\ UNCHANGED <<exported_pwms, fds, kernel, crashes, orphans>>

\* a shorter period: the duty cycle is written first
WriteDutyDown == At("dutyDown") /\ Write("duty", Mine.duty_ns, "periodDown") /\ UNCHANGED cache
WritePeriodDown ==
  At("periodDown") /\ Write("period", call.period, AfterFrequency) /\ UNCHANGED cache

\* a longer period: it is written first; the variant leaves the duty cycle as it was
WritePeriodUpOnly ==
  At("periodUp") /\ Write("period", call.period, AfterFrequency) /\ UNCHANGED cache
WritePeriodUp ==
  /\ At("periodUp") /\ Write("period", call.period, "dutyUp")
  /\ cache' = IF call'.pc = "dutyUp"
              THEN [cache EXCEPT ![Own].duty_ns = DutyNs(call.period, Mine.duty)] ELSE cache
WriteDutyUp ==
  At("dutyUp") /\ Write("duty", Mine.duty_ns, AfterFrequency) /\ UNCHANGED cache

\* pwm_set_duty_cycle()
WriteDuty ==
  /\ At("duty")
  /\ Write("duty", DutyNs(Mine.period, call.duty),
           IF call.fn = "start" THEN "readEnable" ELSE "idle")
  /\ cache' = [cache EXCEPT ![Own] = [period  |-> Mine.period, duty |-> call.duty,
                                      duty_ns |-> DutyNs(Mine.period, call.duty)]]

\* pwm_set_polarity(): "enabled" is only assigned when the file says 1
ReadEnable ==
  /\ At("readEnable")
  /\ \/ \E e \in BOOLEAN :
          /\ kernel[Own].enabled => e
          /\ call' = [call EXCEPT !.enabled = e,
                        !.pc = IF kernel[Own].enabled THEN "disableFirst" ELSE "polarity"]
          /\ UNCHANGED <<faults, stale>>
     \/ Fault
  /\ UNCHANGED <<exported_pwms, cache, fds, kernel, crashes, orphans>>
DisableFirst == At("disableFirst") /\ Write("enable", FALSE, "polarity") /\ UNCHANGED cache
WritePolarity ==
  /\ At("polarity") /\ UNCHANGED cache
  /\ Write("polarity", call.polarity, IF call.enabled THEN "reenable" ELSE "enable")
Reenable == At("reenable") /\ Write("enable", TRUE, "enable") /\ UNCHANGED cache

WriteEnable == At("enable") /\ Write("enable", TRUE, "idle") /\ UNCHANGED cache

-----------------------------------------------------------------------------
(* The other calls.                                                        *)

CallSetFrequency(k, period) ==
  /\ At("idle")
  /\ IF lookup_exported_pwm(k)
     THEN SetFrequency(cache[k], period, "idle",
                       [Call("set_frequency", k) EXCEPT !.period = period])
     ELSE call' = NoCall /\ UNCHANGED cache
  /\ UNCHANGED <<exported_pwms, fds, kernel, faults, crashes, stale, orphans>>

CallSetDutyCycle(s) ==
  /\ At("idle") /\ Valid(s)
  /\ call' = IF lookup_exported_pwm(s.key)
             THEN [Call("set_duty_cycle", s.key) EXCEPT !.pc = "duty", !.duty = s.duty]
             ELSE NoCall
  /\ UNCHANGED <<exported_pwms, cache, fds, kernel, faults, crashes, stale, orphans>>

\* pwm_disable() of a key that is not in the list has nothing to do
Stop(k) ==
  /\ At("idle")
  /\ call' = IF lookup_exported_pwm(k) THEN [Call("stop", k) EXCEPT !.pc = "disable"]
             ELSE NoCall
  /\ UNCHANGED <<exported_pwms, cache, fds, kernel, faults, crashes, stale, orphans>>

\* a channel that cannot be disabled stays in the list; the variant drops it all the same
WriteDisableQuiet ==
  /\ At("disable") /\ Goto("close")
  /\ \/ kernel' = Written(Own, "enable", FALSE) /\ UNCHANGED faults
     \/ faults < MaxFaults /\ faults' = faults + 1 /\ UNCHANGED kernel
  /\ UNCHANGED <<exported_pwms, fds, crashes, orphans, cache, stale>>
WriteDisable == At("disable") /\ Write("enable", FALSE, "close") /\ UNCHANGED cache

\* the process dies and is started again: only the kernel's part is kept
Die ==
  /\ exported_pwms' = <<>> /\ fds' = [k \in Keys |-> {}]
  /\ cache' = [k \in Keys |-> NoNode] /\ call' = NoCall
  /\ stale' = Keys /\ orphans' = {k \in Keys : kernel[k].enabled}
  /\ UNCHANGED <<kernel, faults>>
Crash == crashes < MaxCrashes /\ crashes' = crashes + 1 /\ Die

\* the descriptors are closed and the node is unlinked and freed; not in the variant
UnlinkNot(list, k) == list
Unlink(list, k) == RemoveAt(list, CHOOSE i \in DOMAIN list : list[i] = k)
CloseNode ==
  /\ fds' = [fds EXCEPT ![Own] = {}]
  /\ exported_pwms' = Unlink(exported_pwms, Own)
  /\ cache' = [cache EXCEPT ![Own] = NoNode]
  /\ call' = IF call.fn = "cleanup" THEN [call EXCEPT !.pc = "cleanup"] ELSE NoCall
  /\ stale' = stale \cup {Own}
  /\ UNCHANGED <<kernel, faults, orphans>>

\* the key that cleanup() passes is the freed node's own, and it is still compared with the
\* nodes behind it and logged: freed memory is no channel's key, or reading it ends the
\* process
CloseChannel ==
  /\ At("close") /\ UNCHANGED crashes
  /\ CloseNode \/ (call.fn = "cleanup" /\ Die)

CallCleanup ==
  /\ At("idle") /\ call' = [Call("cleanup", Own) EXCEPT !.pc = "cleanup"]
  /\ UNCHANGED <<exported_pwms, cache, fds, kernel, faults, crashes, stale, orphans>>

\* while (exported_pwms != NULL): the head again, as long as disabling it fails
CleanupLoop ==
  /\ At("cleanup")
  /\ call' = IF exported_pwms = <<>> THEN NoCall
             ELSE [call EXCEPT !.pc = "disable", !.key = exported_pwms[1]]
  /\ UNCHANGED <<exported_pwms, cache, fds, kernel, faults, crashes, stale, orphans>>

Library ==
  \/ SetupPath \/ SetupOpen \/ SetupList
  \/ ReadPeriod \/ ReadDuty
  \/ WriteDutyDown \/ WritePeriodDown \/ WritePeriodUp \/ WriteDutyUp
  \/ WriteDuty \/ ReadEnable \/ DisableFirst \/ WritePolarity \/ Reenable \/ WriteEnable
  \/ WriteDisable \/ CloseChannel \/ CleanupLoop

Caller ==
  \/ \E s \in Settings : Start(s)
  \/ \E s \in Settings : CallSetFrequency(s.key, s.period)
  \/ \E s \in Settings : CallSetDutyCycle(s)
  \/ \E k \in Keys : Stop(k)
  \/ CallCleanup

Next == (Library \/ Caller \/ Crash) /\ UNCHANGED strict
Spec == Init /\ [][Next]_vars

\* a call in progress goes on
FairSpec == Spec /\ WF_vars(Library /\ UNCHANGED strict)

-----------------------------------------------------------------------------
(* Properties.                                                             *)

\* A start() that returns leaves the channel exactly as it was asked for, enabled, and
\* the cache in step with it, whatever was there before: a node with garbage, a cache
\* that is ahead of the kernel, or the settings of a process that has died.
StartRepairs ==
  At("idle") /\ call.fn = "start" =>
    /\ kernel[Own] = [period |-> call.period, duty |-> DutyNs(call.period, call.duty),
                      polarity |-> call.polarity, enabled |-> TRUE]
    /\ Mine = [period |-> call.period, duty_ns |-> kernel[Own].duty, duty |-> call.duty]

\* As long as no call failed, the cached period and duty cycle are the kernel's between
\* two calls, and a new frequency has kept the percentage.
CacheAgrees ==
  At("idle") =>
    \A k \in Keys \ stale :
      /\ kernel[k].period = cache[k].period
      /\ kernel[k].duty = cache[k].duty_ns
      /\ kernel[k].duty = DutyNs(kernel[k].period, cache[k].duty)

\* The order of the writes keeps the kernel from refusing one, on a running channel too:
\* in start() always, elsewhere unless a call failed before.  A frequency above 1e9 is
\* the exception.
WriteAccepted(file, v) == Accepts(Own, file, v)
NeverRefused ==
  /\ call.fn = "start" \/ Own \notin stale
  /\ call.fn \in {"start", "set_frequency"} => call.period > 0
  =>
    /\ At("dutyDown") \/ At("dutyUp") => WriteAccepted("duty", Mine.duty_ns)
    /\ At("periodDown") \/ At("periodUp") => WriteAccepted("period", call.period)
    /\ At("duty") => WriteAccepted("duty", DutyNs(Mine.period, call.duty))
    /\ At("disableFirst") => WriteAccepted("enable", FALSE)
    /\ At("polarity") => WriteAccepted("polarity", call.polarity)
    /\ At("reenable") \/ At("enable") => WriteAccepted("enable", TRUE)

\* Four descriptors for each channel in the list, none for any other, whichever open()
\* failed, and one node for each key, as pwm_disable() relies on.
DescriptorsOfList ==
  /\ \A k \in Keys : fds[k] = IF lookup_exported_pwm(k) \/ (At("list") /\ k = Own)
                              THEN Files ELSE {}
  /\ \A i, j \in DOMAIN exported_pwms : exported_pwms[i] = exported_pwms[j] => i = j

\* A channel that is enabled can be stopped: it is in the list, also after a stop() or a
\* start() that failed half-way, unless the process that enabled it is dead.
EnabledListed == \A k \in Keys : kernel[k].enabled => lookup_exported_pwm(k) \/ k \in orphans

\* The list accounts for every descriptor and every running output, and every value stays
\* in its range: duty cycles of 0 to 100 percent, the two polarities (py_pwm.c:60-75).
Bookkeeping == TypeOK /\ DescriptorsOfList /\ EnabledListed

\* cleanup() tries each channel until its write succeeds, so it ends with all of them
\* stopped once the failures do.  It never ends (c_pwm.c:753) when a listed channel has no
\* period and the kernel refuses to disable it: after a frequency above 1e9, or a failure
\* before the first period was written.
Unstoppable == strict /\ \E k \in Keys : lookup_exported_pwm(k) /\ kernel[k].period = 0
CleanupEnds == At("cleanup") ~> (At("idle") /\ exported_pwms = <<>>) \/ Unstoppable

=============================================================================
