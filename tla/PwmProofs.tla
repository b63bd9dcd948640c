------------------------------- MODULE PwmProofs -------------------------------
(***************************************************************************)
(* The PWM module for every set of channels and settings and every number of *)
(* failing file operations and crashes.  The inductive invariant PwmInv adds *)
(* to the checked properties what is true in the middle of a call: which     *)
(* call is at which step (FnInv), that it works on a node of the list once   *)
(* that is set up (Listed), how far it has brought the cache and the kernel  *)
(* together (PhaseInv), and that the two agree for every channel that no     *)
(* call is busy with and none has failed on (AgreeInv).                      *)
(***************************************************************************)
EXTENDS Pwm, SequenceTheorems, TLAPS


Changing == {"dutyDown", "periodDown", "periodUp", "dutyUp"}
Finishing == {"readEnable", "disableFirst", "polarity", "reenable", "enable"}
Working == {"readPeriod", "readDuty", "duty", "disable", "close"} \cup Changing \cup Finishing
Setup == {"prepare", "open", "list"}

\* which call is at which step
FnInv ==
  /\ call.pc \in Setup \cup {"readPeriod", "readDuty"} \cup Finishing => call.fn = "start"
  /\ call.pc \in Changing => call.fn \in {"start", "set_frequency"}
  /\ At("duty") => call.fn \in {"start", "set_duty_cycle"}
  /\ At("disable") \/ At("close") => call.fn \in {"stop", "cleanup"}
  /\ At("cleanup") => call.fn = "cleanup"
  /\ At("idle") => call.fn \in {"none", "start"}

\* a call works on a node of the list once it is set up
Listed ==
  /\ call.pc \in Setup => ~lookup_exported_pwm(Own)
  /\ call.pc \in Working => lookup_exported_pwm(Own)
  /\ At("close") => kernel[Own].enabled = FALSE

KernelInv == \A k \in Keys : kernel[k].duty <= kernel[k].period

\* how far the call has brought cache and kernel together
Trusted == call.fn = "start" \/ Own \notin stale
ChangingInv ==
  /\ Mine.period = call.period /\ Mine.duty <= 100
  /\ call.fn = "start" => Mine.duty = call.duty
  /\ ~At("periodUp") => Mine.duty_ns = DutyNs(call.period, Mine.duty)
  /\ At("dutyDown") \/ At("periodDown") => call.period < kernel[Own].period
  /\ At("periodDown") => kernel[Own].duty = Mine.duty_ns
  /\ At("periodUp") => call.period > kernel[Own].period
  /\ At("dutyUp") => call.period > 0 /\ kernel[Own].period = call.period
FinishingInv ==
  /\ call.period > 0 /\ kernel[Own].period = call.period
  /\ kernel[Own].duty = DutyNs(call.period, call.duty)
  /\ Mine = [period |-> call.period, duty_ns |-> kernel[Own].duty, duty |-> call.duty]
  /\ At("polarity") => kernel[Own].enabled = FALSE
  /\ At("reenable") \/ At("enable") => kernel[Own].polarity = call.polarity
PhaseInv ==
  /\ At("readDuty") => Mine.period = kernel[Own].period
  /\ Trusted /\ call.pc \in Changing => ChangingInv
  /\ At("duty") /\ call.fn = "start" =>
       Mine.period = call.period /\ kernel[Own].period = call.period
  /\ call.pc \in Finishing => FinishingInv

Agreed(k) ==
  /\ kernel[k].period > 0 /\ kernel[k].period = cache[k].period
  /\ kernel[k].duty = cache[k].duty_ns /\ cache[k].duty <= 100
  /\ kernel[k].duty = DutyNs(kernel[k].period, cache[k].duty)
Untouched(k) ==
  \/ k # Own \/ At("idle") \/ At("disable") \/ At("close") \/ At("cleanup")
  \/ At("duty") /\ call.fn = "set_duty_cycle"
AgreeInv == \A k \in Keys \ stale : Untouched(k) => Agreed(k)

(* The types of the parts, without the version of the kernel, which no step changes. *)
NodeType == [period : Nat, duty_ns : Nat, duty : Nat]
ChannelType == [period : Nat, duty : Nat, polarity : {0, 1}, enabled : BOOLEAN]
CallType == [pc : Steps, fn : Functions, key : Keys, period : Nat, duty : 0 .. 100,
             polarity : {0, 1}, enabled : BOOLEAN]
Typing ==
  /\ exported_pwms \in Seq(Keys) /\ cache \in [Keys -> NodeType]
  /\ fds \in [Keys -> SUBSET Files] /\ kernel \in [Keys -> ChannelType]
  /\ call \in CallType
  /\ faults \in 0 .. MaxFaults /\ crashes \in 0 .. MaxCrashes
  /\ stale \subseteq Keys /\ orphans \subseteq Keys
Accounts == Typing /\ DescriptorsOfList /\ EnabledListed

PwmInv == /\ Accounts /\ FnInv /\ Listed /\ KernelInv
          /\ PhaseInv /\ AgreeInv /\ StartRepairs

LEMMA Typed ==
  Typing <=> /\ exported_pwms \in Seq(Keys) /\ cache \in [Keys -> NodeType]
             /\ fds \in [Keys -> SUBSET Files] /\ kernel \in [Keys -> ChannelType]
             /\ call \in CallType
             /\ faults \in 0 .. MaxFaults /\ crashes \in 0 .. MaxCrashes
             /\ stale \subseteq Keys /\ orphans \subseteq Keys
  BY DEF Typing

LEMMA TypedNext ==
  ASSUME exported_pwms' \in Seq(Keys), cache' \in [Keys -> NodeType],
         fds' \in [Keys -> SUBSET Files], kernel' \in [Keys -> ChannelType], call' \in CallType,
         faults' \in 0 .. MaxFaults, crashes' \in 0 .. MaxCrashes,
         stale' \subseteq Keys, orphans' \subseteq Keys
  PROVE  Typing'
  BY DEF Typing

LEMMA TypedCall == Accounts' => call' \in CallType
  BY DEF Accounts, Typing

(* What RemoveAt() returns, and the range of a duty cycle in nanoseconds.   *)
LEMMA Removed ==
  ASSUME NEW S, NEW s \in Seq(S), NEW i \in 1 .. Len(s)
  PROVE  /\ RemoveAt(s, i) \in Seq(S) /\ Len(RemoveAt(s, i)) = Len(s) - 1
         /\ \A j \in 1 .. Len(s) - 1 : RemoveAt(s, i)[j] = IF j < i THEN s[j] ELSE s[j + 1]
<1> DEFINE l == SubSeq(s, 1, i - 1)
           r == SubSeq(s, i + 1, Len(s))
<1>1. Len(s) \in Nat /\ \A j \in 1 .. Len(s) : s[j] \in S
  BY LenProperties, SMT
<1>2. l \in Seq(S) /\ Len(l) = i - 1 /\ \A j \in 1 .. i - 1 : l[j] = s[j]
  BY <1>1, SMT
<1>3. r \in Seq(S) /\ Len(r) = Len(s) - i /\ \A j \in 1 .. Len(s) - i : r[j] = s[j + i]
  BY <1>1, SMT
<1> HIDE DEF l, r
<1>4. /\ l \o r \in Seq(S) /\ Len(l \o r) = Len(l) + Len(r)
      /\ \A j \in 1 .. Len(l) + Len(r) : (l \o r)[j] = IF j <= Len(l) THEN l[j] ELSE r[j - Len(l)]
  BY <1>2, <1>3, ConcatProperties, Zenon
<1>5. RemoveAt(s, i) = l \o r
  BY DEF RemoveAt, l, r
<1>6. Len(l) + Len(r) = Len(s) - 1
  BY <1>1, <1>2, <1>3, SMT
<1>7. ASSUME NEW j \in 1 .. Len(s) - 1
      PROVE  (l \o r)[j] = IF j < i THEN s[j] ELSE s[j + 1]
  <2>1. (l \o r)[j] = IF j <= Len(l) THEN l[j] ELSE r[j - Len(l)]
    BY <1>4, <1>6, Zenon
  <2>2. CASE j < i
    BY <1>1, <1>2, <2>1, <2>2, SMT
  <2>3. CASE ~(j < i)
    <3>1. j - (i - 1) \in 1 .. Len(s) - i /\ j - (i - 1) + i = j + 1 /\ ~(j <= i - 1)
      BY <1>1, <2>3, SMT
    <3>2. r[j - (i - 1)] = s[j + 1]
      BY <1>3, <3>1, SMT
    <3>3. QED
      BY <1>2, <2>1, <2>3, <3>1, <3>2, SMT
  <2>4. QED
    BY <2>2, <2>3
<1>8. QED
  BY <1>4, <1>5, <1>6, <1>7, Zenon

LEMMA DutyNsBounded ==
  ASSUME NEW p \in Nat, NEW d \in 0 .. 100
  PROVE  DutyNs(p, d) \in Nat /\ DutyNs(p, d) <= p
<1>1. p * d \in Nat /\ p * d <= p * 100
  BY SMT
<1>2. QED
  BY <1>1, SMT DEF DutyNs

LEMMA DutyNsNat ==
  ASSUME NEW p \in Nat, NEW d \in Nat
  PROVE  DutyNs(p, d) \in Nat
<1>1. p * d \in Nat
  BY SMT
<1>2. QED
  BY <1>1, SMT DEF DutyNs

(* What a write changes of the kernel.                                     *)
Fits(file, v) ==
  /\ file \in {"period", "duty"} => v \in Nat
  /\ file = "polarity" => v \in {0, 1}
  /\ file = "enable" => v \in BOOLEAN

Updated(k, file, v) ==
  [period   |-> IF file = "period" THEN v ELSE kernel[k].period,
   duty     |-> IF file = "duty" THEN v ELSE kernel[k].duty,
   polarity |-> IF file = "polarity" THEN v ELSE kernel[k].polarity,
   enabled  |-> IF file = "enable" THEN v ELSE kernel[k].enabled]
LEMMA WrittenChannel ==
  ASSUME Typing, NEW k \in Keys, NEW file \in Files,
         NEW v, Fits(file, v)
  PROVE  /\ Written(k, file, v) \in [Keys -> ChannelType]
         /\ \A j \in Keys \ {k} : Written(k, file, v)[j] = kernel[j]
         /\ Written(k, file, v)[k] =
              Updated(k, file, v)
<1>1. kernel \in [Keys -> ChannelType]
  BY Typed
<1>2. CASE file = "period"
  BY <1>1, <1>2, SMT DEF Written, ChannelType, Fits, Updated
<1>3. CASE file = "duty"
  BY <1>1, <1>3, SMT DEF Written, ChannelType, Fits, Updated
<1>4. CASE file = "polarity"
  BY <1>1, <1>4, SMT DEF Written, ChannelType, Fits, Updated
<1>5. CASE file = "enable"
  BY <1>1, <1>5, SMT DEF Written, ChannelType, Fits, Updated
<1>6. QED
  BY <1>2, <1>3, <1>4, <1>5, Zenon DEF Files

(* The calls the actions write into call'.                                  *)
LEMMA CallTyped ==
  ASSUME NEW fn \in Functions, NEW k \in Keys
  PROVE  Call(fn, k) \in CallType /\ NoCall \in CallType
<1>1. (CHOOSE j \in Keys : TRUE) \in Keys /\ "idle" \in Steps /\ "none" \in Functions
  BY PwmAssumption, Zenon DEF Steps, Functions
<1>2. QED
  BY <1>1, SMT DEF Call, NoCall, CallType

LEMMA GotoCall ==
  ASSUME Typing, NEW step \in Steps, Goto(step)
  PROVE  /\ call' \in CallType /\ call'.pc = step /\ call'.fn = call.fn /\ call'.key = call.key
         /\ call'.period = call.period /\ call'.duty = call.duty
         /\ call'.polarity = call.polarity /\ call'.enabled = call.enabled
<1>1. call \in CallType
  BY Typed
<1>2. QED
  BY <1>1, SMT DEF Goto, CallType

LEMMA NoCallFields ==
  /\ NoCall \in CallType /\ NoCall.pc = "idle" /\ NoCall.fn = "none" /\ NoCall.key \in Keys
<1>1. NoCall \in CallType
  BY PwmAssumption, CallTyped, Zenon DEF Functions
<1>2. QED
  BY <1>1, SMT DEF NoCall, Call, CallType

LEMMA PwmInit == Init => PwmInv
<1> SUFFICES ASSUME Init PROVE PwmInv
  OBVIOUS
<1>1. call \in CallType /\ call.pc = "idle" /\ call.fn = "none"
  BY NoCallFields, Zenon DEF Init
<1>2. Typing
  <2>1. cache \in [Keys -> NodeType] /\ kernel \in [Keys -> ChannelType]
    BY SMT DEF Init, NodeType, ChannelType, NoNode
  <2>2. exported_pwms \in Seq(Keys)
    BY EmptySeq, Zenon DEF Init
  <2>3. fds \in [Keys -> SUBSET Files]
    BY SMT DEF Init
  <2>4. faults \in 0 .. MaxFaults /\ crashes \in 0 .. MaxCrashes
    BY PwmAssumption, SMT DEF Init
  <2>5. QED
    BY <1>1, <2>1, <2>2, <2>3, <2>4, Typed, Zenon DEF Init
<1>3. Accounts
  <2>1. \A k \in Keys : ~lookup_exported_pwm(k)
    BY SMT DEF Init, lookup_exported_pwm
  <2>2. DescriptorsOfList
    BY <1>1, <2>1, SMT DEF Init, DescriptorsOfList, At
  <2>3. EnabledListed
    BY SMT DEF Init, EnabledListed
  <2>4. QED
    BY <1>2, <2>2, <2>3 DEF Accounts
<1>4. KernelInv
  BY SMT DEF Init, KernelInv
<1>5. FnInv /\ Listed /\ PhaseInv /\ StartRepairs
  BY <1>1, SMT DEF FnInv, Listed, PhaseInv, StartRepairs, At, Setup, Working, Changing, Finishing
<1>6. AgreeInv
  BY Zenon DEF Init, AgreeInv
<1>7. QED
  BY <1>3, <1>4, <1>5, <1>6 DEF PwmInv

-----------------------------------------------------------------------------
(* A call that fails, wherever it was.                                     *)
Failed ==
  /\ Fail /\ call.pc \notin {"idle", "cleanup"}
  /\ UNCHANGED <<exported_pwms, kernel, crashes, orphans>> /\ faults' \in 0 .. MaxFaults
  /\ cache' \in [Keys -> NodeType] /\ fds' \in [Keys -> SUBSET Files]
  /\ \A k \in Keys \ {Own} : cache'[k] = cache[k] /\ fds'[k] = fds[k]
  /\ fds'[Own] = IF lookup_exported_pwm(Own) THEN Files ELSE {}

LEMMA FailCall ==
  ASSUME Typing, Fail
  PROVE  /\ call' \in CallType /\ stale' = stale \cup {Own} /\ Own \in Keys
         /\ call'.pc = (IF call.fn = "cleanup" THEN "cleanup" ELSE "idle")
         /\ call'.fn = (IF call.fn = "cleanup" THEN "cleanup" ELSE "none")
<1>1. call \in CallType
  BY Typed
<1>2. stale' = stale \cup {Own} /\ Own \in Keys
  BY <1>1, SMT DEF Fail, Own, CallType
<1>3. CASE call.fn = "cleanup"
  <2>1. Goto("cleanup") /\ "cleanup" \in Steps
    BY <1>3, Zenon DEF Fail, Goto, Steps
  <2>2. QED
    BY <1>2, <1>3, <2>1, GotoCall, Zenon
<1>4. CASE call.fn # "cleanup"
  BY <1>2, <1>4, NoCallFields, Zenon DEF Fail
<1>5. QED
  BY <1>3, <1>4

LEMMA FailedStep == PwmInv /\ Failed => PwmInv'
<1> SUFFICES ASSUME PwmInv, Failed PROVE PwmInv'
  OBVIOUS
<1>0. Typing /\ Fail
  BY DEF PwmInv, Accounts, Failed
<1>1. /\ call' \in CallType /\ stale' = stale \cup {Own} /\ Own \in Keys
      /\ (call'.pc = "cleanup" /\ call'.fn = "cleanup") \/ (call'.pc = "idle" /\ call'.fn = "none")
  BY <1>0, FailCall, Zenon
<1>2. /\ exported_pwms' = exported_pwms /\ kernel' = kernel /\ orphans' = orphans
      /\ crashes' = crashes
      /\ \A k \in Keys : lookup_exported_pwm(k)' = lookup_exported_pwm(k)
  BY Zenon DEF Failed, lookup_exported_pwm
<1>3. Typing'
  <2>1. stale' \subseteq Keys
    BY <1>0, <1>1, Zenon DEF Typing
  <2>2. QED
    BY <1>0, <1>1, <1>2, <2>1, Typed, TypedNext, Zenon DEF Failed
<1>4. DescriptorsOfList' /\ EnabledListed'
  <2>1. ~At("list")'
    BY <1>1, SMT DEF At
  <2>2. \A k \in Keys : fds'[k] = IF lookup_exported_pwm(k) THEN Files ELSE {}
    BY <1>1, Zenon DEF PwmInv, Accounts, DescriptorsOfList, Failed
  <2>3. QED
    BY <1>2, <2>1, <2>2, Zenon DEF PwmInv, Accounts, DescriptorsOfList, EnabledListed
<1>5. FnInv' /\ Listed' /\ PhaseInv' /\ StartRepairs'
  BY <1>1, SMT DEF FnInv, Listed, PhaseInv, StartRepairs, At, Setup, Working, Changing, Finishing
<1>6. KernelInv'
  BY <1>2, Zenon DEF PwmInv, KernelInv
<1>7. AgreeInv'
  <2>1. ASSUME NEW k \in Keys \ stale' PROVE Agreed(k)'
    <3>1. k # Own /\ k \in Keys \ stale /\ cache'[k] = cache[k]
      BY <1>1, <2>1, Zenon DEF Failed
    <3>2. Agreed(k)
      BY <3>1, Zenon DEF PwmInv, AgreeInv, Untouched
    <3>3. QED
      BY <1>2, <3>1, <3>2, Zenon DEF Agreed
  <2>2. QED
    BY <2>1, Zenon DEF AgreeInv
<1>8. QED
  BY <1>3, <1>4, <1>5, <1>6, <1>7 DEF PwmInv, Accounts

-----------------------------------------------------------------------------
(* A write that is accepted.                                               *)
Wrote(file, v, next) ==
  /\ Accepts(Own, file, v) /\ kernel' = Written(Own, file, v)
  /\ \/ next = "idle" /\ Succeed
     \/ next # "idle" /\ Goto(next) /\ UNCHANGED stale
  /\ UNCHANGED <<faults, exported_pwms, fds, crashes, orphans>>

LEMMA WriteMoves ==
  ASSUME PwmInv, call.pc \in Working, NEW file, NEW v, NEW next, Write(file, v, next),
         cache' \in [Keys -> NodeType], \A k \in Keys \ {Own} : cache'[k] = cache[k]
  PROVE  Wrote(file, v, next) \/ Failed
<1>1. Own \in Keys /\ faults \in 0 .. MaxFaults /\ fds \in [Keys -> SUBSET Files]
  BY Typed, SMT DEF PwmInv, Accounts, Own, CallType
<1>2. call.pc \notin {"idle", "cleanup", "list"}
  BY SMT DEF Working, Changing, Finishing
<1>3. fds[Own] = IF lookup_exported_pwm(Own) THEN Files ELSE {}
  BY <1>1, <1>2, Zenon DEF PwmInv, Accounts, DescriptorsOfList, At
<1>4. ASSUME Fault PROVE Fail /\ faults' \in 0 .. MaxFaults
  BY <1>1, <1>4, PwmAssumption, SMT DEF Fault
<1>5. CASE Fail /\ UNCHANGED kernel /\ faults' \in 0 .. MaxFaults
  BY <1>1, <1>2, <1>3, <1>5, Zenon DEF Write, Failed
<1>6. QED
  BY <1>1, <1>4, <1>5, Zenon DEF Write, Wrote

\* what such a write leaves behind, for the call of channel o
After(o, file, v, next) ==
  /\ \A k \in Keys : lookup_exported_pwm(k)' = lookup_exported_pwm(k)
  /\ \A k \in Keys \ {o} : kernel'[k] = kernel[k]
  /\ kernel'[o].period = (IF file = "period" THEN v ELSE kernel[o].period)
  /\ kernel'[o].duty = (IF file = "duty" THEN v ELSE kernel[o].duty)
  /\ kernel'[o].polarity = (IF file = "polarity" THEN v ELSE kernel[o].polarity)
  /\ kernel'[o].enabled = (IF file = "enable" THEN v ELSE kernel[o].enabled)
  /\ kernel' \in [Keys -> ChannelType]
  /\ call'.pc = next
  /\ next # "idle" \/ call.fn = "start" =>
       /\ call'.fn = call.fn /\ call'.key = call.key /\ call'.period = call.period
       /\ call'.duty = call.duty /\ call'.polarity = call.polarity
  /\ next # "idle" => call'.enabled = call.enabled
  /\ next = "idle" /\ call.fn # "start" => call'.fn = "none"
  /\ stale' = IF next = "idle" /\ call.fn = "start" THEN stale \ {o} ELSE stale

Channel(o, file, v) == kernel'[o] = Updated(o, file, v)

LEMMA WroteBook ==
  ASSUME PwmInv, call.pc \in Working, NEW file \in Files, NEW v, NEW next \in Working \cup {"idle"},
         Fits(file, v),
         Wrote(file, v, next), cache' \in [Keys -> NodeType]
  PROVE  /\ Accounts' /\ Own \in Keys
         /\ After(Own, file, v, next) /\ Channel(Own, file, v)
<1>0. Typing /\ call \in CallType /\ Own \in Keys /\ call.pc # "list"
  BY Typed, SMT DEF PwmInv, Accounts, Own, CallType, Working, Changing, Finishing
<1>1. kernel' = Written(Own, file, v)
  BY DEF Wrote
<1>2. /\ kernel' \in [Keys -> ChannelType] /\ \A k \in Keys \ {Own} : kernel'[k] = kernel[k]
      /\ kernel'[Own] = Updated(Own, file, v)
  <2>1. Typing /\ Own \in Keys /\ file \in Files /\ Fits(file, v)
    BY <1>0, Zenon
  <2>2. Written(Own, file, v) \in [Keys -> ChannelType]
    BY <2>1, WrittenChannel, Zenon
  <2>3. \A j \in Keys \ {Own} : Written(Own, file, v)[j] = kernel[j]
    BY <2>1, WrittenChannel, Zenon
  <2>4. Written(Own, file, v)[Own] = Updated(Own, file, v)
    BY <2>1, WrittenChannel, Zenon
  <2>5. QED
    BY <1>1, <2>2, <2>3, <2>4, Zenon
<1>3. \A k \in Keys : lookup_exported_pwm(k)' = lookup_exported_pwm(k)
  BY Zenon DEF Wrote, lookup_exported_pwm
<1>4. /\ call' \in CallType /\ call'.pc = next
      /\ next # "idle" \/ call.fn = "start" =>
              /\ call'.fn = call.fn /\ call'.key = call.key /\ call'.period = call.period
              /\ call'.duty = call.duty /\ call'.polarity = call.polarity
      /\ next # "idle" => call'.enabled = call.enabled
      /\ next = "idle" /\ call.fn # "start" => call'.fn = "none"
      /\ stale' = IF next = "idle" /\ call.fn = "start" THEN stale \ {Own} ELSE stale
  <2>1. CASE next # "idle"
    <3>1. next \in Steps
      BY SMT DEF Working, Changing, Finishing, Steps, Writes
    <3>2. Goto(next) /\ stale' = stale
      BY <2>1, Zenon DEF Wrote
    <3>3. QED
      BY <1>0, <2>1, <3>1, <3>2, GotoCall, Zenon
  <2>2. CASE next = "idle" /\ call.fn = "start"
    <3>1. call' = [call EXCEPT !.pc = "idle", !.enabled = FALSE] /\ stale' = stale \ {Own}
      BY <2>2, Zenon DEF Wrote, Succeed
    <3>2. "idle" \in Steps
      BY Zenon DEF Steps
    <3>3. PICK c : c = [call EXCEPT !.pc = "idle"]
      OBVIOUS
    <3>4. /\ c \in CallType /\ c.pc = "idle" /\ c.fn = call.fn /\ c.key = call.key
          /\ c.period = call.period /\ c.duty = call.duty /\ c.polarity = call.polarity
      BY <1>0, <3>2, <3>3, SMT DEF CallType
    <3>5. PICK no \in BOOLEAN : call' = [c EXCEPT !.enabled = no]
      BY <3>1, <3>3, Zenon
    <3>6. QED
      BY <2>2, <3>1, <3>4, <3>5, SMT DEF CallType
  <2>3. CASE next = "idle" /\ call.fn # "start"
    <3>1. call' = NoCall /\ stale' = stale
      BY <2>3, Zenon DEF Wrote, Succeed
    <3>2. QED
      BY <2>3, <3>1, NoCallFields, Zenon
  <2>4. QED
    BY <2>1, <2>2, <2>3, Zenon
<1>5. Typing'
  <2>1. stale' \subseteq Keys
    BY <1>0, <1>4, Zenon DEF Typing
  <2>2. QED
    BY <1>0, <1>2, <1>4, <2>1, Typed, TypedNext, Zenon DEF Wrote
<1>6. DescriptorsOfList'
  <2>1. call'.pc # "list"
    BY <1>4, SMT DEF Working, Changing, Finishing
  <2>2. QED
    BY <1>0, <1>3, <2>1, Zenon DEF PwmInv, Accounts, DescriptorsOfList, Wrote, At
<1>7. EnabledListed'
  <2>1. lookup_exported_pwm(Own)
    BY Zenon DEF PwmInv, Listed
  <2>2. QED
    BY <1>2, <1>3, <2>1, Zenon DEF PwmInv, Accounts, EnabledListed, Wrote
<1>8. After(Own, file, v, next)
  BY <1>2, <1>3, <1>4, SMT DEF After, Updated
<1>9. Channel(Own, file, v)
  BY <1>2, Zenon DEF Channel
<1>10. QED
  BY <1>0, <1>5, <1>6, <1>7, <1>8, <1>9, Zenon DEF Accounts

\* a call disturbs the agreement of its own channel only
LEMMA AgreeKept ==
  ASSUME AgreeInv, NEW o \in Keys, o = Own,
         \A k \in Keys \ {o} : kernel'[k] = kernel[k] /\ cache'[k] = cache[k],
         stale \ {o} \subseteq stale',
         o \in stale' \/ Agreed(o)' \/ ~Untouched(o)'
  PROVE  AgreeInv'
<1> SUFFICES ASSUME NEW k \in Keys \ stale', Untouched(k)' PROVE Agreed(k)'
  BY Zenon DEF AgreeInv
<1>1. CASE k # o
  <2>1. k \in Keys \ stale /\ Untouched(k)
    BY <1>1, Zenon DEF Untouched
  <2>2. Agreed(k)
    BY <2>1, Zenon DEF AgreeInv
  <2>3. QED
    BY <1>1, <2>2, Zenon DEF Agreed
<1>2. QED
  BY <1>1, Zenon

(* The writes one by one.                                                   *)
LEMMA WriteDutyDownStep == PwmInv /\ WriteDutyDown => PwmInv'
<1> SUFFICES ASSUME PwmInv, WriteDutyDown PROVE PwmInv'
  OBVIOUS
<1> DEFINE v == Mine.duty_ns
           next == "periodDown"
<1>1. /\ call \in CallType /\ cache \in [Keys -> NodeType] /\ Own \in Keys
      /\ kernel \in [Keys -> ChannelType]
  BY Typed, SMT DEF PwmInv, Accounts, Own, CallType
<1>2. call.pc = "dutyDown" /\ call.pc \in Working /\ Write("duty", v, next) /\ cache' = cache
  BY Zenon DEF WriteDutyDown, At, Working, Changing, Finishing
<1>3. "duty" \in Files /\ Fits("duty", v) /\ next \in Working \cup {"idle"}
  BY <1>1, <1>2, DutyNsNat, SMT DEF Files, Fits, NodeType, CallType, Mine, Own, Working,
     Changing, Finishing
<1> HIDE DEF v, next
<1>4. CASE Failed
  BY <1>4, FailedStep
<1>5. CASE Wrote("duty", v, next)
  <2>1. PICK o \in Keys : o = Own
    BY <1>1, Zenon
  <2>2. Accounts' /\ After(o, "duty", v, next) /\ Channel(o, "duty", v)
    BY <1>1, <1>2, <1>3, <1>5, <2>1, WroteBook, Zenon
  <2>3. FnInv' /\ Listed'
    BY <1>2, <2>1, <2>2, SMT DEF PwmInv, FnInv, Listed, After, next, At, Setup, Working, Changing,
       Finishing, Own
  <2>4. KernelInv'
    BY <1>1, <1>2, <1>5, <2>1, <2>2, SMT DEF PwmInv, KernelInv, After, Wrote, Accepts
  <2>5. PhaseInv'
    BY <1>1, <1>2, <2>1, <2>2, SMT DEF PwmInv, FnInv, PhaseInv, ChangingInv, FinishingInv, After,
       next,
       v, At, Changing, Finishing, Own, Mine, Trusted
  <2>6. StartRepairs'
    BY <2>2, SMT DEF StartRepairs, At, After, next
  <2>7. AgreeInv'
    BY <1>2, <2>1, <2>2, AgreeKept, SMT DEF PwmInv, Untouched, After, next, At, Own
  <2>8. QED
    BY <2>2, <2>3, <2>4, <2>5, <2>6, <2>7 DEF PwmInv
<1>6. QED
  BY <1>1, <1>2, <1>4, <1>5, WriteMoves, Zenon

LEMMA WritePeriodDownStep == PwmInv /\ WritePeriodDown => PwmInv'
<1> SUFFICES ASSUME PwmInv, WritePeriodDown PROVE PwmInv'
  OBVIOUS
<1> DEFINE v == call.period
           next == AfterFrequency
<1>1. /\ call \in CallType /\ cache \in [Keys -> NodeType] /\ Own \in Keys
      /\ kernel \in [Keys -> ChannelType]
  BY Typed, SMT DEF PwmInv, Accounts, Own, CallType
<1>2. call.pc = "periodDown" /\ call.pc \in Working /\ Write("period", v, next) /\ cache' = cache
  BY Zenon DEF WritePeriodDown, At, Working, Changing, Finishing
<1>3. "period" \in Files /\ Fits("period", v) /\ next \in Working \cup {"idle"}
  BY <1>1, <1>2, DutyNsNat, SMT DEF Files, Fits, NodeType, CallType, Mine, Own, Working,
     Changing, Finishing, AfterFrequency
<1> HIDE DEF v, next
<1>4. CASE Failed
  BY <1>4, FailedStep
<1>5. CASE Wrote("period", v, next)
  <2>1. PICK o \in Keys : o = Own
    BY <1>1, Zenon
  <2>2. Accounts' /\ After(o, "period", v, next) /\ Channel(o, "period", v)
    BY <1>1, <1>2, <1>3, <1>5, <2>1, WroteBook, Zenon
  <2>9. call.period > 0
    BY <1>5, SMT DEF Wrote, Accepts, v
  <2>3. FnInv' /\ Listed'
    BY <1>2, <2>1, <2>2, SMT DEF PwmInv, FnInv, Listed, After, next, At, Setup, Working, Changing,
       Finishing, Own, AfterFrequency
  <2>4. KernelInv'
    BY <1>1, <1>2, <1>5, <2>1, <2>2, SMT DEF PwmInv, KernelInv, After, Wrote, Accepts
  <2>5. PhaseInv'
    BY <1>1, <1>2, <2>1, <2>2, SMT DEF PwmInv, FnInv, PhaseInv, ChangingInv, FinishingInv, After,
       next,
       v, At, Changing, Finishing, Own, Mine, Trusted, AfterFrequency
  <2>6. StartRepairs'
    BY <1>2, <2>2, SMT DEF PwmInv, FnInv, StartRepairs, At, After, next, AfterFrequency, Changing
  <2>7. AgreeInv'
    BY <1>2, <2>1, <2>2, <2>9, AgreeKept, SMT DEF PwmInv, Untouched, After, next, At, Own,
       AfterFrequency, FnInv, PhaseInv, ChangingInv, Changing, Trusted, Agreed, Mine, v
  <2>8. QED
    BY <2>2, <2>3, <2>4, <2>5, <2>6, <2>7 DEF PwmInv
<1>6. QED
  BY <1>1, <1>2, <1>4, <1>5, WriteMoves, Zenon

LEMMA WriteDutyUpStep == PwmInv /\ WriteDutyUp => PwmInv'
<1> SUFFICES ASSUME PwmInv, WriteDutyUp PROVE PwmInv'
  OBVIOUS
<1> DEFINE v == Mine.duty_ns
           next == AfterFrequency
<1>1. /\ call \in CallType /\ cache \in [Keys -> NodeType] /\ Own \in Keys
      /\ kernel \in [Keys -> ChannelType]
  BY Typed, SMT DEF PwmInv, Accounts, Own, CallType
<1>2. call.pc = "dutyUp" /\ call.pc \in Working /\ Write("duty", v, next) /\ cache' = cache
  BY Zenon DEF WriteDutyUp, At, Working, Changing, Finishing
<1>3. "duty" \in Files /\ Fits("duty", v) /\ next \in Working \cup {"idle"}
  BY <1>1, <1>2, DutyNsNat, SMT DEF Files, Fits, NodeType, CallType, Mine, Own, Working,
     Changing, Finishing, AfterFrequency
<1> HIDE DEF v, next
<1>4. CASE Failed
  BY <1>4, FailedStep
<1>5. CASE Wrote("duty", v, next)
  <2>1. PICK o \in Keys : o = Own
    BY <1>1, Zenon
  <2>2. Accounts' /\ After(o, "duty", v, next) /\ Channel(o, "duty", v)
    BY <1>1, <1>2, <1>3, <1>5, <2>1, WroteBook, Zenon
  <2>3. FnInv' /\ Listed'
    BY <1>2, <2>1, <2>2, SMT DEF PwmInv, FnInv, Listed, After, next, At, Setup, Working, Changing,
       Finishing, Own, AfterFrequency
  <2>4. KernelInv'
    BY <1>1, <1>2, <1>5, <2>1, <2>2, SMT DEF PwmInv, KernelInv, After, Wrote, Accepts
  <2>5. PhaseInv'
    BY <1>1, <1>2, <2>1, <2>2, SMT DEF PwmInv, FnInv, PhaseInv, ChangingInv, FinishingInv, After,
       next,
       v, At, Changing, Finishing, Own, Mine, Trusted, AfterFrequency
  <2>6. StartRepairs'
    BY <1>2, <2>2, SMT DEF PwmInv, FnInv, StartRepairs, At, After, next, AfterFrequency, Changing
  <2>7. AgreeInv'
    BY <1>2, <2>1, <2>2, AgreeKept, SMT DEF PwmInv, Untouched, After, next, At, Own,
       AfterFrequency, FnInv, PhaseInv, ChangingInv, Changing, Trusted, Agreed, Mine, v
  <2>8. QED
    BY <2>2, <2>3, <2>4, <2>5, <2>6, <2>7 DEF PwmInv
<1>6. QED
  BY <1>1, <1>2, <1>4, <1>5, WriteMoves, Zenon

LEMMA DisableFirstStep == PwmInv /\ DisableFirst => PwmInv'
<1> SUFFICES ASSUME PwmInv, DisableFirst PROVE PwmInv'
  OBVIOUS
<1> DEFINE v == FALSE
           next == "polarity"
<1>1. /\ call \in CallType /\ cache \in [Keys -> NodeType] /\ Own \in Keys
      /\ kernel \in [Keys -> ChannelType]
  BY Typed, SMT DEF PwmInv, Accounts, Own, CallType
<1>2. call.pc = "disableFirst" /\ call.pc \in Working /\ Write("enable", v, next) /\ cache' = cache
  BY Zenon DEF DisableFirst, At, Working, Changing, Finishing
<1>3. "enable" \in Files /\ Fits("enable", v) /\ next \in Working \cup {"idle"}
  BY <1>1, <1>2, DutyNsNat, SMT DEF Files, Fits, NodeType, CallType, Mine, Own, Working,
     Changing, Finishing
<1> HIDE DEF v, next
<1>4. CASE Failed
  BY <1>4, FailedStep
<1>5. CASE Wrote("enable", v, next)
  <2>1. PICK o \in Keys : o = Own
    BY <1>1, Zenon
  <2>2. Accounts' /\ After(o, "enable", v, next) /\ Channel(o, "enable", v)
    BY <1>1, <1>2, <1>3, <1>5, <2>1, WroteBook, Zenon
  <2>9. kernel'[o].enabled = FALSE
    BY <2>2, Zenon DEF After, v
  <2>10. FinishingInv /\ call'.pc = "polarity" /\ call'.key = o /\ call'.period = call.period
         /\ call'.duty = call.duty /\ kernel'[o].period = kernel[o].period
         /\ kernel'[o].duty = kernel[o].duty
    BY <1>2, <2>1, <2>2, SMT DEF PwmInv, PhaseInv, Finishing, After, next, Own
  <2>3. FnInv' /\ Listed'
    BY <1>2, <2>1, <2>2, SMT DEF PwmInv, FnInv, Listed, After, next, At, Setup, Working, Changing,
       Finishing, Own
  <2>4. KernelInv'
    BY <1>1, <1>2, <1>5, <2>1, <2>2, SMT DEF PwmInv, KernelInv, After, Wrote, Accepts
  <2>5. PhaseInv'
    <3>1. FinishingInv'
      <4>1. call'.period > 0 /\ kernel'[o].period = call'.period
            /\ kernel'[o].duty = DutyNs(call'.period, call'.duty)
        BY <2>1, <2>10, SMT DEF FinishingInv, Own
      <4>2. cache'[o] = [period |-> call'.period, duty_ns |-> kernel'[o].duty,
                         duty |-> call'.duty]
        BY <1>2, <2>1, <2>10, Zenon DEF FinishingInv, Mine, Own
      <4>3. ~At("reenable")' /\ ~At("enable")'
        BY <2>10, SMT DEF At
      <4>4. QED
        BY <2>9, <2>10, <4>1, <4>2, <4>3, Zenon DEF FinishingInv, Mine, Own
    <3>2. QED
      BY <2>10, <3>1, SMT DEF PhaseInv, At, Changing
  <2>6. StartRepairs'
    BY <2>2, SMT DEF StartRepairs, At, After, next
  <2>7. AgreeInv'
    BY <1>2, <2>1, <2>2, AgreeKept, SMT DEF PwmInv, Untouched, After, next, At, Own
  <2>8. QED
    BY <2>2, <2>3, <2>4, <2>5, <2>6, <2>7 DEF PwmInv
<1>6. QED
  BY <1>1, <1>2, <1>4, <1>5, WriteMoves, Zenon

LEMMA WritePolarityStep == PwmInv /\ WritePolarity => PwmInv'
<1> SUFFICES ASSUME PwmInv, WritePolarity PROVE PwmInv'
  OBVIOUS
<1> DEFINE v == call.polarity
           next == IF call.enabled THEN "reenable" ELSE "enable"
<1>1. /\ call \in CallType /\ cache \in [Keys -> NodeType] /\ Own \in Keys
      /\ kernel \in [Keys -> ChannelType]
  BY Typed, SMT DEF PwmInv, Accounts, Own, CallType
<1>2. call.pc = "polarity" /\ call.pc \in Working /\ Write("polarity", v, next) /\ cache' = cache
  BY Zenon DEF WritePolarity, At, Working, Changing, Finishing
<1>3. "polarity" \in Files /\ Fits("polarity", v) /\ next \in Working \cup {"idle"}
  BY <1>1, <1>2, DutyNsNat, SMT DEF Files, Fits, NodeType, CallType, Mine, Own, Working,
     Changing, Finishing
<1> HIDE DEF v, next
<1>4. CASE Failed
  BY <1>4, FailedStep
<1>5. CASE Wrote("polarity", v, next)
  <2>1. PICK o \in Keys : o = Own
    BY <1>1, Zenon
  <2>2. Accounts' /\ After(o, "polarity", v, next) /\ Channel(o, "polarity", v)
    BY <1>1, <1>2, <1>3, <1>5, <2>1, WroteBook, Zenon
  <2>3. FnInv' /\ Listed'
    BY <1>2, <2>1, <2>2, SMT DEF PwmInv, FnInv, Listed, After, next, At, Setup, Working, Changing,
       Finishing, Own
  <2>4. KernelInv'
    BY <1>1, <1>2, <1>5, <2>1, <2>2, SMT DEF PwmInv, KernelInv, After, Wrote, Accepts
  <2>5. PhaseInv'
    BY <1>1, <1>2, <2>1, <2>2, SMT DEF PwmInv, FnInv, PhaseInv, ChangingInv, FinishingInv, After,
       next,
       v, At, Changing, Finishing, Own, Mine, Trusted
  <2>6. StartRepairs'
    BY <2>2, SMT DEF StartRepairs, At, After, next
  <2>7. AgreeInv'
    BY <1>2, <2>1, <2>2, AgreeKept, SMT DEF PwmInv, Untouched, After, next, At, Own
  <2>8. QED
    BY <2>2, <2>3, <2>4, <2>5, <2>6, <2>7 DEF PwmInv
<1>6. QED
  BY <1>1, <1>2, <1>4, <1>5, WriteMoves, Zenon

LEMMA ReenableStep == PwmInv /\ Reenable => PwmInv'
<1> SUFFICES ASSUME PwmInv, Reenable PROVE PwmInv'
  OBVIOUS
<1> DEFINE v == TRUE
           next == "enable"
<1>1. /\ call \in CallType /\ cache \in [Keys -> NodeType] /\ Own \in Keys
      /\ kernel \in [Keys -> ChannelType]
  BY Typed, SMT DEF PwmInv, Accounts, Own, CallType
<1>2. call.pc = "reenable" /\ call.pc \in Working /\ Write("enable", v, next) /\ cache' = cache
  BY Zenon DEF Reenable, At, Working, Changing, Finishing
<1>3. "enable" \in Files /\ Fits("enable", v) /\ next \in Working \cup {"idle"}
  BY <1>1, <1>2, DutyNsNat, SMT DEF Files, Fits, NodeType, CallType, Mine, Own, Working,
     Changing, Finishing
<1> HIDE DEF v, next
<1>4. CASE Failed
  BY <1>4, FailedStep
<1>5. CASE Wrote("enable", v, next)
  <2>1. PICK o \in Keys : o = Own
    BY <1>1, Zenon
  <2>2. Accounts' /\ After(o, "enable", v, next) /\ Channel(o, "enable", v)
    BY <1>1, <1>2, <1>3, <1>5, <2>1, WroteBook, Zenon
  <2>3. FnInv' /\ Listed'
    BY <1>2, <2>1, <2>2, SMT DEF PwmInv, FnInv, Listed, After, next, At, Setup, Working, Changing,
       Finishing, Own
  <2>4. KernelInv'
    BY <1>1, <1>2, <1>5, <2>1, <2>2, SMT DEF PwmInv, KernelInv, After, Wrote, Accepts
  <2>5. PhaseInv'
    BY <1>1, <1>2, <2>1, <2>2, SMT DEF PwmInv, FnInv, PhaseInv, ChangingInv, FinishingInv, After,
       next,
       v, At, Changing, Finishing, Own, Mine, Trusted
  <2>6. StartRepairs'
    BY <2>2, SMT DEF StartRepairs, At, After, next
  <2>7. AgreeInv'
    BY <1>2, <2>1, <2>2, AgreeKept, SMT DEF PwmInv, Untouched, After, next, At, Own
  <2>8. QED
    BY <2>2, <2>3, <2>4, <2>5, <2>6, <2>7 DEF PwmInv
<1>6. QED
  BY <1>1, <1>2, <1>4, <1>5, WriteMoves, Zenon

LEMMA WriteEnableStep == PwmInv /\ WriteEnable => PwmInv'
<1> SUFFICES ASSUME PwmInv, WriteEnable PROVE PwmInv'
  OBVIOUS
<1> DEFINE v == TRUE
           next == "idle"
<1>1. /\ call \in CallType /\ cache \in [Keys -> NodeType] /\ Own \in Keys
      /\ kernel \in [Keys -> ChannelType]
  BY Typed, SMT DEF PwmInv, Accounts, Own, CallType
<1>2. call.pc = "enable" /\ call.pc \in Working /\ Write("enable", v, next) /\ cache' = cache
  BY Zenon DEF WriteEnable, At, Working, Changing, Finishing
<1>3. "enable" \in Files /\ Fits("enable", v) /\ next \in Working \cup {"idle"}
  BY <1>1, <1>2, DutyNsNat, SMT DEF Files, Fits, NodeType, CallType, Mine, Own, Working,
     Changing, Finishing
<1> HIDE DEF v, next
<1>4. CASE Failed
  BY <1>4, FailedStep
<1>5. CASE Wrote("enable", v, next)
  <2>1. PICK o \in Keys : o = Own
    BY <1>1, Zenon
  <2>2. Accounts' /\ After(o, "enable", v, next) /\ Channel(o, "enable", v)
    BY <1>1, <1>2, <1>3, <1>5, <2>1, WroteBook, Zenon
  <2>9. kernel'[o].enabled = TRUE
    BY <2>1, <2>2, Zenon DEF After, v
  <2>10. /\ call.fn = "start" /\ call' \in CallType
         /\ call'.fn = "start" /\ call'.key = o /\ call'.period = call.period
         /\ call'.duty = call.duty /\ call'.polarity = call.polarity
    BY <1>2, <2>1, <2>2, TypedCall, SMT DEF PwmInv, FnInv, Finishing, After, next, Own
  <2>11. /\ kernel'[o].period = call.period /\ kernel'[o].duty = DutyNs(call.period, call.duty)
         /\ kernel'[o].polarity = call.polarity /\ call.period > 0
         /\ cache[o] = [period |-> call.period, duty_ns |-> kernel'[o].duty, duty |-> call.duty]
    BY <1>1, <1>2, <2>1, <2>2, SMT DEF PwmInv, PhaseInv, FinishingInv, Finishing, At, After, Own,
       Mine
  <2>12. /\ kernel[o].period = call.period /\ kernel[o].duty = DutyNs(call.period, call.duty)
         /\ kernel[o].polarity = call.polarity /\ kernel'[o].duty = kernel[o].duty /\ cache' = cache
    BY <1>1, <1>2, <2>1, <2>2, SMT DEF PwmInv, PhaseInv, FinishingInv, Finishing, At, After, Own
  <2>3. FnInv' /\ Listed'
    BY <1>2, <2>1, <2>2, SMT DEF PwmInv, FnInv, Listed, After, next, At, Setup, Working, Changing,
       Finishing, Own
  <2>4. KernelInv'
    BY <1>1, <1>2, <1>5, <2>1, <2>2, SMT DEF PwmInv, KernelInv, After, Wrote, Accepts
  <2>5. PhaseInv'
    BY <1>1, <1>2, <2>1, <2>2, SMT DEF PwmInv, FnInv, PhaseInv, ChangingInv, FinishingInv, After,
       next,
       v, At, Changing, Finishing, Own, Mine, Trusted
  <2>6. StartRepairs'
    <3>1. kernel'[o] = [period |-> kernel[o].period, duty |-> kernel[o].duty,
                         polarity |-> kernel[o].polarity, enabled |-> TRUE]
      <4>1. kernel'[o] = Updated(o, "enable", v)
        BY <2>2, Zenon DEF Channel
      <4>2. "enable" # "period" /\ "enable" # "duty" /\ "enable" # "polarity"
        OBVIOUS
      <4>3. QED
        BY <4>1, <4>2, Zenon DEF Updated, v
    <3>2. QED
      BY <1>2, <2>10, <2>11, <2>12, <3>1, Zenon DEF StartRepairs, Own, Mine
  <2>7. AgreeInv'
    BY <1>1, <1>2, <2>1, <2>2, <2>10, <2>11, AgreeKept, SMT DEF PwmInv, Untouched, After, next,
       At, Own, Agreed, CallType
  <2>8. QED
    BY <2>2, <2>3, <2>4, <2>5, <2>6, <2>7 DEF PwmInv
<1>6. QED
  BY <1>1, <1>2, <1>4, <1>5, WriteMoves, Zenon

LEMMA WriteDisableStep == PwmInv /\ WriteDisable => PwmInv'
<1> SUFFICES ASSUME PwmInv, WriteDisable PROVE PwmInv'
  OBVIOUS
<1> DEFINE v == FALSE
           next == "close"
<1>1. /\ call \in CallType /\ cache \in [Keys -> NodeType] /\ Own \in Keys
      /\ kernel \in [Keys -> ChannelType]
  BY Typed, SMT DEF PwmInv, Accounts, Own, CallType
<1>2. call.pc = "disable" /\ call.pc \in Working /\ Write("enable", v, next) /\ cache' = cache
  BY Zenon DEF WriteDisable, At, Working, Changing, Finishing
<1>3. "enable" \in Files /\ Fits("enable", v) /\ next \in Working \cup {"idle"}
  BY <1>1, <1>2, DutyNsNat, SMT DEF Files, Fits, NodeType, CallType, Mine, Own, Working,
     Changing, Finishing
<1> HIDE DEF v, next
<1>4. CASE Failed
  BY <1>4, FailedStep
<1>5. CASE Wrote("enable", v, next)
  <2>1. PICK o \in Keys : o = Own
    BY <1>1, Zenon
  <2>2. Accounts' /\ After(o, "enable", v, next) /\ Channel(o, "enable", v)
    BY <1>1, <1>2, <1>3, <1>5, <2>1, WroteBook, Zenon
  <2>9. kernel'[o].enabled = FALSE
    BY <2>2, Zenon DEF After, v
  <2>3. FnInv' /\ Listed'
    BY <1>2, <2>1, <2>2, <2>9, SMT DEF PwmInv, FnInv, Listed, After, next, At, Setup, Working,
       Changing,
       Finishing, Own
  <2>4. KernelInv'
    BY <1>1, <1>2, <1>5, <2>1, <2>2, SMT DEF PwmInv, KernelInv, After, Wrote, Accepts
  <2>5. PhaseInv'
    BY <1>1, <1>2, <2>1, <2>2, SMT DEF PwmInv, FnInv, PhaseInv, ChangingInv, FinishingInv, After,
       next,
       v, At, Changing, Finishing, Own, Mine, Trusted
  <2>6. StartRepairs'
    BY <2>2, SMT DEF StartRepairs, At, After, next
  <2>7. AgreeInv'
    BY <1>2, <2>1, <2>2, AgreeKept, SMT DEF PwmInv, Untouched, After, next, At, Own, Agreed, v,
       AgreeInv
  <2>8. QED
    BY <2>2, <2>3, <2>4, <2>5, <2>6, <2>7 DEF PwmInv
<1>6. QED
  BY <1>1, <1>2, <1>4, <1>5, WriteMoves, Zenon

LEMMA WritePeriodUpStep == PwmInv /\ WritePeriodUp => PwmInv'
<1> SUFFICES ASSUME PwmInv, WritePeriodUp PROVE PwmInv'
  OBVIOUS
<1> DEFINE v == call.period
           next == "dutyUp"
<1>1. /\ call \in CallType /\ cache \in [Keys -> NodeType] /\ Own \in Keys
      /\ kernel \in [Keys -> ChannelType]
  BY Typed, SMT DEF PwmInv, Accounts, Own, CallType
<1>2. /\ call.pc = "periodUp" /\ call.pc \in Working /\ Write("period", v, next)
      /\ cache' \in [Keys -> NodeType] /\ \A k \in Keys \ {Own} : cache'[k] = cache[k]
      /\ call'.pc = next =>
           /\ cache'[Own].period = Mine.period /\ cache'[Own].duty = Mine.duty
           /\ cache'[Own].duty_ns = DutyNs(call.period, Mine.duty)
  <2>1. call.pc = "periodUp" /\ call.pc \in Working /\ Write("period", v, next)
    BY Zenon DEF WritePeriodUp, At, Working, Changing, Finishing
  <2>2. DutyNs(call.period, Mine.duty) \in Nat
    <3>1. call.period \in Nat /\ Mine.duty \in Nat
      BY <1>1, SMT DEF CallType, NodeType, Mine, Own
    <3>2. QED
      BY <3>1, DutyNsNat, Zenon
  <2>3. PICK d \in Nat : d = DutyNs(call.period, Mine.duty)
    BY <2>2
  <2>4. cache' = IF call'.pc = "dutyUp" THEN [cache EXCEPT ![Own].duty_ns = d] ELSE cache
    BY <2>3, Zenon DEF WritePeriodUp
  <2>5. /\ [cache EXCEPT ![Own].duty_ns = d] \in [Keys -> NodeType]
        /\ \A k \in Keys \ {Own} : [cache EXCEPT ![Own].duty_ns = d][k] = cache[k]
        /\ [cache EXCEPT ![Own].duty_ns = d][Own].period = cache[Own].period
        /\ [cache EXCEPT ![Own].duty_ns = d][Own].duty = cache[Own].duty
        /\ [cache EXCEPT ![Own].duty_ns = d][Own].duty_ns = d
    BY <1>1, <2>3, SMT DEF NodeType
  <2>6. QED
    BY <1>1, <2>1, <2>3, <2>4, <2>5, Zenon DEF Mine, Own
<1>3. "period" \in Files /\ Fits("period", v) /\ next \in Working \cup {"idle"}
  BY <1>1, <1>2, DutyNsNat, SMT DEF Files, Fits, NodeType, CallType, Mine, Own, Working,
     Changing, Finishing
<1> HIDE DEF v, next
<1>4. CASE Failed
  BY <1>4, FailedStep
<1>5. CASE Wrote("period", v, next)
  <2>1. PICK o \in Keys : o = Own
    BY <1>1, Zenon
  <2>2. Accounts' /\ After(o, "period", v, next) /\ Channel(o, "period", v)
    BY <1>1, <1>2, <1>3, <1>5, <2>1, WroteBook, Zenon
  <2>9. /\ cache'[o].period = cache[o].period /\ cache'[o].duty = cache[o].duty
        /\ cache'[o].duty_ns = DutyNs(call.period, cache[o].duty)
    BY <1>2, <2>1, <2>2, Zenon DEF After, Mine, Own
  <2>3. FnInv' /\ Listed'
    BY <1>2, <2>1, <2>2, SMT DEF PwmInv, FnInv, Listed, After, next, At, Setup, Working, Changing,
       Finishing, Own
  <2>4. KernelInv'
    BY <1>1, <1>2, <1>5, <2>1, <2>2, SMT DEF PwmInv, KernelInv, After, Wrote, Accepts
  <2>5. PhaseInv'
    <3>1. /\ call'.pc = "dutyUp" /\ call'.fn = call.fn /\ call'.key = o /\ stale' = stale
          /\ call'.period = call.period /\ call'.duty = call.duty
          /\ kernel'[o].period = call.period
      BY <2>1, <2>2, SMT DEF After, next, v, Own
    <3>2. ASSUME Trusted' PROVE ChangingInv'
      <4>1. ChangingInv
        BY <1>2, <2>1, <3>1, <3>2, SMT DEF Trusted, PwmInv, PhaseInv, Changing, Own
      <4>2. /\ cache[o].period = call.period /\ cache[o].duty <= 100
            /\ call.period > kernel[o].period
            /\ call.fn = "start" => cache[o].duty = call.duty
        BY <1>2, <2>1, <4>1, SMT DEF ChangingInv, Mine, Own, At
      <4>3. call'.period > 0
        BY <1>1, <2>1, <3>1, <4>2, SMT DEF CallType, ChannelType
      <4>4. cache'[o].duty_ns = DutyNs(call'.period, cache'[o].duty)
        BY <2>9, <3>1, Zenon
      <4>5. QED
        BY <2>9, <3>1, <4>2, <4>3, <4>4, SMT DEF ChangingInv, Mine, Own, At
    <3>3. QED
      BY <3>1, <3>2, SMT DEF PhaseInv, At, Finishing
  <2>6. StartRepairs'
    BY <2>2, SMT DEF StartRepairs, At, After, next
  <2>7. AgreeInv'
    BY <1>2, <1>1, <2>1, <2>2, AgreeKept, SMT DEF PwmInv, Untouched, After, next, At, Own
  <2>8. QED
    BY <2>2, <2>3, <2>4, <2>5, <2>6, <2>7 DEF PwmInv
<1>6. QED
  BY <1>1, <1>2, <1>4, <1>5, WriteMoves, Zenon

LEMMA WriteDutyStep == PwmInv /\ WriteDuty => PwmInv'
<1> SUFFICES ASSUME PwmInv, WriteDuty PROVE PwmInv'
  OBVIOUS
<1> DEFINE v == DutyNs(Mine.period, call.duty)
           next == IF call.fn = "start" THEN "readEnable" ELSE "idle"
<1>1. /\ call \in CallType /\ cache \in [Keys -> NodeType] /\ Own \in Keys
      /\ kernel \in [Keys -> ChannelType]
  BY Typed, SMT DEF PwmInv, Accounts, Own, CallType
<1>2. /\ call.pc = "duty" /\ call.pc \in Working /\ Write("duty", v, next)
      /\ cache' \in [Keys -> NodeType] /\ \A k \in Keys \ {Own} : cache'[k] = cache[k]
      /\ cache'[Own] = [period |-> Mine.period, duty |-> call.duty, duty_ns |-> v]
      /\ v \in Nat
  <2>1. call.pc = "duty" /\ call.pc \in Working /\ Write("duty", v, next)
    BY Zenon DEF WriteDuty, At, Working
  <2>2. v \in Nat
    <3>1. Mine.period \in Nat /\ call.duty \in Nat
      BY <1>1, SMT DEF CallType, NodeType, Mine, Own
    <3>2. QED
      BY <3>1, DutyNsNat, Zenon
  <2>3. PICK d \in Nat : d = v
    BY <2>2
  <2>4. cache' = [cache EXCEPT ![Own] = [period |-> Mine.period, duty |-> call.duty, duty_ns |-> d]]
    BY <2>3, Zenon DEF WriteDuty
  <2>5. QED
    BY <1>1, <2>1, <2>3, <2>4, SMT DEF NodeType, CallType, Mine
<1>3. "duty" \in Files /\ Fits("duty", v) /\ next \in Working \cup {"idle"}
  BY <1>1, <1>2, DutyNsNat, SMT DEF Files, Fits, NodeType, CallType, Mine, Own, Working,
     Changing, Finishing
<1> HIDE DEF v, next
<1>4. CASE Failed
  BY <1>4, FailedStep
<1>5. CASE Wrote("duty", v, next)
  <2>1. PICK o \in Keys : o = Own
    BY <1>1, Zenon
  <2>2. Accounts' /\ After(o, "duty", v, next) /\ Channel(o, "duty", v)
    BY <1>1, <1>2, <1>3, <1>5, <2>1, WroteBook, Zenon
  <2>9. /\ v = DutyNs(cache[o].period, call.duty) /\ kernel[o].period > 0
        /\ cache'[o].period = cache[o].period /\ cache'[o].duty = call.duty /\ cache'[o].duty_ns = v
        /\ call.fn \in {"start", "set_duty_cycle"}
    BY <1>1, <1>2, <1>5, <2>1, SMT DEF Mine, Own, v, Wrote, Accepts, PwmInv, FnInv, At
  <2>3. FnInv' /\ Listed'
    BY <1>2, <2>1, <2>2, SMT DEF PwmInv, FnInv, Listed, After, next, At, Setup, Working, Changing,
       Finishing, Own
  <2>4. KernelInv'
    BY <1>1, <1>2, <1>5, <2>1, <2>2, SMT DEF PwmInv, KernelInv, After, Wrote, Accepts
  <2>5. PhaseInv'
    BY <1>1, <2>9, <1>2, <2>1, <2>2, SMT DEF PwmInv, FnInv, PhaseInv, ChangingInv, FinishingInv,
       After, next,
       v, At, Changing, Finishing, Own, Mine, Trusted
  <2>6. StartRepairs'
    BY <2>2, SMT DEF StartRepairs, At, After, next
  <2>7. AgreeInv'
    BY <1>2, <1>1, <2>9, <2>1, <2>2, AgreeKept, SMT DEF PwmInv, Untouched, After, next, At, Own,
       AgreeInv, Agreed, CallType
  <2>8. QED
    BY <2>2, <2>3, <2>4, <2>5, <2>6, <2>7 DEF PwmInv
<1>6. QED
  BY <1>1, <1>2, <1>4, <1>5, WriteMoves, Zenon

-----------------------------------------------------------------------------
(* Steps that write nothing.                                               *)

LEMMA FaultStep ==
  ASSUME PwmInv, Fault, call.pc \notin {"idle", "cleanup", "list"},
         UNCHANGED <<exported_pwms, cache, fds, kernel, crashes, orphans>>
  PROVE  PwmInv'
<1>1. /\ Own \in Keys /\ faults \in 0 .. MaxFaults /\ fds \in [Keys -> SUBSET Files]
      /\ cache \in [Keys -> NodeType]
  BY Typed, SMT DEF PwmInv, Accounts, Own, CallType
<1>2. Fail /\ faults' \in 0 .. MaxFaults
  BY <1>1, PwmAssumption, SMT DEF Fault
<1>3. fds[Own] = IF lookup_exported_pwm(Own) THEN Files ELSE {}
  BY <1>1, Zenon DEF PwmInv, Accounts, DescriptorsOfList, At
<1>4. Failed
  BY <1>1, <1>2, <1>3, Zenon DEF Failed
<1>5. QED
  BY <1>4, FailedStep

\* what a step keeps that moves a call and nothing else, except perhaps in the cache
Moved ==
  /\ UNCHANGED <<exported_pwms, fds, kernel, faults, crashes, stale, orphans>>
  /\ call' \in CallType /\ cache' \in [Keys -> NodeType]
  /\ call.pc # "list" /\ call'.pc # "list"

LEMMA MovedBook ==
  ASSUME PwmInv, Moved
  PROVE  /\ Accounts' /\ KernelInv'
         /\ \A k \in Keys : lookup_exported_pwm(k)' = lookup_exported_pwm(k)
<1>1. \A k \in Keys : lookup_exported_pwm(k)' = lookup_exported_pwm(k)
  BY Zenon DEF Moved, lookup_exported_pwm
<1>2. Typing'
  BY Typed, TypedNext, Zenon DEF PwmInv, Accounts, Moved
<1>3. DescriptorsOfList' /\ EnabledListed' /\ KernelInv'
  BY <1>1, Zenon DEF PwmInv, Accounts, DescriptorsOfList, EnabledListed, KernelInv, Moved, At
<1>4. QED
  BY <1>1, <1>2, <1>3 DEF Accounts

(* pwm_setup().                                                             *)
LEMMA SetupPathStep == PwmInv /\ SetupPath => PwmInv'
<1> SUFFICES ASSUME PwmInv, SetupPath PROVE PwmInv'
  OBVIOUS
<1>1. call.pc = "prepare" /\ Typing /\ cache \in [Keys -> NodeType] /\ Own \in Keys
  BY Typed, SMT DEF SetupPath, At, PwmInv, Accounts, Own, CallType
<1>2. CASE Fault
  BY <1>1, <1>2, FaultStep, Zenon DEF SetupPath
<1>3. CASE Goto("open") /\ UNCHANGED <<faults, stale>>
  <2>1. call' \in CallType /\ call'.pc = "open" /\ call'.fn = call.fn /\ call'.key = call.key
    BY <1>1, <1>3, GotoCall, Zenon DEF Steps
  <2>2. Moved
    BY <1>1, <1>3, <2>1, Zenon DEF SetupPath, Moved
  <2>3. /\ Accounts' /\ KernelInv'
        /\ \A k \in Keys : lookup_exported_pwm(k)' = lookup_exported_pwm(k)
    BY <2>2, MovedBook, Zenon
  <2>4. FnInv' /\ Listed' /\ PhaseInv' /\ StartRepairs'
    BY <1>1, <2>1, <2>3, SMT DEF PwmInv, FnInv, Listed, PhaseInv, StartRepairs, At, Setup, Working,
       Changing, Finishing, Own
  <2>5. AgreeInv'
    <3>1. PICK o \in Keys : o = Own
      BY <1>1
    <3>2. ~Untouched(o)'
      BY <2>1, <3>1, SMT DEF Untouched, At, Own
    <3>3. kernel' = kernel /\ cache' = cache /\ stale' = stale
      BY <1>3, Zenon DEF SetupPath
    <3>4. QED
      BY <3>1, <3>2, <3>3, AgreeKept, Zenon DEF PwmInv
  <2>6. QED
    BY <2>3, <2>4, <2>5 DEF PwmInv
<1>4. QED
  BY <1>2, <1>3, Zenon DEF SetupPath

LEMMA SetupOpenStep == PwmInv /\ SetupOpen => PwmInv'
<1> SUFFICES ASSUME PwmInv, SetupOpen PROVE PwmInv'
  OBVIOUS
<1>1. /\ call.pc = "open" /\ Typing /\ cache \in [Keys -> NodeType] /\ Own \in Keys
      /\ fds \in [Keys -> SUBSET Files] /\ faults \in 0 .. MaxFaults
  BY Typed, SMT DEF SetupOpen, At, PwmInv, Accounts, Own, CallType
<1>2. ~lookup_exported_pwm(Own)
  BY <1>1, SMT DEF PwmInv, Listed, Setup
<1>3. CASE Goto("list") /\ fds' = [fds EXCEPT ![Own] = Files] /\ UNCHANGED <<faults, stale>>
  <2>1. call' \in CallType /\ call'.pc = "list" /\ call'.fn = call.fn /\ call'.key = call.key
    BY <1>1, <1>3, GotoCall, Zenon DEF Steps
  <2>2. \A k \in Keys : lookup_exported_pwm(k)' = lookup_exported_pwm(k)
    BY Zenon DEF SetupOpen, lookup_exported_pwm
  <2>3. /\ fds' \in [Keys -> SUBSET Files] /\ fds'[Own] = Files
        /\ \A k \in Keys \ {Own} : fds'[k] = fds[k]
    BY <1>1, <1>3, SMT
  <2>4. Typing'
    BY <1>1, <1>3, <2>1, <2>3, Typed, TypedNext, Zenon DEF SetupOpen
  <2>5. DescriptorsOfList'
    <3>1. \A k \in Keys : fds'[k] = IF lookup_exported_pwm(k)' \/ (At("list")' /\ k = Own')
                                    THEN Files ELSE {}
      <4>1. \A k \in Keys : fds[k] = IF lookup_exported_pwm(k) THEN Files ELSE {}
        BY <1>1, Zenon DEF PwmInv, Accounts, DescriptorsOfList, At
      <4>2. At("list")' /\ Own' = Own
        BY <2>1, Zenon DEF At, Own
      <4>3. QED
        BY <1>1, <1>2, <2>2, <2>3, <4>1, <4>2, Zenon
    <3>2. QED
      BY <3>1, Zenon DEF PwmInv, Accounts, DescriptorsOfList, SetupOpen
  <2>6. EnabledListed' /\ KernelInv'
    BY <2>2, Zenon DEF PwmInv, Accounts, EnabledListed, KernelInv, SetupOpen
  <2>7. FnInv' /\ Listed' /\ PhaseInv' /\ StartRepairs'
    BY <1>1, <2>1, <2>2, SMT DEF PwmInv, FnInv, Listed, PhaseInv, StartRepairs, At, Setup, Working,
       Changing, Finishing, Own
  <2>8. AgreeInv'
    <3>1. PICK o \in Keys : o = Own
      BY <1>1
    <3>2. ~Untouched(o)'
      BY <2>1, <3>1, SMT DEF Untouched, At, Own
    <3>3. kernel' = kernel /\ cache' = cache /\ stale' = stale
      BY <1>3, Zenon DEF SetupOpen
    <3>4. QED
      BY <3>1, <3>2, <3>3, AgreeKept, Zenon DEF PwmInv
  <2>9. QED
    BY <2>4, <2>5, <2>6, <2>7, <2>8 DEF PwmInv, Accounts
<1>4. ASSUME NEW n \in 0 .. 3, Fault,
             fds' = [fds EXCEPT ![Own] = AfterFailedOpen({OpenedFirst[i] : i \in 1 .. n})]
      PROVE  PwmInv'
  <2>1. fds' = [fds EXCEPT ![Own] = {}]
    BY <1>4, Zenon DEF AfterFailedOpen
  <2>2. /\ fds' \in [Keys -> SUBSET Files] /\ fds'[Own] = {}
        /\ \A k \in Keys \ {Own} : fds'[k] = fds[k]
    BY <1>1, <2>1, SMT
  <2>3. Fail /\ faults' \in 0 .. MaxFaults /\ call.pc \notin {"idle", "cleanup"}
    BY <1>1, <1>4, PwmAssumption, SMT DEF Fault
  <2>4. Failed
    BY <1>1, <1>2, <2>2, <2>3, Zenon DEF Failed, SetupOpen
  <2>5. QED
    BY <2>4, FailedStep
<1>5. QED
  BY <1>3, <1>4, Zenon DEF SetupOpen

LEMMA SetupListStep == PwmInv /\ SetupList => PwmInv'
<1> SUFFICES ASSUME PwmInv, SetupList PROVE PwmInv'
  OBVIOUS
<1>1. /\ call.pc = "list" /\ Typing /\ cache \in [Keys -> NodeType] /\ Own \in Keys
      /\ fds \in [Keys -> SUBSET Files] /\ faults \in 0 .. MaxFaults
      /\ exported_pwms \in Seq(Keys)
  BY Typed, SMT DEF SetupList, At, PwmInv, Accounts, Own, CallType
<1>2. ~lookup_exported_pwm(Own)
  BY <1>1, SMT DEF PwmInv, Listed, Setup
<1>3. ASSUME NEW p \in AnyPeriod, NEW d \in AnyDuty,
             exported_pwms' = Append(exported_pwms, Own),
             cache' = [cache EXCEPT ![Own] = [period |-> p, duty_ns |-> 0, duty |-> d]],
             Goto("readPeriod"), orphans' = orphans \ {Own}, UNCHANGED <<fds, faults, stale>>
      PROVE  PwmInv'
  <2>1. call' \in CallType /\ call'.pc = "readPeriod" /\ call'.fn = call.fn /\ call'.key = call.key
    BY <1>1, <1>3, GotoCall, Zenon DEF Steps
  <2>2. /\ exported_pwms' \in Seq(Keys) /\ Len(exported_pwms') = Len(exported_pwms) + 1
        /\ exported_pwms'[Len(exported_pwms) + 1] = Own
        /\ \A i \in DOMAIN exported_pwms : exported_pwms'[i] = exported_pwms[i]
        /\ DOMAIN exported_pwms' = 1 .. Len(exported_pwms) + 1
        /\ DOMAIN exported_pwms = 1 .. Len(exported_pwms) /\ Len(exported_pwms) \in Nat
    BY <1>1, <1>3, SMT
  <2>3. \A k \in Keys : lookup_exported_pwm(k)' <=> lookup_exported_pwm(k) \/ k = Own
    BY <1>1, <2>2, SMT DEF lookup_exported_pwm
  <2>4. p \in Nat /\ d \in Nat
    BY PwmAssumption, SMT DEF AnyPeriod, AnyDuty
  <2>5. cache' \in [Keys -> NodeType] /\ \A k \in Keys \ {Own} : cache'[k] = cache[k]
    BY <1>1, <1>3, <2>4, SMT DEF NodeType
  <2>6. Typing'
    BY <1>1, <1>3, <2>1, <2>2, <2>5, Typed, TypedNext, Zenon DEF SetupList
  <2>7. DescriptorsOfList'
    <3>1. \A k \in Keys : fds[k] = IF lookup_exported_pwm(k) \/ k = Own THEN Files ELSE {}
      BY <1>1, Zenon DEF PwmInv, Accounts, DescriptorsOfList, At
    <3>2. ~At("list")'
      BY <2>1, SMT DEF At
    <3>3. \A i, j \in DOMAIN exported_pwms' : exported_pwms'[i] = exported_pwms'[j] => i = j
      BY <1>2, <2>2, SMT DEF PwmInv, Accounts, DescriptorsOfList, lookup_exported_pwm
    <3>4. QED
      BY <1>3, <2>3, <3>1, <3>2, <3>3, Zenon DEF DescriptorsOfList
  <2>8. EnabledListed' /\ KernelInv'
    BY <1>3, <2>3, Zenon DEF PwmInv, Accounts, EnabledListed, KernelInv, SetupList
  <2>9. FnInv' /\ Listed' /\ PhaseInv' /\ StartRepairs'
    BY <1>1, <2>1, <2>3, SMT DEF PwmInv, FnInv, Listed, PhaseInv, StartRepairs, At, Setup, Working,
       Changing, Finishing, Own
  <2>10. AgreeInv'
    <3>1. PICK o \in Keys : o = Own
      BY <1>1
    <3>2. ~Untouched(o)'
      BY <2>1, <3>1, SMT DEF Untouched, At, Own
    <3>3. kernel' = kernel /\ stale' = stale
      BY <1>3, Zenon DEF SetupList
    <3>4. QED
      BY <2>5, <3>1, <3>2, <3>3, AgreeKept, Zenon DEF PwmInv
  <2>11. QED
    BY <2>6, <2>7, <2>8, <2>9, <2>10 DEF PwmInv, Accounts
<1>4. CASE Fault /\ fds' = [fds EXCEPT ![Own] = {}] /\ UNCHANGED <<exported_pwms, cache, orphans>>
  <2>1. /\ fds' \in [Keys -> SUBSET Files] /\ fds'[Own] = {}
        /\ \A k \in Keys \ {Own} : fds'[k] = fds[k]
    BY <1>1, <1>4, SMT
  <2>2. Fail /\ faults' \in 0 .. MaxFaults /\ call.pc \notin {"idle", "cleanup"}
    BY <1>1, <1>4, PwmAssumption, SMT DEF Fault
  <2>3. Failed
    BY <1>1, <1>2, <1>4, <2>1, <2>2, Zenon DEF Failed, SetupList
  <2>4. QED
    BY <2>3, FailedStep
<1>5. QED
  BY <1>3, <1>4, Zenon DEF SetupList

-----------------------------------------------------------------------------
(* Reading the files, and a new frequency.                                 *)
LEMMA ReadPeriodStep == PwmInv /\ ReadPeriod => PwmInv'
<1> SUFFICES ASSUME PwmInv, ReadPeriod PROVE PwmInv'
  OBVIOUS
<1>1. /\ call.pc = "readPeriod" /\ Typing /\ cache \in [Keys -> NodeType] /\ Own \in Keys
      /\ kernel \in [Keys -> ChannelType]
  BY Typed, SMT DEF ReadPeriod, At, PwmInv, Accounts, Own, CallType
<1>2. CASE Fault /\ UNCHANGED cache
  BY <1>1, <1>2, FaultStep, Zenon DEF ReadPeriod
<1>3. CASE /\ cache' = [cache EXCEPT ![Own].period = PeriodRead(Own)]
           /\ Goto("readDuty") /\ UNCHANGED <<faults, stale>>
  <2>1. call' \in CallType /\ call'.pc = "readDuty" /\ call'.fn = call.fn /\ call'.key = call.key
    BY <1>1, <1>3, GotoCall, Zenon DEF Steps
  <2>2. /\ cache' \in [Keys -> NodeType] /\ cache'[Own].period = kernel[Own].period
        /\ \A k \in Keys \ {Own} : cache'[k] = cache[k]
    BY <1>1, <1>3, SMT DEF PeriodRead, NodeType, ChannelType
  <2>3. Moved
    BY <1>1, <1>3, <2>1, <2>2, Zenon DEF ReadPeriod, Moved
  <2>4. /\ Accounts' /\ KernelInv'
        /\ \A k \in Keys : lookup_exported_pwm(k)' = lookup_exported_pwm(k)
    BY <2>3, MovedBook, Zenon
  <2>5. kernel' = kernel /\ stale' = stale
    BY <2>3, Zenon DEF Moved
  <2>6. FnInv' /\ Listed' /\ PhaseInv' /\ StartRepairs'
    BY <1>1, <2>1, <2>2, <2>4, <2>5, SMT DEF PwmInv, FnInv, Listed, PhaseInv, StartRepairs, At,
       Setup,
       Working, Changing, Finishing, Own, Mine
  <2>7. AgreeInv'
    <3>1. PICK o \in Keys : o = Own
      BY <1>1
    <3>2. ~Untouched(o)'
      BY <2>1, <3>1, SMT DEF Untouched, At, Own
    <3>3. QED
      BY <2>2, <2>5, <3>1, <3>2, AgreeKept, Zenon DEF PwmInv
  <2>8. QED
    BY <2>4, <2>6, <2>7 DEF PwmInv
<1>4. QED
  BY <1>2, <1>3, Zenon DEF ReadPeriod

LEMMA FrequencySet ==
  ASSUME cache \in [Keys -> NodeType], NEW c \in NodeType, NEW args \in CallType,
         NEW after \in {"duty", "idle"}, SetFrequency(c, args.period, after, args)
  PROVE  /\ cache' \in [Keys -> NodeType] /\ call' \in CallType
         /\ \A k \in Keys \ {args.key} : cache'[k] = cache[k]
         /\ cache'[args.key].period = args.period /\ cache'[args.key].duty = c.duty
         /\ \/ /\ args.period < c.period /\ call'.pc = "dutyDown"
               /\ cache'[args.key].duty_ns = DutyNs(args.period, c.duty)
            \/ args.period > c.period /\ call'.pc = "periodUp"
            \/ /\ args.period = c.period /\ call'.pc = after
               /\ cache'[args.key].duty_ns = c.duty_ns
         /\ call'.pc # "idle" => /\ call'.fn = args.fn /\ call'.key = args.key
                                 /\ call'.period = args.period /\ call'.duty = args.duty
         /\ call'.pc = "idle" => call'.fn = "none"
<1> DEFINE p == args.period
           step == FrequencyStep(p, c.period)
<1>1. /\ args.key \in Keys /\ p \in Nat /\ c.period \in Nat /\ c.duty \in Nat /\ c.duty_ns \in Nat
  BY SMT DEF CallType, NodeType
<1>2. PICK d \in Nat : d = IF step = "dutyDown" THEN DutyNs(p, c.duty) ELSE c.duty_ns
  BY <1>1, DutyNsNat, Zenon
<1>3. PICK n : n = [c EXCEPT !.period = p]
  OBVIOUS
<1>4. n \in NodeType /\ n.period = p /\ n.duty = c.duty /\ n.duty_ns = c.duty_ns
  BY <1>1, <1>3, SMT DEF NodeType
<1>5. cache' = [cache EXCEPT ![args.key] = [n EXCEPT !.duty_ns = d]]
  BY <1>2, <1>3, <1>4, SMT DEF SetFrequency, NodeType
<1>6. call' = IF step # "done" THEN [args EXCEPT !.pc = step]
              ELSE IF after = "idle" THEN NoCall ELSE [args EXCEPT !.pc = after]
  BY Zenon DEF SetFrequency
<1>7. \/ p < c.period /\ step = "dutyDown"
      \/ p > c.period /\ step = "periodUp"
      \/ p = c.period /\ step = "done"
  BY <1>1, SMT DEF FrequencyStep
<1> HIDE DEF p, step
<1>8. /\ cache' \in [Keys -> NodeType] /\ \A k \in Keys \ {args.key} : cache'[k] = cache[k]
      /\ cache'[args.key].period = p /\ cache'[args.key].duty = c.duty
      /\ cache'[args.key].duty_ns = d
  BY <1>1, <1>2, <1>4, <1>5, SMT DEF NodeType
<1>9. ASSUME NEW s \in Steps, call' = [args EXCEPT !.pc = s]
      PROVE  /\ call' \in CallType /\ call'.pc = s /\ call'.fn = args.fn /\ call'.key = args.key
             /\ call'.period = args.period /\ call'.duty = args.duty
  BY <1>9, SMT DEF CallType
<1>10. {"dutyDown", "periodUp", "duty", "idle"} \subseteq Steps
  BY SMT DEF Steps, Writes
<1>11. CASE step # "done"
  <2>1. step \in Steps /\ call' = [args EXCEPT !.pc = step] /\ step # "idle"
    BY <1>6, <1>7, <1>10, <1>11, Zenon
  <2>2. /\ call' \in CallType /\ call'.pc = step /\ call'.fn = args.fn /\ call'.key = args.key
        /\ call'.period = args.period /\ call'.duty = args.duty
    BY <1>9, <2>1, Zenon
  <2>3. QED
    BY <1>2, <1>7, <1>8, <1>11, <2>1, <2>2, Zenon DEF p
<1>12. CASE step = "done" /\ after = "idle"
  <2>1. call' = NoCall
    BY <1>6, <1>12, Zenon
  <2>2. QED
    BY <1>2, <1>7, <1>8, <1>12, <2>1, NoCallFields, Zenon DEF p
<1>13. CASE step = "done" /\ after = "duty"
  <2>1. call' = [args EXCEPT !.pc = "duty"] /\ "duty" \in Steps
    BY <1>6, <1>10, <1>13, Zenon
  <2>2. /\ call' \in CallType /\ call'.pc = "duty" /\ call'.fn = args.fn /\ call'.key = args.key
        /\ call'.period = args.period /\ call'.duty = args.duty
    BY <1>9, <2>1, Zenon
  <2>3. QED
    BY <1>2, <1>7, <1>8, <1>13, <2>2, Zenon DEF p
<1>14. QED
  BY <1>11, <1>12, <1>13, Zenon

LEMMA ReadDutyStep == PwmInv /\ ReadDuty => PwmInv'
<1> SUFFICES ASSUME PwmInv, ReadDuty PROVE PwmInv'
  OBVIOUS
<1>1. /\ call.pc = "readDuty" /\ Typing /\ cache \in [Keys -> NodeType] /\ Own \in Keys
      /\ kernel \in [Keys -> ChannelType] /\ call \in CallType
  BY Typed, SMT DEF ReadDuty, At, PwmInv, Accounts, Own, CallType
<1>2. CASE Fault /\ UNCHANGED cache
  BY <1>1, <1>2, FaultStep, Zenon DEF ReadDuty
<1>3. CASE /\ SetFrequency([Mine EXCEPT !.duty_ns = kernel[Own].duty, !.duty = call.duty],
                           call.period, "duty", call)
           /\ UNCHANGED <<faults, stale>>
  <2>1. PICK o \in Keys : o = Own
    BY <1>1
  <2>2. PICK c : c = [Mine EXCEPT !.duty_ns = kernel[Own].duty, !.duty = call.duty]
    OBVIOUS
  <2>3. /\ c \in NodeType /\ c.period = cache[o].period /\ c.duty_ns = kernel[o].duty
        /\ c.duty = call.duty /\ call.duty <= 100
    <3>1. PICK n : n = [Mine EXCEPT !.duty_ns = kernel[Own].duty]
      OBVIOUS
    <3>2. /\ Mine \in NodeType /\ Mine = cache[o] /\ kernel[Own].duty \in Nat
          /\ call.duty \in 0 .. 100
          /\ kernel[o] = kernel[Own]
      BY <1>1, <2>1, SMT DEF Mine, Own, ChannelType, CallType
    <3>3. n \in NodeType /\ n.period = cache[o].period /\ n.duty_ns = kernel[o].duty
      BY <3>1, <3>2, SMT DEF NodeType
    <3>4. c = [n EXCEPT !.duty = call.duty]
      BY <2>2, <3>1, Zenon
    <3>5. QED
      BY <3>2, <3>3, <3>4, SMT DEF NodeType
  <2>4. SetFrequency(c, call.period, "duty", call) /\ stale' = stale /\ faults' = faults
    BY <1>3, <2>2, Zenon
  <2>5. /\ cache' \in [Keys -> NodeType] /\ call' \in CallType
        /\ \A k \in Keys \ {o} : cache'[k] = cache[k]
        /\ cache'[o].period = call.period /\ cache'[o].duty = call.duty
        /\ \/ /\ call.period < cache[o].period /\ call'.pc = "dutyDown"
              /\ cache'[o].duty_ns = DutyNs(call.period, call.duty)
           \/ call.period > cache[o].period /\ call'.pc = "periodUp"
           \/ call.period = cache[o].period /\ call'.pc = "duty"
        /\ call'.fn = "start" /\ call'.key = o /\ call'.period = call.period
        /\ call'.duty = call.duty
    <3>1. call.fn = "start"
      BY <1>1, SMT DEF PwmInv, FnInv
    <3>2. QED
      BY <1>1, <2>1, <2>3, <2>4, <3>1, FrequencySet, SMT DEF Own
  <2>6. Moved
    BY <1>1, <2>4, <2>5, SMT DEF ReadDuty, Moved
  <2>7. /\ Accounts' /\ KernelInv'
        /\ \A k \in Keys : lookup_exported_pwm(k)' = lookup_exported_pwm(k)
    BY <2>6, MovedBook, Zenon
  <2>8. kernel' = kernel /\ stale' = stale /\ cache[o].period = kernel[o].period
        /\ lookup_exported_pwm(o)
    BY <1>1, <2>1, <2>6, SMT DEF Moved, PwmInv, PhaseInv, At, Own, Mine, Listed, Working
  <2>9. FnInv' /\ Listed' /\ StartRepairs'
    BY <1>1, <2>1, <2>5, <2>7, <2>8, SMT DEF PwmInv, FnInv, Listed, StartRepairs, At, Setup,
       Working, Changing, Finishing, Own
  <2>10. PhaseInv'
    BY <1>1, <2>3, <2>5, <2>8, SMT DEF PhaseInv, ChangingInv, At, Changing, Finishing, Own, Mine,
       Trusted
  <2>11. AgreeInv'
    <3>1. ~Untouched(o)'
      BY <2>5, SMT DEF Untouched, At, Own
    <3>2. QED
      BY <2>1, <2>5, <2>8, <3>1, AgreeKept, Zenon DEF PwmInv
  <2>12. QED
    BY <2>7, <2>9, <2>10, <2>11 DEF PwmInv
<1>4. QED
  BY <1>2, <1>3, Zenon DEF ReadDuty

LEMMA CallSetFrequencyStep ==
  ASSUME NEW k \in Keys, NEW period \in Nat
  PROVE  PwmInv /\ CallSetFrequency(k, period) => PwmInv'
<1> SUFFICES ASSUME PwmInv, CallSetFrequency(k, period) PROVE PwmInv'
  OBVIOUS
<1>1. /\ call.pc = "idle" /\ Typing /\ cache \in [Keys -> NodeType] /\ Own \in Keys
      /\ kernel \in [Keys -> ChannelType] /\ call \in CallType
  BY Typed, SMT DEF CallSetFrequency, At, PwmInv, Accounts, Own, CallType
<1>2. \A j \in Keys \ stale : Agreed(j)
  BY <1>1, Zenon DEF PwmInv, AgreeInv, Untouched, At
<1>3. CASE ~lookup_exported_pwm(k)
  <2>1. call' = NoCall /\ cache' = cache
    BY <1>3, Zenon DEF CallSetFrequency
  <2>2. Moved
    BY <1>1, <2>1, NoCallFields, SMT DEF Moved, CallSetFrequency
  <2>3. /\ Accounts' /\ KernelInv'
        /\ \A j \in Keys : lookup_exported_pwm(j)' = lookup_exported_pwm(j)
    BY <2>2, MovedBook, Zenon
  <2>4. FnInv' /\ Listed' /\ PhaseInv' /\ StartRepairs'
    BY <2>1, NoCallFields, SMT DEF FnInv, Listed, PhaseInv, StartRepairs, At, Setup, Working,
       Changing, Finishing
  <2>5. AgreeInv'
    BY <1>2, <2>1, <2>2, Zenon DEF AgreeInv, Agreed, Moved
  <2>6. QED
    BY <2>3, <2>4, <2>5 DEF PwmInv
<1>4. CASE lookup_exported_pwm(k)
  <2>1. PICK args : args = [Call("set_frequency", k) EXCEPT !.period = period]
    OBVIOUS
  <2>2. args \in CallType /\ args.fn = "set_frequency" /\ args.key = k /\ args.period = period
    <3>1. Call("set_frequency", k) \in CallType
      BY CallTyped, SMT DEF Functions
    <3>2. Call("set_frequency", k).fn = "set_frequency" /\ Call("set_frequency", k).key = k
      BY SMT DEF Call
    <3>3. QED
      BY <2>1, <3>1, <3>2, SMT DEF CallType
  <2>3. cache[k] \in NodeType /\ SetFrequency(cache[k], period, "idle", args)
    BY <1>1, <1>4, <2>1, Zenon DEF CallSetFrequency
  <2>4. /\ cache' \in [Keys -> NodeType] /\ call' \in CallType
        /\ \A j \in Keys \ {k} : cache'[j] = cache[j]
        /\ cache'[k].period = period /\ cache'[k].duty = cache[k].duty
        /\ \/ /\ period < cache[k].period /\ call'.pc = "dutyDown"
              /\ cache'[k].duty_ns = DutyNs(period, cache[k].duty)
           \/ period > cache[k].period /\ call'.pc = "periodUp"
           \/ /\ period = cache[k].period /\ call'.pc = "idle"
              /\ cache'[k].duty_ns = cache[k].duty_ns
        /\ call'.pc # "idle" => /\ call'.fn = "set_frequency" /\ call'.key = k
                                /\ call'.period = period
        /\ call'.pc = "idle" => call'.fn = "none"
    BY <1>1, <2>2, <2>3, FrequencySet, SMT
  <2>5. Moved
    BY <1>1, <2>4, SMT DEF CallSetFrequency, Moved
  <2>6. /\ Accounts' /\ KernelInv'
        /\ \A j \in Keys : lookup_exported_pwm(j)' = lookup_exported_pwm(j)
    BY <2>5, MovedBook, Zenon
  <2>7. kernel' = kernel /\ stale' = stale
    BY <2>5, Zenon DEF Moved
  <2>8. FnInv' /\ Listed' /\ StartRepairs'
    BY <1>4, <2>4, <2>6, SMT DEF FnInv, Listed, StartRepairs, At, Setup, Working, Changing,
       Finishing, Own
  <2>9. PhaseInv'
    BY <1>1, <1>2, <2>4, <2>7, SMT DEF PhaseInv, ChangingInv, Agreed, At, Changing, Finishing, Own,
       Mine, Trusted
  <2>10. AgreeInv'
    <3>1. ASSUME NEW j \in Keys \ stale', Untouched(j)' PROVE Agreed(j)'
      <4>1. Agreed(j)
        BY <1>2, <2>7, Zenon
      <4>2. CASE j # k
        BY <2>4, <2>7, <4>1, <4>2, Zenon DEF Agreed
      <4>3. CASE j = k
        <5>1. period = cache[k].period /\ cache'[k].duty_ns = cache[k].duty_ns
          BY <2>4, <3>1, <4>3, SMT DEF Untouched, At, Own
        <5>2. QED
          BY <2>4, <2>7, <4>1, <4>3, <5>1, Zenon DEF Agreed
      <4>4. QED
        BY <4>2, <4>3
    <3>2. QED
      BY <3>1, Zenon DEF AgreeInv
  <2>11. QED
    BY <2>6, <2>8, <2>9, <2>10 DEF PwmInv
<1>5. QED
  BY <1>3, <1>4

-----------------------------------------------------------------------------
LEMMA ReadEnableStep == PwmInv /\ ReadEnable => PwmInv'
<1> SUFFICES ASSUME PwmInv, ReadEnable PROVE PwmInv'
  OBVIOUS
<1>1. /\ call.pc = "readEnable" /\ Typing /\ cache \in [Keys -> NodeType] /\ Own \in Keys
      /\ kernel \in [Keys -> ChannelType] /\ call \in CallType
  <2>1. call.pc = "readEnable" /\ Typing
    BY Zenon DEF ReadEnable, At, PwmInv, Accounts
  <2>2. QED
    BY <2>1, Typed, SMT DEF Own, CallType
<1>2. CASE Fault
  BY <1>1, <1>2, FaultStep, Zenon DEF ReadEnable
<1>3. ASSUME NEW e \in BOOLEAN,
             call' = [call EXCEPT !.enabled = e,
                        !.pc = IF kernel[Own].enabled THEN "disableFirst" ELSE "polarity"],
             UNCHANGED <<faults, stale>>
      PROVE  PwmInv'
  <2>1. PICK o \in Keys : o = Own
    BY <1>1
  <2>2. PICK step \in {"disableFirst", "polarity"} :
          step = IF kernel[Own].enabled THEN "disableFirst" ELSE "polarity"
    OBVIOUS
  <2>3. step \in Steps
    BY SMT DEF Steps, Writes
  <2>4. /\ call' \in CallType /\ call'.pc = step /\ call'.fn = call.fn /\ call'.key = call.key
        /\ call'.period = call.period /\ call'.duty = call.duty /\ call'.polarity = call.polarity
    <3>1. PICK c : c = [call EXCEPT !.enabled = e]
      OBVIOUS
    <3>2. /\ c \in CallType /\ c.fn = call.fn /\ c.key = call.key /\ c.period = call.period
          /\ c.duty = call.duty /\ c.polarity = call.polarity
      BY <1>1, <3>1, SMT DEF CallType
    <3>3. call' = [c EXCEPT !.pc = step]
      BY <1>3, <2>2, <3>1, Zenon
    <3>4. QED
      BY <2>3, <3>2, <3>3, SMT DEF CallType
  <2>5. Moved
    <3>1. step # "list" /\ call.pc # "list"
      BY <1>1, SMT
    <3>2. QED
      BY <1>1, <1>3, <2>4, <3>1, Zenon DEF ReadEnable, Moved
  <2>6. /\ Accounts' /\ KernelInv'
        /\ \A k \in Keys : lookup_exported_pwm(k)' = lookup_exported_pwm(k)
    BY <2>5, MovedBook, Zenon
  <2>7. kernel' = kernel /\ stale' = stale /\ cache' = cache
    BY <2>5, Zenon DEF Moved, ReadEnable
  <2>8. FnInv' /\ Listed' /\ StartRepairs'
    BY <1>1, <2>4, <2>6, SMT DEF PwmInv, FnInv, Listed, StartRepairs, At, Setup, Working, Changing,
       Finishing, Own
  <2>9. PhaseInv'
    <3>1. FinishingInv
      BY <1>1, SMT DEF PwmInv, PhaseInv, Finishing
    <3>2. step = "polarity" => kernel[o].enabled = FALSE
      <4>1. kernel[o].enabled \in BOOLEAN
        BY <1>1, SMT DEF ChannelType
      <4>2. QED
        BY <2>1, <2>2, <4>1, Zenon
    <3>3. FinishingInv'
      <4>1. call'.period > 0 /\ kernel'[o].period = call'.period
            /\ kernel'[o].duty = DutyNs(call'.period, call'.duty) /\ call'.key = o
        BY <2>1, <2>4, <2>7, <3>1, SMT DEF FinishingInv, Own
      <4>2. cache'[o] = [period |-> call'.period, duty_ns |-> kernel'[o].duty,
                         duty |-> call'.duty]
        BY <2>1, <2>4, <2>7, <3>1, Zenon DEF FinishingInv, Mine, Own
      <4>3. ~At("reenable")' /\ ~At("enable")'
        BY <2>4, SMT DEF At
      <4>4. At("polarity")' => kernel'[o].enabled = FALSE
        BY <2>4, <2>7, <3>2, Zenon DEF At
      <4>5. QED
        BY <4>1, <4>2, <4>3, <4>4, Zenon DEF FinishingInv, Mine, Own
    <3>4. QED
      BY <2>4, <3>3, SMT DEF PhaseInv, At, Changing
  <2>10. AgreeInv'
    <3>1. ~Untouched(o)'
      BY <2>1, <2>4, SMT DEF Untouched, At, Own
    <3>2. QED
      BY <2>1, <2>7, <3>1, AgreeKept, Zenon DEF PwmInv
  <2>11. QED
    BY <2>6, <2>8, <2>9, <2>10 DEF PwmInv
<1>4. QED
  BY <1>2, <1>3, Zenon DEF ReadEnable

-----------------------------------------------------------------------------
(* The end of a channel.                                                   *)
LEMMA CloseNodeStep == PwmInv /\ At("close") /\ CloseNode /\ UNCHANGED crashes => PwmInv'
<1> SUFFICES ASSUME PwmInv, At("close"), CloseNode, UNCHANGED crashes PROVE PwmInv'
  OBVIOUS
<1>1. /\ call.pc = "close" /\ Typing /\ cache \in [Keys -> NodeType] /\ Own \in Keys
      /\ fds \in [Keys -> SUBSET Files] /\ call \in CallType /\ exported_pwms \in Seq(Keys)
      /\ stale \subseteq Keys
  BY Typed, SMT DEF CloseNode, At, PwmInv, Accounts, Own, CallType
<1>2. PICK o \in Keys : o = Own
  BY <1>1
<1>3. lookup_exported_pwm(o) /\ kernel[o].enabled = FALSE
  BY <1>1, <1>2, SMT DEF PwmInv, Listed, Working, At
<1>4. PICK i \in DOMAIN exported_pwms :
             exported_pwms[i] = o /\ exported_pwms' = RemoveAt(exported_pwms, i)
  <2> DEFINE i == CHOOSE j \in DOMAIN exported_pwms : exported_pwms[j] = Own
  <2>1. i \in DOMAIN exported_pwms /\ exported_pwms[i] = Own
    BY <1>2, <1>3, Zenon DEF lookup_exported_pwm
  <2>2. exported_pwms' = RemoveAt(exported_pwms, i)
    BY Zenon DEF CloseNode, Unlink
  <2>3. QED
    BY <1>2, <2>1, <2>2, Zenon
<1>5. DOMAIN exported_pwms = 1 .. Len(exported_pwms) /\ Len(exported_pwms) \in Nat
  BY <1>1, LenProperties, SMT
<1>6. /\ exported_pwms' \in Seq(Keys) /\ Len(exported_pwms') = Len(exported_pwms) - 1
      /\ \A j \in 1 .. Len(exported_pwms) - 1 :
           exported_pwms'[j] = IF j < i THEN exported_pwms[j] ELSE exported_pwms[j + 1]
  BY <1>1, <1>4, <1>5, Removed, Zenon
<1>7. DOMAIN exported_pwms' = 1 .. Len(exported_pwms) - 1
  BY <1>5, <1>6, SMT
<1>8. \A j, l \in DOMAIN exported_pwms : exported_pwms[j] = exported_pwms[l] => j = l
  BY Zenon DEF PwmInv, Accounts, DescriptorsOfList
<1>9. \A k \in Keys : lookup_exported_pwm(k)' <=> lookup_exported_pwm(k) /\ k # o
  <2>1. ASSUME NEW k \in Keys, NEW j \in DOMAIN exported_pwms, exported_pwms[j] = k, k # o
        PROVE  lookup_exported_pwm(k)'
    <3>1. CASE j < i
      BY <1>4, <1>5, <1>6, <1>7, <2>1, <3>1, SMT DEF lookup_exported_pwm
    <3>2. CASE j > i
      <4>1. j - 1 \in DOMAIN exported_pwms' /\ ~(j - 1 < i) /\ j - 1 + 1 = j
        BY <1>4, <1>5, <1>7, <3>2, SMT
      <4>2. exported_pwms'[j - 1] = k
        BY <1>6, <1>7, <2>1, <4>1, SMT
      <4>3. QED
        BY <4>1, <4>2, Zenon DEF lookup_exported_pwm
    <3>3. j # i
      BY <1>4, <2>1, Zenon
    <3>4. QED
      BY <1>4, <1>5, <3>1, <3>2, <3>3, SMT
  <2>2. ASSUME NEW k \in Keys, NEW j \in DOMAIN exported_pwms', exported_pwms'[j] = k
        PROVE  lookup_exported_pwm(k) /\ k # o
    <3>1. CASE j < i
      BY <1>4, <1>5, <1>6, <1>7, <1>8, <2>2, <3>1, SMT DEF lookup_exported_pwm
    <3>2. CASE ~(j < i)
      <4>1. j + 1 \in DOMAIN exported_pwms /\ j + 1 # i
        BY <1>4, <1>5, <1>7, <3>2, SMT
      <4>2. exported_pwms[j + 1] = k
        BY <1>6, <1>7, <2>2, <3>2, Zenon
      <4>3. QED
        BY <1>4, <1>8, <4>1, <4>2, Zenon DEF lookup_exported_pwm
    <3>3. QED
      BY <3>1, <3>2
  <2>3. QED
    BY <2>1, <2>2, Zenon DEF lookup_exported_pwm
<1>10. \A j, l \in DOMAIN exported_pwms' : exported_pwms'[j] = exported_pwms'[l] => j = l
  <2> SUFFICES ASSUME NEW j \in DOMAIN exported_pwms', NEW l \in DOMAIN exported_pwms',
                      exported_pwms'[j] = exported_pwms'[l]
               PROVE  j = l
    OBVIOUS
  <2> DEFINE from(n) == IF n < i THEN n ELSE n + 1
  <2>1. from(j) \in DOMAIN exported_pwms /\ from(l) \in DOMAIN exported_pwms
    BY <1>5, <1>7, SMT
  <2>2. exported_pwms'[j] = exported_pwms[from(j)] /\ exported_pwms'[l] = exported_pwms[from(l)]
    BY <1>6, <1>7, Zenon
  <2>3. from(j) = from(l)
    BY <1>8, <2>1, <2>2, Zenon
  <2>4. QED
    BY <1>5, <1>7, <2>3, SMT
<1>11. /\ cache' \in [Keys -> NodeType] /\ \A k \in Keys \ {o} : cache'[k] = cache[k]
       /\ fds' \in [Keys -> SUBSET Files] /\ \A k \in Keys \ {o} : fds'[k] = fds[k]
       /\ fds'[o] = {} /\ stale' = stale \cup {o} /\ kernel' = kernel /\ orphans' = orphans
  BY <1>1, <1>2, SMT DEF CloseNode, NoNode, NodeType
<1>12. call' \in CallType /\ \/ call'.pc = "cleanup" /\ call'.fn = "cleanup"
                             \/ call'.pc = "idle" /\ call'.fn = "none"
  <2>1. CASE call.fn = "cleanup"
    <3>1. Goto("cleanup") /\ "cleanup" \in Steps
      BY <2>1, Zenon DEF CloseNode, Goto, Steps
    <3>2. QED
      BY <1>1, <2>1, <3>1, GotoCall, Zenon
  <2>2. CASE call.fn # "cleanup"
    BY <2>2, NoCallFields, Zenon DEF CloseNode
  <2>3. QED
    BY <2>1, <2>2
<1>13. Typing'
  <2>1. stale' \subseteq Keys
    BY <1>1, <1>11, Zenon
  <2>2. QED
    BY <1>1, <1>6, <1>11, <1>12, <2>1, Typed, TypedNext, Zenon DEF CloseNode
<1>14. DescriptorsOfList'
  <2>1. ~At("list")' /\ ~At("list")
    BY <1>1, <1>12, SMT DEF At
  <2>2. \A k \in Keys : fds[k] = IF lookup_exported_pwm(k) THEN Files ELSE {}
    BY <2>1, Zenon DEF PwmInv, Accounts, DescriptorsOfList
  <2>3. \A k \in Keys : fds'[k] = IF lookup_exported_pwm(k)' THEN Files ELSE {}
    BY <1>9, <1>11, <2>2, Zenon
  <2>4. QED
    BY <1>10, <2>1, <2>3, Zenon DEF DescriptorsOfList
<1>15. EnabledListed' /\ KernelInv'
  BY <1>3, <1>9, <1>11, Zenon DEF PwmInv, Accounts, EnabledListed, KernelInv
<1>16. FnInv' /\ Listed' /\ PhaseInv' /\ StartRepairs'
  BY <1>12, SMT DEF FnInv, Listed, PhaseInv, StartRepairs, At, Setup, Working, Changing, Finishing
<1>17. AgreeInv'
  BY <1>2, <1>11, AgreeKept, Zenon DEF PwmInv
<1>18. QED
  BY <1>13, <1>14, <1>15, <1>16, <1>17 DEF PwmInv, Accounts

LEMMA CleanupLoopStep == PwmInv /\ CleanupLoop => PwmInv'
<1> SUFFICES ASSUME PwmInv, CleanupLoop PROVE PwmInv'
  OBVIOUS
<1>1. /\ call.pc = "cleanup" /\ Typing /\ cache \in [Keys -> NodeType]
      /\ call \in CallType /\ exported_pwms \in Seq(Keys)
  BY Typed, SMT DEF CleanupLoop, At, PwmInv, Accounts
<1>2. /\ call' \in CallType
      /\ \/ call'.pc = "idle" /\ call'.fn = "none"
         \/ call'.pc = "disable" /\ call'.fn = "cleanup" /\ lookup_exported_pwm(call'.key)
  <2>1. CASE exported_pwms = <<>>
    BY <2>1, NoCallFields, Zenon DEF CleanupLoop
  <2>2. CASE exported_pwms # <<>>
    <3>1. call.fn = "cleanup"
      BY <1>1, Zenon DEF PwmInv, FnInv, At
    <3>2. 1 \in DOMAIN exported_pwms /\ exported_pwms[1] \in Keys
      BY <1>1, <2>2, EmptySeq, LenProperties, SMT
    <3>3. PICK k \in Keys : k = exported_pwms[1]
      BY <3>2
    <3>4. "disable" \in Steps
      BY SMT DEF Steps, Writes
    <3>5. PICK c : c = [call EXCEPT !.pc = "disable"]
      OBVIOUS
    <3>6. c \in CallType /\ c.pc = "disable" /\ c.fn = "cleanup"
      <4>1. call \in CallType
        BY <1>1
      <4>2. QED
        BY <3>1, <3>4, <3>5, <4>1, SMT DEF CallType
    <3>7. call' = [c EXCEPT !.key = k]
      BY <2>2, <3>3, <3>5, Zenon DEF CleanupLoop
    <3>8. call' \in CallType /\ call'.pc = "disable" /\ call'.fn = "cleanup" /\ call'.key = k
      BY <3>6, <3>7, SMT DEF CallType
    <3>9. lookup_exported_pwm(k)
      BY <3>2, <3>3, Zenon DEF lookup_exported_pwm
    <3>10. QED
      BY <3>8, <3>9, Zenon
  <2>3. QED
    BY <2>1, <2>2
<1>3. Moved
  BY <1>1, <1>2, SMT DEF CleanupLoop, Moved
<1>4. /\ Accounts' /\ KernelInv'
      /\ \A k \in Keys : lookup_exported_pwm(k)' = lookup_exported_pwm(k)
  BY <1>3, MovedBook, Zenon
<1>5. FnInv' /\ Listed' /\ PhaseInv' /\ StartRepairs'
  <2>1. call'.key \in Keys
    BY <1>2, SMT DEF CallType
  <2>2. QED
    BY <1>2, <1>4, <2>1, SMT DEF FnInv, Listed, PhaseInv, StartRepairs, At, Setup, Working,
       Changing,
       Finishing, Own
<1>6. AgreeInv'
  <2>1. \A k \in Keys \ stale : Agreed(k)
    BY <1>1, Zenon DEF PwmInv, AgreeInv, Untouched, At
  <2>2. QED
    BY <1>3, <2>1, Zenon DEF AgreeInv, Agreed, Moved, CleanupLoop
<1>7. QED
  BY <1>4, <1>5, <1>6 DEF PwmInv

-----------------------------------------------------------------------------
(* Calls of the program, a crash, and the specification.                   *)
\* what every call starts from
LEMMA Idle ==
  ASSUME PwmInv, At("idle")
  PROVE  \A k \in Keys \ stale : Agreed(k)
  BY Zenon DEF PwmInv, AgreeInv, Untouched

LEMMA Entered ==
  ASSUME PwmInv, At("idle"), call' \in CallType,
         UNCHANGED <<exported_pwms, cache, fds, kernel, faults, crashes, stale, orphans>>,
         \/ call'.pc = "idle" /\ call'.fn = "none"
         \/ call'.pc = "prepare" /\ call'.fn = "start" /\ ~lookup_exported_pwm(call'.key)
         \/ call'.pc = "readPeriod" /\ call'.fn = "start" /\ lookup_exported_pwm(call'.key)
         \/ call'.pc = "duty" /\ call'.fn = "set_duty_cycle" /\ lookup_exported_pwm(call'.key)
         \/ call'.pc = "disable" /\ call'.fn = "stop" /\ lookup_exported_pwm(call'.key)
         \/ call'.pc = "cleanup" /\ call'.fn = "cleanup"
  PROVE  PwmInv'
<1>1. cache \in [Keys -> NodeType] /\ call'.key \in Keys /\ call.pc = "idle"
  BY Typed, SMT DEF PwmInv, Accounts, CallType, At
<1>2. Moved
  BY <1>1, SMT DEF Moved
<1>3. /\ Accounts' /\ KernelInv'
      /\ \A k \in Keys : lookup_exported_pwm(k)' = lookup_exported_pwm(k)
  BY <1>2, MovedBook, Zenon
<1>4. FnInv' /\ Listed' /\ PhaseInv' /\ StartRepairs'
  BY <1>1, <1>3, SMT DEF FnInv, Listed, PhaseInv, StartRepairs, At, Setup, Working, Changing,
     Finishing, Own
<1>5. AgreeInv'
  BY Idle, Zenon DEF AgreeInv, Agreed
<1>6. QED
  BY <1>3, <1>4, <1>5 DEF PwmInv

CallAt(fn, k, step) == [Call(fn, k) EXCEPT !.pc = step]

LEMMA CallFields ==
  ASSUME NEW fn \in Functions, NEW k \in Keys, NEW step \in Steps
  PROVE  /\ CallAt(fn, k, step) \in CallType /\ CallAt(fn, k, step).pc = step
         /\ CallAt(fn, k, step).fn = fn /\ CallAt(fn, k, step).key = k
<1>1. Call(fn, k) \in CallType
  BY CallTyped, Zenon
<1>2. Call(fn, k).fn = fn /\ Call(fn, k).key = k
  BY SMT DEF Call
<1>3. QED
  BY <1>1, <1>2, SMT DEF CallType, CallAt

LEMMA StartStep ==
  ASSUME NEW s \in Settings
  PROVE  PwmInv /\ Start(s) => PwmInv'
<1> SUFFICES ASSUME PwmInv, Start(s) PROVE PwmInv'
  OBVIOUS
<1>1. /\ s.key \in Keys /\ s.period \in Nat /\ s.duty \in 0 .. 100 /\ s.polarity \in {0, 1}
  <2>1. s.key \in Keys /\ s.period \in Nat /\ s.duty \in Nat /\ s.polarity \in Nat
    BY PwmAssumption, SMT
  <2>2. s.duty <= 100 /\ s.polarity <= 1
    BY Zenon DEF Start, Valid
  <2>3. QED
    BY <2>1, <2>2, SMT
<1>2. PICK step \in {"readPeriod", "prepare"} :
        step = IF lookup_exported_pwm(s.key) THEN "readPeriod" ELSE "prepare"
  OBVIOUS
<1>3. PICK no \in BOOLEAN : no = FALSE
  OBVIOUS
<1>4. call' = [pc |-> step, fn |-> "start", key |-> s.key, period |-> s.period,
               duty |-> s.duty, polarity |-> s.polarity, enabled |-> no]
  BY <1>2, <1>3, Zenon DEF Start
<1>5. call' \in CallType /\ call'.pc = step /\ call'.fn = "start" /\ call'.key = s.key
  BY <1>1, <1>4, SMT DEF CallType, Steps, Functions
<1>6. QED
  BY <1>2, <1>5, Entered, Zenon DEF Start

LEMMA CallSetDutyCycleStep ==
  ASSUME NEW s \in Settings
  PROVE  PwmInv /\ CallSetDutyCycle(s) => PwmInv'
<1> SUFFICES ASSUME PwmInv, CallSetDutyCycle(s) PROVE PwmInv'
  OBVIOUS
<1>1. s.key \in Keys /\ s.duty \in 0 .. 100
  <2>1. s.key \in Keys /\ s.duty \in Nat
    BY PwmAssumption, SMT
  <2>2. s.duty <= 100
    BY Zenon DEF CallSetDutyCycle, Valid
  <2>3. QED
    BY <2>1, <2>2, SMT
<1>2. CASE lookup_exported_pwm(s.key)
  <2>1. PICK c : c = [Call("set_duty_cycle", s.key) EXCEPT !.pc = "duty"]
    OBVIOUS
  <2>2. c \in CallType /\ c.pc = "duty" /\ c.fn = "set_duty_cycle" /\ c.key = s.key
    <3>1. "set_duty_cycle" \in Functions /\ "duty" \in Steps
      BY SMT DEF Functions, Steps, Writes
    <3>2. c = CallAt("set_duty_cycle", s.key, "duty")
      BY <2>1, Zenon DEF CallAt
    <3>3. QED
      BY <1>1, <3>1, <3>2, CallFields, SMT
  <2>3. call' = [c EXCEPT !.duty = s.duty]
    BY <1>2, <2>1, Zenon DEF CallSetDutyCycle
  <2>4. call' \in CallType /\ call'.pc = "duty" /\ call'.fn = "set_duty_cycle" /\ call'.key = s.key
    BY <1>1, <2>2, <2>3, SMT DEF CallType
  <2>5. QED
    BY <1>2, <2>4, Entered, Zenon DEF CallSetDutyCycle
<1>3. CASE ~lookup_exported_pwm(s.key)
  BY <1>3, NoCallFields, Entered, Zenon DEF CallSetDutyCycle
<1>4. QED
  BY <1>2, <1>3

LEMMA StopStep ==
  ASSUME NEW k \in Keys
  PROVE  PwmInv /\ Stop(k) => PwmInv'
<1> SUFFICES ASSUME PwmInv, Stop(k) PROVE PwmInv'
  OBVIOUS
<1>1. "stop" \in Functions /\ "disable" \in Steps
  BY SMT DEF Functions, Steps, Writes
<1>2. CASE lookup_exported_pwm(k)
  <2>1. call' \in CallType /\ call'.pc = "disable" /\ call'.fn = "stop" /\ call'.key = k
    <3>1. call' = CallAt("stop", k, "disable")
      BY <1>2, Zenon DEF Stop, CallAt
    <3>2. QED
      BY <1>1, <3>1, CallFields, SMT
  <2>2. QED
    BY <1>2, <2>1, Entered, Zenon DEF Stop
<1>3. CASE ~lookup_exported_pwm(k)
  BY <1>3, NoCallFields, Entered, Zenon DEF Stop
<1>4. QED
  BY <1>2, <1>3

LEMMA CallCleanupStep == PwmInv /\ CallCleanup => PwmInv'
<1> SUFFICES ASSUME PwmInv, CallCleanup PROVE PwmInv'
  OBVIOUS
<1>1. "cleanup" \in Functions /\ "cleanup" \in Steps /\ Own \in Keys
  BY Typed, SMT DEF Functions, Steps, PwmInv, Accounts, CallType, Own
<1>2. call' \in CallType /\ call'.pc = "cleanup" /\ call'.fn = "cleanup"
  <2>1. call' = CallAt("cleanup", Own, "cleanup")
    BY Zenon DEF CallCleanup, CallAt
  <2>2. QED
    BY <1>1, <2>1, CallFields, SMT
<1>3. QED
  BY <1>2, Entered, Zenon DEF CallCleanup

LEMMA DieStep == PwmInv /\ Die /\ crashes' \in 0 .. MaxCrashes => PwmInv'
<1> SUFFICES ASSUME PwmInv, Die, crashes' \in 0 .. MaxCrashes PROVE PwmInv'
  OBVIOUS
<1>1. kernel \in [Keys -> ChannelType] /\ faults \in 0 .. MaxFaults /\ crashes \in 0 .. MaxCrashes
  BY Typed, SMT DEF PwmInv, Accounts
<1>2. call' \in CallType /\ call'.pc = "idle" /\ call'.fn = "none" /\ call'.key \in Keys
  BY NoCallFields, Zenon DEF Die
<1>3. exported_pwms' = <<>> /\ \A k \in Keys : ~lookup_exported_pwm(k)'
  BY SMT DEF Die, lookup_exported_pwm
<1>4. Typing'
  <2>1. cache' \in [Keys -> NodeType] /\ fds' \in [Keys -> SUBSET Files]
    BY SMT DEF Die, NodeType, NoNode
  <2>2. exported_pwms' \in Seq(Keys)
    BY <1>3, EmptySeq, Zenon
  <2>3. faults' \in 0 .. MaxFaults /\ crashes' \in 0 .. MaxCrashes
    BY <1>1, SMT DEF Die
  <2>4. stale' \subseteq Keys /\ orphans' \subseteq Keys /\ kernel' = kernel
    BY Zenon DEF Die
  <2>5. QED
    BY <1>1, <1>2, <2>1, <2>2, <2>3, <2>4, TypedNext, Zenon
<1>5. DescriptorsOfList' /\ EnabledListed' /\ KernelInv'
  <2>1. ~At("list")'
    BY <1>2, SMT DEF At
  <2>2. \A k \in Keys : fds'[k] = {}
    BY Zenon DEF Die
  <2>3. DescriptorsOfList'
    <3>1. \A i, j \in DOMAIN exported_pwms' : exported_pwms'[i] = exported_pwms'[j] => i = j
      BY <1>3, SMT
    <3>2. QED
      BY <1>3, <2>1, <2>2, <3>1, Zenon DEF DescriptorsOfList
  <2>4. EnabledListed' /\ KernelInv'
    BY Zenon DEF Die, EnabledListed, PwmInv, KernelInv
  <2>5. QED
    BY <2>3, <2>4
<1>6. FnInv' /\ Listed' /\ PhaseInv' /\ StartRepairs'
  BY <1>2, SMT DEF FnInv, Listed, PhaseInv, StartRepairs, At, Setup, Working, Changing, Finishing
<1>7. AgreeInv'
  BY Zenon DEF Die, AgreeInv
<1>8. QED
  BY <1>4, <1>5, <1>6, <1>7 DEF PwmInv, Accounts

LEMMA CrashStep == PwmInv /\ Crash => PwmInv'
<1> SUFFICES ASSUME PwmInv, Crash PROVE PwmInv'
  OBVIOUS
<1>1. crashes' \in 0 .. MaxCrashes
  BY Typed, PwmAssumption, SMT DEF Crash, PwmInv, Accounts
<1>2. QED
  BY <1>1, DieStep, Zenon DEF Crash

\* a channel is closed, or reading the freed key ends the process
LEMMA CloseChannelStep == PwmInv /\ CloseChannel => PwmInv'
<1> SUFFICES ASSUME PwmInv, CloseChannel PROVE PwmInv'
  OBVIOUS
<1>1. crashes' = crashes /\ crashes \in 0 .. MaxCrashes
  BY Typed, Zenon DEF CloseChannel, PwmInv, Accounts
<1>2. QED
  BY <1>1, CloseNodeStep, DieStep, Zenon DEF CloseChannel

LEMMA PwmStep == PwmInv /\ [Next]_vars => PwmInv'
<1> SUFFICES ASSUME PwmInv, [Next]_vars PROVE PwmInv'
  OBVIOUS
<1>1. CASE Library
  BY <1>1, SetupPathStep, SetupOpenStep, SetupListStep, ReadPeriodStep, ReadDutyStep,
     WriteDutyDownStep, WritePeriodDownStep, WritePeriodUpStep, WriteDutyUpStep, WriteDutyStep,
     ReadEnableStep, DisableFirstStep, WritePolarityStep, ReenableStep, WriteEnableStep,
     WriteDisableStep, CloseChannelStep, CleanupLoopStep DEF Library
<1>2. CASE Caller
  <2>1. ASSUME NEW s \in Settings, CallSetFrequency(s.key, s.period) PROVE PwmInv'
    <3>1. s.key \in Keys /\ s.period \in Nat
      BY PwmAssumption, SMT
    <3>2. QED
      BY <2>1, <3>1, CallSetFrequencyStep
  <2>2. QED
    BY <1>2, <2>1, StartStep, CallSetDutyCycleStep, StopStep, CallCleanupStep DEF Caller
<1>3. CASE Crash
  BY <1>3, CrashStep
<1>4. CASE UNCHANGED vars
  <2>1. Typing' /\ DescriptorsOfList' /\ EnabledListed'
    BY <1>4, Zenon DEF PwmInv, Accounts, Typing, DescriptorsOfList, EnabledListed, vars,
       lookup_exported_pwm, At, Own
  <2>2. FnInv' /\ KernelInv'
    BY <1>4, Zenon DEF PwmInv, FnInv, KernelInv, vars, At
  <2>3. Listed'
    BY <1>4, Zenon DEF PwmInv, Listed, vars, lookup_exported_pwm, At, Own
  <2>4. PhaseInv'
    BY <1>4, Zenon DEF PwmInv, PhaseInv, ChangingInv, FinishingInv, vars, At, Own, Mine, Trusted
  <2>5. AgreeInv' /\ StartRepairs'
    BY <1>4, Zenon DEF PwmInv, AgreeInv, Agreed, Untouched, StartRepairs, vars, At, Own, Mine
  <2>6. QED
    BY <2>1, <2>2, <2>3, <2>4, <2>5 DEF PwmInv, Accounts
<1>5. QED
  BY <1>1, <1>2, <1>3, <1>4 DEF Next

(* The inductive invariant holds: in every state, in and between the calls,  *)
(* a call knows what the kernel has of its channel unless a failure came     *)
(* between.                                                                  *)
THEOREM PwmInvariant == Spec => []PwmInv
  BY PwmInit, PwmStep, PTL DEF Spec

(* The list accounts for all descriptors and all running outputs, whichever  *)
(* file operation fails and wherever the process dies.                       *)
THEOREM BookkeepingCorrect == Spec => []Bookkeeping
<1> DEFINE Version == strict \in BOOLEAN
<1>1. Init => Version
  BY DEF Init
<1>2. Version /\ [Next]_vars => Version'
  BY DEF Next, vars
<1>3. PwmInv /\ Version => Bookkeeping
  BY DEF PwmInv, Accounts, Typing, Bookkeeping, TypeOK, NodeType, ChannelType, CallType
<1> HIDE DEF Version
<1>4. QED
  BY <1>1, <1>2, <1>3, PwmInvariant, PTL DEF Spec

(* start() leaves the channel as it was asked for, from whatever it found.   *)
THEOREM StartCorrect == Spec => []StartRepairs
<1>1. PwmInv => StartRepairs
  BY DEF PwmInv
<1>2. QED
  BY <1>1, PwmInvariant, PTL

(* Between two calls the cache is the kernel's, as long as no call failed.   *)
THEOREM CacheCorrect == Spec => []CacheAgrees
<1>1. PwmInv => CacheAgrees
  <2> SUFFICES ASSUME PwmInv, At("idle"), NEW k \in Keys \ stale
               PROVE  /\ kernel[k].period = cache[k].period
                      /\ kernel[k].duty = cache[k].duty_ns
                      /\ kernel[k].duty = DutyNs(kernel[k].period, cache[k].duty)
    BY Zenon DEF CacheAgrees
  <2>1. Agreed(k)
    BY Idle, Zenon
  <2>2. QED
    BY <2>1, Zenon DEF Agreed
<1>2. QED
  BY <1>1, PwmInvariant, PTL

(* The order of the writes is one the kernel accepts: it holds because the   *)
(* cache is the kernel's (AgreeInv, PhaseInv) and a duty cycle of at most    *)
(* 100 percent is at most the period.                                        *)
THEOREM WritesAccepted == Spec => []NeverRefused
<1>1. PwmInv => NeverRefused
  <2> SUFFICES ASSUME PwmInv, Trusted, call.fn \in {"start", "set_frequency"} => call.period > 0
               PROVE  /\ At("dutyDown") \/ At("dutyUp") => WriteAccepted("duty", Mine.duty_ns)
                      /\ At("periodDown") \/ At("periodUp") => WriteAccepted("period", call.period)
                      /\ At("duty") => WriteAccepted("duty", DutyNs(Mine.period, call.duty))
                      /\ At("disableFirst") => WriteAccepted("enable", FALSE)
                      /\ At("polarity") => WriteAccepted("polarity", call.polarity)
                      /\ At("reenable") \/ At("enable") => WriteAccepted("enable", TRUE)
    BY Zenon DEF NeverRefused, Trusted
  <2>1. /\ call \in CallType /\ Own \in Keys /\ cache \in [Keys -> NodeType]
        /\ kernel \in [Keys -> ChannelType]
    BY Typed, SMT DEF PwmInv, Accounts, CallType, Own
  <2>2. /\ call.period \in Nat /\ call.duty \in 0 .. 100 /\ Mine.period \in Nat /\ Mine.duty \in Nat
        /\ Mine.duty_ns \in Nat /\ kernel[Own].period \in Nat /\ kernel[Own].duty \in Nat
        /\ kernel[Own].duty <= kernel[Own].period
    BY <2>1, SMT DEF CallType, NodeType, ChannelType, Mine, Own, PwmInv, KernelInv
  <2>3. call.pc \in Changing => ChangingInv /\ call.fn \in {"start", "set_frequency"}
    BY Zenon DEF PwmInv, PhaseInv, FnInv
  <2>4. At("dutyDown") \/ At("dutyUp") => WriteAccepted("duty", Mine.duty_ns)
    <3> SUFFICES ASSUME At("dutyDown") \/ At("dutyUp") PROVE WriteAccepted("duty", Mine.duty_ns)
      OBVIOUS
    <3>1. /\ ChangingInv /\ call.fn \in {"start", "set_frequency"}
          /\ ~At("periodUp")
      BY <2>3, SMT DEF At, Changing
    <3>2. /\ Mine.duty_ns = DutyNs(call.period, Mine.duty) /\ Mine.duty \in 0 .. 100
          /\ call.period <= kernel[Own].period /\ call.period > 0
      BY <2>2, <3>1, SMT DEF ChangingInv
    <3>3. Mine.duty_ns <= call.period
      BY <2>2, <3>2, DutyNsBounded, Zenon
    <3>4. QED
      BY <2>2, <3>2, <3>3, SMT DEF WriteAccepted, Accepts
  <2>5. At("periodDown") \/ At("periodUp") => WriteAccepted("period", call.period)
    <3> SUFFICES ASSUME At("periodDown") \/ At("periodUp")
                 PROVE  WriteAccepted("period", call.period)
      OBVIOUS
    <3>1. ChangingInv /\ call.period > 0
      BY <2>3, SMT DEF At, Changing
    <3>2. CASE At("periodDown")
      <4>1. /\ kernel[Own].duty = DutyNs(call.period, Mine.duty) /\ Mine.duty \in 0 .. 100
        BY <2>2, <3>1, <3>2, SMT DEF ChangingInv, At
      <4>2. kernel[Own].duty <= call.period
        BY <2>2, <4>1, DutyNsBounded, Zenon
      <4>3. QED
        BY <3>1, <4>2, SMT DEF WriteAccepted, Accepts
    <3>3. CASE At("periodUp")
      BY <2>2, <3>1, <3>3, SMT DEF ChangingInv, At, WriteAccepted, Accepts
    <3>4. QED
      BY <3>2, <3>3
  <2>6. At("duty") => WriteAccepted("duty", DutyNs(Mine.period, call.duty))
    <3> SUFFICES ASSUME At("duty") PROVE WriteAccepted("duty", DutyNs(Mine.period, call.duty))
      OBVIOUS
    <3>1. Mine.period = kernel[Own].period /\ kernel[Own].period > 0
      <4>1. CASE call.fn = "start"
        BY <4>1, SMT DEF PwmInv, PhaseInv
      <4>2. CASE call.fn # "start"
        <5>1. call.fn = "set_duty_cycle" /\ Own \notin stale
          BY <4>2, Zenon DEF PwmInv, FnInv, Trusted
        <5>2. Agreed(Own)
          BY <2>1, <5>1, Zenon DEF PwmInv, AgreeInv, Untouched
        <5>3. QED
          BY <5>2, SMT DEF Agreed, Mine, Own
      <4>3. QED
        BY <4>1, <4>2
    <3>2. DutyNs(Mine.period, call.duty) <= Mine.period
      BY <2>2, DutyNsBounded, Zenon
    <3>3. QED
      BY <3>1, <3>2, SMT DEF WriteAccepted, Accepts
  <2>7. At("polarity") => WriteAccepted("polarity", call.polarity)
    <3> SUFFICES ASSUME At("polarity") PROVE WriteAccepted("polarity", call.polarity)
      OBVIOUS
    <3>1. call.pc \in Finishing
      BY SMT DEF At, Finishing
    <3>2. kernel[Own].enabled = FALSE
      BY <3>1, Zenon DEF PwmInv, PhaseInv, FinishingInv
    <3>3. kernel[Own].period > 0
      BY <3>1, SMT DEF PwmInv, PhaseInv, FinishingInv
    <3>4. "polarity" # "period" /\ "polarity" # "duty"
      OBVIOUS
    <3>5. QED
      BY <3>2, <3>3, <3>4, Zenon DEF WriteAccepted, Accepts
  <2>8. At("reenable") \/ At("enable") => WriteAccepted("enable", TRUE)
    <3> SUFFICES ASSUME At("reenable") \/ At("enable") PROVE WriteAccepted("enable", TRUE)
      OBVIOUS
    <3>1. call.pc \in Finishing
      BY SMT DEF At, Finishing
    <3>2. kernel[Own].period > 0
      BY <3>1, SMT DEF PwmInv, PhaseInv, FinishingInv
    <3>3. QED
      BY <3>2, SMT DEF WriteAccepted, Accepts
  <2>9. At("disableFirst") => WriteAccepted("enable", FALSE)
    <3> SUFFICES ASSUME At("disableFirst") PROVE WriteAccepted("enable", FALSE)
      OBVIOUS
    <3>1. call.pc \in Finishing
      BY SMT DEF At, Finishing
    <3>2. kernel[Own].period > 0
      BY <3>1, SMT DEF PwmInv, PhaseInv, FinishingInv
    <3>3. QED
      BY <3>2, SMT DEF WriteAccepted, Accepts
  <2>10. QED
    BY <2>4, <2>5, <2>6, <2>7, <2>8, <2>9
<1>2. QED
  BY <1>1, PwmInvariant, PTL

=============================================================================
