--------------------------- MODULE Refrigeration ---------------------------
(***************************************************************************)
(* The fan and the two compressors of the water maker.                     *)
(*                                                                         *)
(* The core thread runs alarm_acl_exe, req_execution and oc_update every   *)
(* 500 ms.  The bkg thread runs sys_comp_cooldown and then                 *)
(* sys_running_mode_update every second.  Both work on the same l_sys and  *)
(* g_sys words without a lock.  Core has the higher priority, so a whole   *)
(* core tick may fall between any two memory accesses of bkg, never the    *)
(* other way round: CoreTick is one action, while each countdown of bkg    *)
(* takes three: project.uvprojx builds at -O0 and l_sys is not volatile, so *)
(* "if (x > 0) x--; else x = 0;" reads x for the test, reads it again for  *)
(* the decrement, and stores.                                              *)
(*                                                                         *)
(* Inputs that other components decide are chosen afresh at each tick: the *)
(* active alarms, the verdict of Sys_Fan_CP_WL (closed) and the frost      *)
(* status bits.  Manual and test mode are off.                             *)
(***************************************************************************)
EXTENDS Integers

CONSTANTS
  StartDelay,      \* ComPara.u16Start_Delay
  FanStopDelay,    \* ComPara.u16Fan_Stop_Delay
  CompInterval,    \* ComPara.u16Comp_Interval
  StartupDelay,    \* compressor.startup_delay
  LowPressShield,  \* compressor.startup_lowpress_shield
  MinRuntime,      \* compressor.min_runtime
  StopDelay,       \* compressor.stop_delay
  TimerMod,        \* 2^16: the countdowns are uint16_t
  AlarmBypass,     \* general.alarm_bypass_en
  AlarmIds,        \* the alarms that may become active
  FrostIds         \* the compressors that may frost over

ASSUME TimerAssumption == TimerMod \in Nat \ {0}

TimerVal == 0..(TimerMod - 1)

ASSUME DelayAssumption ==
  /\ StartDelay \in TimerVal /\ FanStopDelay \in TimerVal
  /\ StartupDelay \in TimerVal /\ LowPressShield \in TimerVal
  /\ MinRuntime \in TimerVal /\ StopDelay \in TimerVal

ASSUME IntervalAssumption == CompInterval \in TimerVal \ {0}

ASSUME BypassAssumption == AlarmBypass \in BOOLEAN

Comp == {"comp1", "comp2"}

ASSUME FrostAssumption == FrostIds \subseteq Comp

Device == Comp \cup {"fan"}
Timer == Device \cup {"startup", "stop"}

FanStates == {"IDLE", "INIT", "START_UP", "NORM", "SHUT"}
CompStates == {"IDLE", "INIT", "STARTUP", "NORMAL", "SHUTING", "STOP"}
FanSignals == {"SIG_IDLE", "SIG_START", "SIG_STOP"}
CompSignals == {"SIG_ON", "SIG_OFF", "SIG_ERR"}

VARIABLES
  fanFsm,    \* l_fsm_state[FAN_FSM_STATE]
  compFsm,   \* l_fsm_state[COMPRESS1_FSM_STATE], [COMPRESS2_FSM_STATE]
  sigFsm,    \* l_fsm_state[COMPRESS_SIG_FSM_STATE]
  timer,     \* comp_timeout[] of the devices, comp_startup_interval, comp_stop_interval
  req,       \* bitmap[][BITMAP_REQ]
  alarms,    \* status.alarm_bitmap, the alarms this component reads
  closed,    \* Fan_Close # 0; Comp_Close[0] and Comp_Close[1] always equal it
  frost,     \* the compressors whose DEFROSTn_STS bit is set
  beat,      \* alternates with every core period
  dout,      \* ComSta.u16Dout_bitmap: what the relays are driven with
  pwrSts,    \* PWR_STS bit of the work mode status word
  fanSts,    \* FAN_STS bit of the work mode status word
  bkgPc,     \* 0: bkg asleep; k: at the k-th countdown; 6: at the mode update
  bkgAt,     \* what bkg does next to that countdown
  bkgReg     \* the value bkg has read and will decrement

coreVars == <<fanFsm, compFsm, sigFsm, req, alarms, closed, frost, beat, dout>>
bkgVars == <<bkgPc, bkgAt, bkgReg>>
vars == <<coreVars, timer, pwrSts, fanSts, bkgVars>>

----------------------------------------------------------------------------
(* Alarm masks and the fan.                                                *)

\* The outputs alarm_arbiration forces off: E7 (fan) and E9 (filter) close
\* everything, HI_PRESS1 closes compressor 1.
Mask(a) ==
  (IF a \cap {"E7", "E9"} # {} THEN Device ELSE {})
    \cup (IF "HI_PRESS1" \in a THEN {"comp1"} ELSE {})

\* Faulty variant: the fan is told to stop while a compressor is driven.
FanSignalNoInterlock(cls) == IF pwrSts /\ ~cls THEN "SIG_START" ELSE "SIG_STOP"

\* Faulty variant: the fan is never told to stop.
FanSignalNoStop(cls) == IF pwrSts /\ ~cls THEN "SIG_START" ELSE "SIG_IDLE"

\* fan_signal_gen.
FanSignal(cls) ==
  IF pwrSts /\ ~cls THEN "SIG_START"
  ELSE IF \A c \in Comp : ~dout[c] THEN "SIG_STOP"
  ELSE "SIG_IDLE"

\* One pass of the fan state machine.  Fan_Gear is "on" in the result; it is
\* NO or LOW, and Fan_Fsm_Out copies it to the request bit.
FanStep(st, t, sig) ==
  CASE st = "IDLE" /\ sig = "SIG_START" -> [st |-> "INIT", t |-> StartDelay, on |-> FALSE]
    [] st = "IDLE" /\ sig # "SIG_START" -> [st |-> "IDLE", t |-> t, on |-> FALSE]
    [] st = "INIT" /\ sig # "SIG_START" -> [st |-> "IDLE", t |-> t, on |-> FALSE]
    [] st = "INIT" /\ sig = "SIG_START" /\ t = 0 -> [st |-> "START_UP", t |-> 0, on |-> TRUE]
    [] st = "INIT" /\ sig = "SIG_START" /\ t # 0 -> [st |-> "INIT", t |-> t, on |-> FALSE]
    [] st = "START_UP" -> [st |-> IF t = 0 THEN "NORM" ELSE "START_UP", t |-> t, on |-> TRUE]
    [] st = "NORM" /\ sig = "SIG_STOP" /\ t = 0 -> [st |-> "SHUT", t |-> FanStopDelay, on |-> TRUE]
    [] st = "NORM" /\ ~(sig = "SIG_STOP" /\ t = 0) -> [st |-> "NORM", t |-> t, on |-> TRUE]
    [] st = "SHUT" /\ sig = "SIG_START" -> [st |-> "NORM", t |-> t, on |-> TRUE]
    [] st = "SHUT" /\ sig # "SIG_START" /\ t = 0 -> [st |-> "IDLE", t |-> t, on |-> FALSE]
    [] st = "SHUT" /\ sig # "SIG_START" /\ t # 0 -> [st |-> "SHUT", t |-> t, on |-> TRUE]

\* Faulty variant: neither E7 nor a new delay is written to the countdown.
FanReqUnarmed(a, cls) ==
  [FanStep(fanFsm, timer["fan"], FanSignal(cls)) EXCEPT !.t = timer["fan"]]

\* fan_req_exe: an E7 alarm first throws the machine back to IDLE.
FanReq(a, cls) ==
  IF "E7" \in a THEN FanStep("IDLE", 0, FanSignal(cls))
                ELSE FanStep(fanFsm, timer["fan"], FanSignal(cls))

----------------------------------------------------------------------------
(* The compressors.                                                        *)

\* A running request that the alarm mask holds down (comp1_alarm_flag).
AlarmFlag(a, c) == ~AlarmBypass /\ req[c] /\ c \in Mask(a)

BlockBoth(a, ice) ==
  \/ a \cap {"E1", "E2"} # {}
  \/ \A c \in Comp : AlarmFlag(a, c)
  \/ ice = Comp

\* What makes one compressor pause while the other may run; compressor 1 is
\* looked at first and hides compressor 2.
Paused(a, ice) ==
  IF AlarmFlag(a, "comp1") \/ "comp1" \in ice THEN {"comp1"}
  ELSE IF AlarmFlag(a, "comp2") \/ "comp2" \in ice THEN {"comp2"}
  ELSE {}

\* Faulty variant: the emergency shutdown of a disabled fan is forgotten.
SignalGenNoShutdown(a, cls, ice) ==
  LET all(s) == [c \in Comp |-> s] IN
  IF ~pwrSts \/ cls \/ ~fanSts THEN [fsm |-> 0, sig |-> all("SIG_OFF")]
  ELSE IF BlockBoth(a, ice) THEN [fsm |-> 0, sig |-> all("SIG_OFF")]
  ELSE [fsm |-> 1, sig |-> all(IF sigFsm = 1 THEN "SIG_ON" ELSE "SIG_OFF")]

\* compressor_signal_gen, for the two compressors this build reports.
SignalGen(a, cls, ice) ==
  LET all(s) == [c \in Comp |-> s] IN
  CASE ~dout["fan"] -> [fsm |-> 0, sig |-> all("SIG_ERR")]
    [] dout["fan"] /\ (~pwrSts \/ cls \/ ~fanSts) -> [fsm |-> 0, sig |-> all("SIG_OFF")]
    [] dout["fan"] /\ pwrSts /\ ~cls /\ fanSts /\ sigFsm = 0 ->
         [fsm |-> IF BlockBoth(a, ice) THEN 0 ELSE 1, sig |-> all("SIG_OFF")]
    [] dout["fan"] /\ pwrSts /\ ~cls /\ fanSts /\ sigFsm = 1 ->
         IF BlockBoth(a, ice)
           THEN [fsm |-> 0, sig |-> all("SIG_ON")]
           ELSE [fsm |-> 1,
                 sig |-> [c \in Comp |-> IF c \in Paused(a, ice) THEN "SIG_OFF" ELSE "SIG_ON"]]

\* compressor_alarm_signal_gen: a masked compressor is told to stop, and a
\* machine that is neither stopping nor idle is put into STOP.
AlarmSignal(a, c, sig) == IF c \in Mask(a) THEN "SIG_OFF" ELSE sig

AlarmState(a, c, st) ==
  IF c \in Mask(a) /\ st \notin {"STOP", "IDLE"} THEN "STOP" ELSE st

\* Faulty variant: the request bit survives the stop.
CompStopKeepsRequest(s) ==
  IF s.stop = 0 THEN [s EXCEPT !.st = "IDLE", !.t = StartDelay, !.stop = CompInterval] ELSE s

\* Faulty variant: the stop interval is not armed against the other one.
CompStopUnstaggered(s) ==
  IF s.stop = 0 THEN [s EXCEPT !.st = "IDLE", !.t = StartDelay, !.on = FALSE] ELSE s

\* Faulty variant: the restart delay is not armed.
CompStopNoRest(s) ==
  IF s.stop = 0 THEN [s EXCEPT !.st = "IDLE", !.on = FALSE, !.stop = CompInterval] ELSE s

\* The STOP state of compressor_fsm: the request is only dropped when the
\* other compressor's stop is comp_stop_interval ago.
CompStop(s) ==
  IF s.stop = 0
    THEN [s EXCEPT !.st = "IDLE", !.t = StartDelay, !.on = FALSE, !.stop = CompInterval]
    ELSE s

\* One pass of compressor_fsm on [st, t, on, startup, stop]: the state, the
\* time out and the request of the compressor, and the two shared intervals.
CompStep(s, sig) ==
  CASE s.st = "IDLE" ->
         IF sig = "SIG_ON" /\ s.t = 0
           THEN [s EXCEPT !.st = "INIT", !.t = StartupDelay, !.on = FALSE]
           ELSE [s EXCEPT !.on = FALSE]
    [] s.st = "INIT" ->
         IF sig # "SIG_ON" THEN [s EXCEPT !.st = "IDLE", !.t = 0, !.on = FALSE]
         ELSE IF s.t = 0 /\ s.startup = 0
           THEN [s EXCEPT !.st = "STARTUP", !.t = LowPressShield, !.on = TRUE,
                          !.startup = CompInterval]
           ELSE [s EXCEPT !.on = FALSE]
    [] s.st = "STARTUP" ->
         IF sig = "SIG_ERR" THEN [s EXCEPT !.st = "STOP"]
         ELSE IF s.t = 0
           THEN [s EXCEPT !.st = "NORMAL", !.on = TRUE,
                          !.t = IF MinRuntime > LowPressShield
                                  THEN MinRuntime - LowPressShield ELSE 0]
           ELSE [s EXCEPT !.on = TRUE]
    [] s.st = "NORMAL" ->
         IF sig = "SIG_ERR" THEN [s EXCEPT !.st = "STOP"]
         ELSE IF sig = "SIG_OFF" /\ s.t = 0
           THEN [s EXCEPT !.st = "SHUTING", !.t = StopDelay, !.on = TRUE]
           ELSE [s EXCEPT !.on = TRUE]
    [] s.st = "SHUTING" ->
         IF sig = "SIG_ERR" \/ (sig = "SIG_OFF" /\ s.t = 0) THEN [s EXCEPT !.st = "STOP"]
         ELSE IF sig = "SIG_ON" THEN [s EXCEPT !.st = "NORMAL", !.t = 0, !.on = TRUE]
         ELSE [s EXCEPT !.on = TRUE]
    [] s.st = "STOP" -> CompStop(s)

\* The state compressor c's machine starts from in this tick, given the
\* shared intervals left by the one that ran before it.
CompInput(a, c, startup, stop) ==
  [st |-> AlarmState(a, c, compFsm[c]), t |-> timer[c], on |-> req[c],
   startup |-> startup, stop |-> stop]

----------------------------------------------------------------------------
(* The core thread.                                                        *)

\* oc_arbitration and oc_do_update with manual and test mode off.
Arbitrate(a, r) == [d \in Device |-> r[d] /\ (AlarmBypass \/ d \notin Mask(a))]

\* What a tick writes: the results f, g, c1 and c2 of the fan machine, the
\* signal generator and the two compressor machines, and then the outputs.
CoreWrite(a, cls, ice, f, g, c1, c2) ==
  /\ alarms' = a
  /\ closed' = cls
  /\ frost' = ice
  /\ beat' = 1 - beat
  /\ fanFsm' = f.st
  /\ sigFsm' = g.fsm
  /\ compFsm' = [c \in Comp |-> IF c = "comp1" THEN c1.st ELSE c2.st]
  /\ req' = [d \in Device |-> CASE d = "fan" -> f.on
                                [] d = "comp1" -> c1.on
                                [] d = "comp2" -> c2.on]
  /\ timer' = [k \in Timer |-> CASE k = "fan" -> f.t
                                 [] k = "comp1" -> c1.t
                                 [] k = "comp2" -> c2.t
                                 [] k = "startup" -> c2.startup
                                 [] k = "stop" -> c2.stop]
  /\ dout' = Arbitrate(a, req')
  /\ UNCHANGED <<pwrSts, fanSts, bkgVars>>

\* One 500 ms period of the core thread: alarms, fan, signal generation,
\* compressor 1, compressor 2, outputs.  Each step works on the result of the
\* one before, named by a quantifier over a singleton.
CoreTick ==
  \E a \in SUBSET AlarmIds, cls \in BOOLEAN, ice \in SUBSET FrostIds :
  \E f \in {FanReq(a, cls)}, g \in {SignalGen(a, cls, ice)} :
  \E c1 \in {CompStep(CompInput(a, "comp1", timer["startup"], timer["stop"]),
                      AlarmSignal(a, "comp1", g.sig["comp1"]))} :
  \E c2 \in {CompStep(CompInput(a, "comp2", c1.startup, c1.stop),
                      AlarmSignal(a, "comp2", g.sig["comp2"]))} :
    CoreWrite(a, cls, ice, f, g, c1, c2)

----------------------------------------------------------------------------
(* The bkg thread.                                                         *)

\* Faulty variants: one of the shared intervals is never counted down.
TimerOrderNoStartup == <<"comp1", "comp2", "fan", "stop", "stop">>

TimerOrderNoStop == <<"comp1", "comp2", "fan", "startup", "startup">>

\* The order in which sys_comp_cooldown visits the countdowns.
TimerOrder == <<"comp1", "comp2", "fan", "startup", "stop">>

BkgWake ==
  /\ bkgPc = 0
  /\ bkgPc' = 1
  /\ bkgAt' = "test"
  /\ UNCHANGED <<coreVars, timer, pwrSts, fanSts, bkgReg>>

\* The body of sys_comp_cooldown for one countdown: test it ...
BkgTest ==
  /\ bkgAt = "test"
  /\ bkgAt' = IF timer[TimerOrder[bkgPc]] > 0 THEN "load" ELSE "clear"
  /\ UNCHANGED <<coreVars, timer, pwrSts, fanSts, bkgPc, bkgReg>>

\* ... read it again ...
BkgLoad ==
  /\ bkgAt = "load"
  /\ bkgReg' = timer[TimerOrder[bkgPc]]
  /\ bkgAt' = "store"
  /\ UNCHANGED <<coreVars, timer, pwrSts, fanSts, bkgPc>>

\* Go on to the next countdown, or to the mode update after the last.
BkgAdvance ==
  /\ bkgPc' = bkgPc + 1
  /\ bkgAt' = IF bkgPc = 5 THEN "mode" ELSE "test"
  /\ bkgReg' = 0

\* Faulty variant: the 16 bit store is not reduced to its width.
BkgStoreWide ==
  /\ bkgAt = "store"
  /\ timer' = [timer EXCEPT ![TimerOrder[bkgPc]] = bkgReg - 1]
  /\ BkgAdvance
  /\ UNCHANGED <<coreVars, pwrSts, fanSts>>

\* ... and store it decremented, whatever core has done to it since.
BkgStore ==
  /\ bkgAt = "store"
  /\ timer' = [timer EXCEPT ![TimerOrder[bkgPc]] = (bkgReg - 1) % TimerMod]
  /\ BkgAdvance
  /\ UNCHANGED <<coreVars, pwrSts, fanSts>>

\* The else branch stores a zero.
BkgClear ==
  /\ bkgAt = "clear"
  /\ timer' = [timer EXCEPT ![TimerOrder[bkgPc]] = 0]
  /\ BkgAdvance
  /\ UNCHANGED <<coreVars, pwrSts, fanSts>>

\* sys_running_mode_update: the power signal is an input here.
BkgModeUpdate ==
  /\ bkgAt = "mode"
  /\ pwrSts' \in BOOLEAN
  /\ fanSts' = dout["fan"]
  /\ bkgPc' = 0
  /\ bkgAt' = "asleep"
  /\ UNCHANGED <<coreVars, timer, bkgReg>>

Bkg == BkgWake \/ BkgTest \/ BkgLoad \/ BkgStore \/ BkgClear \/ BkgModeUpdate

----------------------------------------------------------------------------
Init ==
  /\ fanFsm = "IDLE"
  /\ compFsm = [c \in Comp |-> "IDLE"]
  /\ sigFsm = 0
  /\ timer = [k \in Timer |-> 0]
  /\ req = [d \in Device |-> FALSE]
  /\ alarms = {}
  /\ closed = FALSE
  /\ frost = {}
  /\ beat = 0
  /\ dout = [d \in Device |-> FALSE]
  /\ pwrSts = FALSE
  /\ fanSts = FALSE
  /\ bkgPc = 0
  /\ bkgAt = "asleep"
  /\ bkgReg = 0

Next == CoreTick \/ Bkg

Spec == Init /\ [][Next]_vars

\* Both threads are endless loops around a delay, and neither keeps the
\* processor from the other for ever: each goes round its loop infinitely
\* often.  CoreTick and Bkg are always enabled, so this is their weak fairness.
FairSpec ==
  /\ Spec
  /\ []<>(beat = 0) /\ []<>(beat = 1)
  /\ []<>(bkgPc = 0) /\ []<>(bkgPc = 6)

----------------------------------------------------------------------------
(* Properties.                                                             *)

\* Every variable stays within its type.
TypeOK ==
  /\ fanFsm \in FanStates
  /\ compFsm \in [Comp -> CompStates]
  /\ sigFsm \in {0, 1}
  /\ timer \in [Timer -> TimerVal]
  /\ req \in [Device -> BOOLEAN]
  /\ alarms \in SUBSET AlarmIds
  /\ closed \in BOOLEAN
  /\ frost \in SUBSET Comp
  /\ beat \in {0, 1}
  /\ dout \in [Device -> BOOLEAN]
  /\ pwrSts \in BOOLEAN
  /\ fanSts \in BOOLEAN
  /\ bkgReg \in TimerVal
  /\ \/ bkgPc = 0 /\ bkgAt = "asleep"
     \/ bkgPc \in 1..5 /\ bkgAt \in {"test", "load", "store", "clear"}
     \/ bkgPc = 6 /\ bkgAt = "mode"

Running == {"STARTUP", "NORMAL", "SHUTING"}
FanRunning == {"START_UP", "NORM", "SHUT"}

\* The request bits say what the state machines mean.
RequestFollowsFsm ==
  /\ \A c \in Comp :
       /\ compFsm[c] \in {"IDLE", "INIT"} => ~req[c]
       /\ compFsm[c] \in Running => req[c]
  /\ req["fan"] <=> fanFsm \in FanRunning

\* The three state machines, which only see each other through the outputs of
\* the previous tick, never disagree: only what is requested is driven, a
\* running compressor is driven (a masked one has been put into STOP), and
\* the fan only shuts down when no compressor runs (fan_signal_gen,
\* compressor_alarm_signal_gen, compressor_fsm, oc_arbitration).
MachinesAgree ==
  /\ RequestFollowsFsm
  /\ \A d \in Device : dout[d] => req[d]
  /\ \A c \in Comp : compFsm[c] \in Running => dout[c]
  /\ fanFsm = "SHUT" => \A c \in Comp : compFsm[c] \notin Running

\* A compressor is driven without the fan only while its machine waits in
\* STOP for comp_stop_interval to elapse; in no other state is the cooling
\* circuit ever without air flow.
NoAirflowOnlyInStop ==
  \A c \in Comp : dout[c] /\ ~dout["fan"] => compFsm[c] = "STOP"

\* A compressor is only started with the power on, nothing closing it, no
\* mask on it, and the fan driven both before and after the tick, and the
\* two are never started in the same tick (compressor_fsm, INIT).
StartStep ==
  \A c \in Comp :
    ~req[c] /\ req'[c] =>
      /\ pwrSts /\ ~closed'
      /\ dout["fan"] /\ dout'["fan"]
      /\ c \notin Mask(alarms')
      /\ \A d \in Comp \ {c} : ~req[d] => ~req'[d]
      /\ timer'["startup"] = CompInterval

SafeStart == [][StartStep]_vars

\* The two compressors are never released in the same tick: the first one to
\* leave STOP arms comp_stop_interval against the other.
StopStep ==
  \A c, d \in Comp : req[c] /\ ~req'[c] /\ req[d] /\ ~req'[d] => c = d

StaggeredStop == [][StopStep]_vars

\* Once the power stays off, the compressors and then the fan come to rest.
PowerOffStops ==
  <>[](~pwrSts) => <>[](\A d \in Device : ~dout[d])

\* Once the power stays on with nothing closing or masking the machine, both
\* compressors end up running, whatever bkg's stale stores do to the timers.
PowerOnRuns ==
  <>[](pwrSts /\ ~closed /\ alarms = {} /\ frost = {}) => <>[](\A d \in Device : dout[d])

\* What the comment "fan disabled, emergency shutdown" in
\* compressor_signal_gen promises: no compressor is driven while the fan is
\* not.  It does not hold, see README.md.
FanOffCompsOff == \A c \in Comp : dout[c] => dout["fan"]

\* A compressor driven without the fan is eventually released.
AirflowRestored ==
  \A c \in Comp : []<>(dout[c] => dout["fan"])
=============================================================================
