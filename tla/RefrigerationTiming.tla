------------------------ MODULE RefrigerationTiming ------------------------
(***************************************************************************)
(* How long the delays of the fan and the compressors really last.         *)
(*                                                                         *)
(* The countdowns are armed by core and counted down by bkg, which reads   *)
(* and writes each of them in separate steps, so bkg may overwrite a value *)
(* core has armed in between.  History variables that no action of         *)
(* Refrigeration depends on count bkg's passes since a delay began and     *)
(* record whether such an overwrite hit it.                                *)
(***************************************************************************)
EXTENDS Refrigeration

Larger(m, n) == IF m > n THEN m ELSE n

\* The longest delay countdown k is used for; the pass counters stop there.
Longest(k) ==
  CASE k = "fan" -> Larger(StartDelay, FanStopDelay)
    [] k \in Comp -> Larger(StartDelay, Larger(MinRuntime, LowPressShield))
    [] k \in {"startup", "stop"} -> CompInterval

VARIABLES
  age,    \* bkg's passes over countdown k since the delay it counts began
  raced,  \* the countdowns bkg has overwritten since their delay began
  stale   \* core has changed the countdown that bkg has read and will store

tvars == <<vars, age, raced, stale>>

----------------------------------------------------------------------------
Started(c) == compFsm[c] # "STARTUP" /\ compFsm'[c] = "STARTUP"

\* Compressor c has gone through STOP, possibly put there in this tick.
Released(c) == AlarmState(alarms', c, compFsm[c]) = "STOP" /\ compFsm'[c] = "IDLE"

\* The delays a core tick begins: the fan's start and stop delay, a
\* compressor's rest and its run, the intervals between starts and stops.
Begins ==
  (IF \/ fanFsm' = "INIT" /\ (fanFsm # "INIT" \/ "E7" \in alarms')
      \/ fanFsm' = "SHUT" /\ fanFsm # "SHUT"
     THEN {"fan"} ELSE {})
    \cup {c \in Comp : Started(c) \/ Released(c)}
    \cup (IF \E c \in Comp : Started(c) THEN {"startup"} ELSE {})
    \cup (IF \E c \in Comp : Released(c) THEN {"stop"} ELSE {})

TimedCoreTick ==
  /\ CoreTick
  /\ age' = [k \in Timer |-> IF k \in Begins THEN 0 ELSE age[k]]
  /\ raced' = raced \ Begins
  /\ stale' = /\ bkgAt \in {"store", "clear"}
              /\ stale \/ timer'[TimerOrder[bkgPc]] # timer[TimerOrder[bkgPc]]

\* bkg finishes with a countdown: one more pass, and a race if what it wrote
\* came from a value core had replaced.
TimedPass ==
  LET k == TimerOrder[bkgPc] IN
  /\ BkgStore \/ BkgClear
  /\ age' = [age EXCEPT ![k] = IF @ < Longest(k) THEN @ + 1 ELSE @]
  /\ raced' = IF stale THEN raced \cup {k} ELSE raced
  /\ stale' = FALSE

TimedRest ==
  /\ BkgWake \/ BkgTest \/ BkgLoad \/ BkgModeUpdate
  /\ UNCHANGED <<age, raced, stale>>

TimedInit ==
  /\ Init
  /\ age = [k \in Timer |-> Longest(k)]
  /\ raced = {}
  /\ stale = FALSE

TimedNext == TimedCoreTick \/ TimedPass \/ TimedRest

TimedSpec == TimedInit /\ [][TimedNext]_tvars

----------------------------------------------------------------------------
\* The history variables stay within their types.
TimedTypeOK ==
  /\ DOMAIN age = Timer
  /\ \A k \in Timer : age[k] \in 0..Longest(k)
  /\ raced \in SUBSET Timer
  /\ stale \in BOOLEAN

Lasted(k, delay) == age[k] >= delay \/ k \in raced

\* A released compressor rests for u16Start_Delay passes before it is
\* initialised again, and a started one runs for its minimum run time (and
\* the low pressure shield) before it is shut down, unless bkg overwrote the
\* countdown: nothing else, no alarm, abort or order of the threads, cuts
\* these delays short (compressor_fsm, sys_comp_cooldown).
CompDelayStep ==
  \A c \in Comp :
    /\ compFsm[c] = "IDLE" /\ compFsm'[c] = "INIT" => Lasted(c, StartDelay)
    /\ compFsm[c] = "NORMAL" /\ compFsm'[c] = "SHUTING"
         => Lasted(c, MinRuntime) /\ Lasted(c, LowPressShield)

CompDelaysHonoured == [][CompDelayStep]_tvars

\* Two starts, and two stops, are at least u16Comp_Interval passes apart,
\* unless bkg overwrote the interval (compressor_fsm, sys_comp_cooldown).
IntervalStep ==
  \A c \in Comp :
    /\ Started(c) => Lasted("startup", CompInterval)
    /\ Released(c) => Lasted("stop", CompInterval)

IntervalsHonoured == [][IntervalStep]_tvars

\* The fan waits u16Start_Delay passes before it starts, and keeps blowing
\* for u16Fan_Stop_Delay passes after it is told to stop, unless a fan alarm
\* throws it back or bkg overwrote the countdown (fan_fsm_exe).
FanDelayStep ==
  /\ fanFsm = "INIT" /\ fanFsm' = "START_UP" => Lasted("fan", StartDelay)
  /\ fanFsm = "SHUT" /\ fanFsm' = "IDLE" /\ "E7" \notin alarms' => Lasted("fan", FanStopDelay)

FanDelaysHonoured == [][FanDelayStep]_tvars

\* What the comment on the restart delay in compressor_fsm promises: after a
\* stop the compressor is not initialised again before u16Start_Delay.  It
\* does not hold, see the run restart_delay_lost.
RestartDelay ==
  [][\A c \in Comp : compFsm[c] = "IDLE" /\ compFsm'[c] = "INIT" => age[c] >= StartDelay]_tvars

\* What the comment "reset timeout counter" promises: only a state machine
\* that arms a countdown raises it, bkg never does.  It does not hold, see
\* README.md.
BkgOnlyCountsDown ==
  [][beat' = beat => \A k \in Timer : timer'[k] <= timer[k]]_tvars
=============================================================================
