--------------------------- MODULE DisplayRestart ---------------------------
(***************************************************************************)
(* Restart_DIS_exe: core switches the display off and on again when it has *)
(* been silent or without network for too long, a few times, and then      *)
(* waits.  A byte from the display clears the time of silence; the pad     *)
(* reports network errors and may restart the display itself.  The actions *)
(* are steps of core, of the receive interrupt and of the pad;             *)
(* ReqExecution says when they happen.                                     *)
(***************************************************************************)
EXTENDS Integers

CONSTANTS
  CloseTime,  \* CLOSE_TIME: periods off
  U8          \* the size of the 8-bit count of restarts, 256

ASSUME DisplayAssumption == {CloseTime, U8} \subseteq Nat \ {0}

VARIABLES
  dark,      \* the request of DO_PWR_CTRL: the display is off
  timeout,   \* u16Uart_Timeout[1]
  closing,   \* u8CloseTime[0]
  times,     \* u8CloseTime[1]
  errors,    \* u16NeterrDelay
  resting,   \* u32RSInteral
  restart,   \* u8Restart is not 0
  netErr,    \* Net_ERR
  gaveUp,    \* u8RSInteral_Neterr, which alarms
  command,   \* the pad has switched the display off and sleeps
  done       \* history: restarts since the last rest

displayVars == <<dark, timeout, closing, times, errors, resting, restart,
                 netErr, gaveUp, command, done>>

DisplayInit ==
  /\ dark = FALSE /\ timeout = 0 /\ closing = 0 /\ times = 0
  /\ errors = 0 /\ resting = 0 /\ restart = FALSE /\ netErr = FALSE
  /\ gaveUp = FALSE /\ command = FALSE /\ done = 0

\* The counts stop at their limit.
Towards(n, limit) == IF n + 1 >= limit THEN limit ELSE n + 1

----------------------------------------------------------------------------
\* Restart_DIS_exe.  Restarts are not allowed: everything but the time off
\* starts afresh.
Disabled ==
  /\ times' = 0 /\ resting' = 0 /\ timeout' = 0 /\ errors' = 0
  /\ restart' = FALSE /\ gaveUp' = FALSE /\ dark' = FALSE /\ done' = 0
  /\ UNCHANGED <<closing, netErr, command>>

\* There were enough of them: a rest, and an alarm.
Exhausted(p) ==
  /\ IF resting + 1 >= p.rest THEN resting' = 0 /\ times' = 0 /\ done' = 0
     ELSE resting' = resting + 1 /\ UNCHANGED <<times, done>>
  /\ gaveUp' = TRUE /\ timeout' = 0 /\ errors' = 0
  /\ restart' = FALSE /\ dark' = FALSE
  /\ UNCHANGED <<closing, netErr, command>>

\* Silence or network errors have lasted: off for a while, then one restart
\* is counted.  Otherwise the display is on.
Needed(p) ==
  \/ restart \/ timeout + 1 >= p.hold
  \/ netErr /\ errors + 1 >= p.hold

\* Faulty variant: one period too many.
StaysOffLonger(p) == closing <= CloseTime

StaysOff(p) == closing + 1 <= CloseTime

\* Faulty variant: what is off stays off.
SwitchedOffKept(p) == Needed(p) \/ dark

SwitchedOff(p) == Needed(p)

Watch(p) ==
  /\ gaveUp' = FALSE
  /\ IF Needed(p) /\ ~StaysOff(p)
     THEN /\ closing' = 0 /\ times' = (times + 1) % U8 /\ done' = done + 1
          /\ timeout' = 0 /\ errors' = 0 /\ netErr' = FALSE /\ restart' = FALSE
          /\ dark' = dark
     ELSE /\ closing' = IF Needed(p) THEN closing + 1 ELSE closing
          /\ dark' = SwitchedOff(p) /\ restart' = Needed(p)
          /\ timeout' = Towards(timeout, p.hold)
          /\ errors' = IF netErr THEN Towards(errors, p.hold) ELSE errors
          /\ UNCHANGED <<times, done, netErr>>
  /\ UNCHANGED <<resting, command>>

\* Faulty variant: one restart too many.
TiredLater(p) == times > p.max

Tired(p) == times >= p.max

Restart_DIS_exe(p, enabled) ==
  IF ~enabled THEN Disabled
  ELSE IF Tired(p) THEN Exhausted(p)
  ELSE Watch(p)

----------------------------------------------------------------------------
\* The receive interrupt.
Received ==
  /\ timeout' = 0
  /\ UNCHANGED <<dark, closing, times, errors, resting, restart, netErr, gaveUp,
                 command, done>>

\* The pad writes Net_ERR.
PadNetErr ==
  /\ netErr' = ~netErr
  /\ UNCHANGED <<dark, timeout, closing, times, errors, resting, restart, gaveUp,
                 command, done>>

\* The pad restarts the display: off, a second of sleep, on.
ScreenOff ==
  /\ ~command /\ command' = TRUE /\ dark' = TRUE
  /\ UNCHANGED <<timeout, closing, times, errors, resting, restart, netErr, gaveUp,
                 done>>

ScreenOn ==
  /\ command /\ command' = FALSE /\ dark' = FALSE
  /\ UNCHANGED <<timeout, closing, times, errors, resting, restart, netErr, gaveUp,
                 done>>
=============================================================================
