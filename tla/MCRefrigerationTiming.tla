----------------------- MODULE MCRefrigerationTiming -----------------------
(***************************************************************************)
(* Instances of RefrigerationTiming for TLC.                               *)
(***************************************************************************)
EXTENDS RefrigerationTiming

\* alarms, closed and frost only record the inputs of the last core tick, and
\* beat only tells two ticks apart: no action's outcome depends on them, so
\* these runs may identify states that differ in nothing else.  Action
\* properties are still checked on every transition.
TimedView ==
  <<fanFsm, compFsm, sigFsm, req, dout, timer, pwrSts, fanSts, bkgPc, bkgAt, bkgReg,
    age, raced, stale>>
=============================================================================
