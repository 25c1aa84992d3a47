------------------------ MODULE RefrigerationProofs ------------------------
(***************************************************************************)
(* Proofs about Refrigeration, for every value of its delays, its bypass   *)
(* flag and its set of alarms.  The inductive invariant is IInv; the       *)
(* lemmas say what one pass of each state machine does to a well formed    *)
(* input, and CoreTickFacts collects them for a whole core tick.           *)
(*                                                                         *)
(* Then about RefrigerationTiming: the delays of the fan and the           *)
(* compressors last as long as they should.  TimedInv adds to IInv what    *)
(* makes the delays inductive: the passes that bkg has made since a delay  *)
(* began and what is left of its countdown together make up the delay that *)
(* the present state calls for (Needs); what an earlier state called for   *)
(* is over (Over); and what bkg is about to store is still what core has   *)
(* left there, unless stale says otherwise (Fresh).                        *)
(***************************************************************************)
EXTENDS RefrigerationTiming, TLAPS

\* What compressor_fsm works on: the fields of one compressor and the two
\* intervals it shares with the other.
CompRec ==
  [st : CompStates, t : TimerVal, on : BOOLEAN, startup : TimerVal, stop : TimerVal]

\* The request bit a compressor's own state allows it to have.
WellFormed(s) ==
  /\ s.st \in {"IDLE", "INIT"} => ~s.on
  /\ s.st \in Running => s.on

IInv == TypeOK /\ MachinesAgree /\ NoAirflowOnlyInStop

\* Zero is a value of a countdown.
LEMMA ZeroTimer == 0 \in TimerVal
  BY TimerAssumption DEF TimerVal, TimerAssumption

\* compressor_fsm keeps its record well typed and the request bit in line
\* with the state.
LEMMA CompStepType ==
  ASSUME NEW s \in CompRec, NEW sig \in CompSignals, s.st = "STOP" \/ WellFormed(s)
  PROVE  CompStep(s, sig) \in CompRec /\ WellFormed(CompStep(s, sig))
<1> USE ZeroTimer, DelayAssumption, IntervalAssumption DEF DelayAssumption, IntervalAssumption
<1>1. CASE s.st = "IDLE"
  BY <1>1, Zenon DEF CompStep, CompRec, CompStates, CompSignals, WellFormed, Running
<1>2. CASE s.st = "INIT"
  BY <1>2, Zenon DEF CompStep, CompRec, CompStates, CompSignals, WellFormed, Running
<1>3. CASE s.st = "STARTUP"
  <2> DEFINE rest == IF MinRuntime > LowPressShield THEN MinRuntime - LowPressShield ELSE 0
  <2>1. rest \in TimerVal
    BY TimerAssumption DEF TimerAssumption, TimerVal
  <2>2. CompStep(s, sig) \in {[s EXCEPT !.st = "STOP"], [s EXCEPT !.on = TRUE],
                             [s EXCEPT !.st = "NORMAL", !.on = TRUE, !.t = rest]}
    BY <1>3, Zenon DEF CompStep
  <2> HIDE DEF rest
  <2>3. QED
    BY <1>3, <2>1, <2>2, Zenon DEF CompRec, CompStates, WellFormed, Running
<1>4. CASE s.st = "NORMAL"
  BY <1>4, Zenon DEF CompStep, CompRec, CompStates, CompSignals, WellFormed, Running
<1>5. CASE s.st = "SHUTING"
  BY <1>5, Zenon DEF CompStep, CompRec, CompStates, CompSignals, WellFormed, Running
<1>6. CASE s.st = "STOP"
  BY <1>6, Zenon DEF CompStep, CompStop, CompRec, CompStates, CompSignals, WellFormed, Running
<1>7. QED
  BY <1>1, <1>2, <1>3, <1>4, <1>5, <1>6, Zenon DEF CompRec, CompStates

\* A compressor starts to run only when told to, and an emergency stop leaves
\* it in no running state.
LEMMA CompStepRunning ==
  ASSUME NEW s \in CompRec, NEW sig \in CompSignals, CompStep(s, sig).st \in Running
  PROVE  sig # "SIG_ERR" /\ (sig = "SIG_ON" \/ s.st \in Running) /\ s.st # "STOP"
  BY Zenon DEF CompStep, CompStop, CompRec, CompStates, CompSignals, Running

\* A masked compressor, in STOP or IDLE and told SIG_OFF, does not run.
LEMMA MaskedStays ==
  ASSUME NEW s \in CompRec, s.st \in {"STOP", "IDLE"}
  PROVE  CompStep(s, "SIG_OFF").st \notin Running
  BY Zenon DEF CompStep, CompStop, CompRec, CompStates, CompSignals, Running

\* The request is raised only from INIT, on SIG_ON, with the start interval
\* elapsed, which it arms.
LEMMA CompStepStarts ==
  ASSUME NEW s \in CompRec, NEW sig \in CompSignals, ~s.on, CompStep(s, sig).on,
         s.st = "STOP" \/ WellFormed(s)
  PROVE  /\ sig = "SIG_ON" /\ s.st = "INIT" /\ s.startup = 0
         /\ CompStep(s, sig).st = "STARTUP" /\ CompStep(s, sig).startup = CompInterval
  BY Zenon DEF CompStep, CompStop, CompRec, CompStates, CompSignals, Running, WellFormed

\* The request is dropped only from STOP with the stop interval elapsed, which
\* it arms.
LEMMA CompStepStops ==
  ASSUME NEW s \in CompRec, NEW sig \in CompSignals, s.on, ~CompStep(s, sig).on,
         s.st = "STOP" \/ WellFormed(s)
  PROVE  s.st = "STOP" /\ s.stop = 0 /\ CompStep(s, sig).stop = CompInterval
  BY Zenon DEF CompStep, CompStop, CompRec, CompStates, CompSignals, Running, WellFormed

\* A pass that does not raise the request leaves the start interval alone.
LEMMA CompStepInterval ==
  ASSUME NEW s \in CompRec, NEW sig \in CompSignals, s.on \/ ~CompStep(s, sig).on,
         s.st = "STOP" \/ WellFormed(s)
  PROVE  CompStep(s, sig).startup = s.startup
  BY Zenon DEF CompStep, CompStop, CompRec, CompStates, CompSignals, Running, WellFormed

\* fan_fsm_exe: well typed, and the gear is on exactly in the running states.
LEMMA FanStepType ==
  ASSUME NEW st \in FanStates, NEW t \in TimerVal, NEW sig \in FanSignals
  PROVE  /\ FanStep(st, t, sig) \in [st : FanStates, t : TimerVal, on : BOOLEAN]
         /\ FanStep(st, t, sig).on <=> FanStep(st, t, sig).st \in FanRunning
  BY ZeroTimer, DelayAssumption, Zenon DEF FanStep, FanStates, FanSignals, FanRunning, DelayAssumption

\* The fan only goes off from SHUT, and only gets to SHUT or stays there when
\* it is not told to run.
LEMMA FanStepShut ==
  ASSUME NEW st \in FanStates, NEW t \in TimerVal, NEW sig \in FanSignals
  PROVE  /\ st \in FanRunning /\ FanStep(st, t, sig).st \notin FanRunning
              => st = "SHUT" /\ sig # "SIG_START"
         /\ FanStep(st, t, sig).st = "SHUT"
              => \/ st = "NORM" /\ sig = "SIG_STOP"
                 \/ st = "SHUT" /\ sig # "SIG_START"
  BY Zenon DEF FanStep, FanStates, FanSignals, FanRunning

LEMMA SignalGenFacts ==
  ASSUME TypeOK, NEW a \in SUBSET AlarmIds, NEW cls \in BOOLEAN, NEW ice \in SUBSET FrostIds
  PROVE  /\ SignalGen(a, cls, ice).fsm \in {0, 1}
         /\ SignalGen(a, cls, ice).sig \in [Comp -> CompSignals]
         /\ ~dout["fan"] => \A c \in Comp : SignalGen(a, cls, ice).sig[c] = "SIG_ERR"
         /\ \A c \in Comp : SignalGen(a, cls, ice).sig[c] = "SIG_ON"
              => pwrSts /\ ~cls
  BY Zenon DEF SignalGen, TypeOK, CompSignals

\* compressor_alarm_signal_gen leaves a masked compressor in STOP or IDLE, and
\* what a machine works on agrees with the invariant.
LEMMA MaskedInput ==
  ASSUME IInv, NEW a \in SUBSET AlarmIds, NEW c \in Comp, NEW m \in TimerVal, NEW n \in TimerVal,
         NEW in, in = CompInput(a, c, m, n)
  PROVE  /\ in \in CompRec
         /\ in.st = "STOP" \/ WellFormed(in)
         /\ c \in Mask(a) => in.st \in {"STOP", "IDLE"}
         /\ in.st # "STOP" => in.st = compFsm[c]
         /\ in.on = req[c] /\ in.startup = m /\ in.stop = n
<1>1. in = [st |-> AlarmState(a, c, compFsm[c]), t |-> timer[c], on |-> req[c],
            startup |-> m, stop |-> n]
  BY Zenon DEF CompInput
<1>2. AlarmState(a, c, compFsm[c]) = compFsm[c] \/ AlarmState(a, c, compFsm[c]) = "STOP"
  BY Zenon DEF AlarmState
<1>3. compFsm[c] \in CompStates /\ timer[c] \in TimerVal /\ req[c] \in BOOLEAN
  BY Zenon DEF IInv, TypeOK, Device, Timer
<1>4. in \in CompRec
  BY <1>1, <1>2, <1>3 DEF CompRec, CompStates
<1>5. in.st = "STOP" \/ WellFormed(in)
  <2>1. in.st = AlarmState(a, c, compFsm[c]) /\ in.on = req[c]
    BY <1>1
  <2>2. /\ compFsm[c] \in {"IDLE", "INIT"} => ~req[c]
        /\ compFsm[c] \in Running => req[c]
    BY Zenon DEF IInv, MachinesAgree, RequestFollowsFsm
  <2>3. QED
    BY <1>2, <2>1, <2>2, Zenon DEF WellFormed
<1>6. c \in Mask(a) => in.st \in {"STOP", "IDLE"}
  BY <1>1, <1>3 DEF AlarmState, CompStates
<1>7. QED
  BY <1>1, <1>2, <1>4, <1>5, <1>6

\* One core tick: it keeps the inductive invariant, starts a compressor only
\* when that is safe, and never releases both at once.
LEMMA CoreTickFacts ==
  ASSUME IInv, CoreTick
  PROVE  IInv' /\ StartStep /\ StopStep
<1>1. PICK a \in SUBSET AlarmIds, cls \in BOOLEAN, ice \in SUBSET FrostIds :
        \E f \in {FanReq(a, cls)}, g \in {SignalGen(a, cls, ice)} :
        \E c1 \in {CompStep(CompInput(a, "comp1", timer["startup"], timer["stop"]),
                            AlarmSignal(a, "comp1", g.sig["comp1"]))} :
        \E c2 \in {CompStep(CompInput(a, "comp2", c1.startup, c1.stop),
                            AlarmSignal(a, "comp2", g.sig["comp2"]))} :
          CoreWrite(a, cls, ice, f, g, c1, c2)
  BY Zenon DEF CoreTick
<1>2. PICK f, g, c1, c2 :
        /\ f = FanReq(a, cls)
        /\ g = SignalGen(a, cls, ice)
        /\ c1 = CompStep(CompInput(a, "comp1", timer["startup"], timer["stop"]),
                         AlarmSignal(a, "comp1", g.sig["comp1"]))
        /\ c2 = CompStep(CompInput(a, "comp2", c1.startup, c1.stop),
                         AlarmSignal(a, "comp2", g.sig["comp2"]))
        /\ CoreWrite(a, cls, ice, f, g, c1, c2)
  BY <1>1, Zenon
<1> DEFINE out == [c \in Comp |-> IF c = "comp1" THEN c1 ELSE c2]
           in == [c \in Comp |->
                    IF c = "comp1"
                      THEN CompInput(a, "comp1", timer["startup"], timer["stop"])
                      ELSE CompInput(a, "comp2", c1.startup, c1.stop)]
           sg == [c \in Comp |-> AlarmSignal(a, c, g.sig[c])]
\* The fan's pass.
<1>3. /\ f \in [st : FanStates, t : TimerVal, on : BOOLEAN]
      /\ f.on <=> f.st \in FanRunning
      /\ f.st = "SHUT" => \/ fanFsm = "NORM" /\ FanSignal(cls) = "SIG_STOP"
                          \/ fanFsm = "SHUT" /\ FanSignal(cls) # "SIG_START"
      /\ "E7" \notin a /\ fanFsm \in FanRunning /\ f.st \notin FanRunning
           => fanFsm = "SHUT" /\ FanSignal(cls) # "SIG_START"
  <2>1. FanSignal(cls) \in FanSignals
    BY Zenon DEF FanSignal, FanSignals
  <2>2. fanFsm \in FanStates /\ timer["fan"] \in TimerVal /\ 0 \in TimerVal /\ "IDLE" \in FanStates
    BY ZeroTimer, Zenon DEF IInv, TypeOK, FanStates, Timer, Device
  <2>3. CASE "E7" \in a
    <3>1. f = FanStep("IDLE", 0, FanSignal(cls))
      BY <1>2, <2>3, Zenon DEF FanReq
    <3>2. f.st # "SHUT"
      BY <3>1, <2>1, Zenon DEF FanStep, FanSignals
    <3>3. QED
      BY <2>1, <2>2, <2>3, <3>1, <3>2, FanStepType, Zenon
  <2>4. CASE "E7" \notin a
    <3>1. f = FanStep(fanFsm, timer["fan"], FanSignal(cls))
      BY <1>2, <2>4, Zenon DEF FanReq
    <3>2. QED
      BY <2>1, <2>2, <3>1, FanStepType, FanStepShut, Zenon
  <2>5. QED
    BY <2>3, <2>4, Zenon
\* The signals.
<1>4. /\ g.fsm \in {0, 1}
      /\ \A c \in Comp :
           /\ sg[c] \in CompSignals
           /\ c \in Mask(a) => sg[c] = "SIG_OFF"
           /\ ~dout["fan"] => sg[c] # "SIG_ON"
           /\ ~dout["fan"] /\ c \notin Mask(a) => sg[c] = "SIG_ERR"
           /\ sg[c] = "SIG_ON" => pwrSts /\ ~cls
  <2>1. /\ g.fsm \in {0, 1}
        /\ g.sig \in [Comp -> CompSignals]
        /\ ~dout["fan"] => \A c \in Comp : g.sig[c] = "SIG_ERR"
        /\ \A c \in Comp : g.sig[c] = "SIG_ON" => pwrSts /\ ~cls
    BY <1>2, SignalGenFacts, Zenon DEF IInv
  <2>2. QED
    BY <2>1, Zenon DEF AlarmSignal, CompSignals
\* The compressors' passes: comp2 gets the intervals comp1 has left.
<1>5. /\ in["comp1"].startup = timer["startup"] /\ in["comp1"].stop = timer["stop"]
      /\ in["comp2"].startup = c1.startup /\ in["comp2"].stop = c1.stop
      /\ \A c \in Comp :
           /\ in[c] \in CompRec
           /\ in[c].st = "STOP" \/ WellFormed(in[c])
           /\ c \in Mask(a) => in[c].st \in {"STOP", "IDLE"}
           /\ in[c].st # "STOP" => in[c].st = compFsm[c]
           /\ in[c].on = req[c]
           /\ out[c] = CompStep(in[c], sg[c])
           /\ out[c] \in CompRec
           /\ WellFormed(out[c])
  <2>0. timer["startup"] \in TimerVal /\ timer["stop"] \in TimerVal
    BY Zenon DEF IInv, TypeOK, Timer
  <2>1. /\ in["comp1"] = CompInput(a, "comp1", timer["startup"], timer["stop"])
        /\ in["comp2"] = CompInput(a, "comp2", c1.startup, c1.stop)
        /\ out["comp1"] = c1 /\ out["comp2"] = c2
        /\ c1 = CompStep(in["comp1"], sg["comp1"])
        /\ c2 = CompStep(in["comp2"], sg["comp2"])
    BY <1>2, Zenon DEF Comp
  <2> HIDE DEF in, out, sg
  <2>2. /\ in["comp1"] \in CompRec
        /\ in["comp1"].st = "STOP" \/ WellFormed(in["comp1"])
        /\ "comp1" \in Mask(a) => in["comp1"].st \in {"STOP", "IDLE"}
        /\ in["comp1"].st # "STOP" => in["comp1"].st = compFsm["comp1"]
        /\ in["comp1"].on = req["comp1"]
        /\ in["comp1"].startup = timer["startup"] /\ in["comp1"].stop = timer["stop"]
    BY <2>0, <2>1, MaskedInput DEF Comp
  <2>3. c1 \in CompRec /\ WellFormed(c1)
    BY <1>4, <2>1, <2>2, CompStepType, Zenon DEF Comp
  <2>4. c1.startup \in TimerVal /\ c1.stop \in TimerVal
    BY <2>3, Zenon DEF CompRec
  <2>5. /\ in["comp2"] \in CompRec
        /\ in["comp2"].st = "STOP" \/ WellFormed(in["comp2"])
        /\ "comp2" \in Mask(a) => in["comp2"].st \in {"STOP", "IDLE"}
        /\ in["comp2"].st # "STOP" => in["comp2"].st = compFsm["comp2"]
        /\ in["comp2"].on = req["comp2"]
        /\ in["comp2"].startup = c1.startup /\ in["comp2"].stop = c1.stop
    BY <2>4, <2>1, MaskedInput DEF Comp
  <2>6. c2 \in CompRec /\ WellFormed(c2)
    BY <1>4, <2>1, <2>5, CompStepType, Zenon DEF Comp
  <2>7. QED
    BY <2>1, <2>2, <2>3, <2>5, <2>6, Zenon DEF Comp
<1>6. /\ compFsm' = [c \in Comp |-> out[c].st]
      /\ \A c \in Comp : req'[c] = out[c].on
      /\ req'["fan"] = f.on
      /\ timer'["startup"] = c2.startup
      /\ dout' = [d \in Device |-> req'[d] /\ (AlarmBypass \/ d \notin Mask(a))]
      /\ fanFsm' = f.st /\ closed' = cls /\ alarms' = a
  BY <1>2, Zenon DEF CoreWrite, Comp, Device, Timer, Arbitrate
<1> HIDE DEF in, out, sg
<1>7. TypeOK'
  <2>0. c1 \in CompRec /\ c2 \in CompRec
    BY <1>5, Zenon DEF out, Comp
  <2>1. req' \in [Device -> BOOLEAN] /\ timer' \in [Timer -> TimerVal]
    BY <1>2, <1>3, <2>0, Zenon DEF CoreWrite, CompRec, Comp, Device, Timer
  <2>2. dout' \in [Device -> BOOLEAN] /\ compFsm' \in [Comp -> CompStates]
    BY <1>5, <1>6, <2>1, Zenon DEF CompRec
  <2>3. beat' \in {0, 1} /\ sigFsm' \in {0, 1} /\ fanFsm' \in FanStates
    <3>1. beat \in {0, 1} /\ beat' = 1 - beat
      BY <1>2, Zenon DEF CoreWrite, IInv, TypeOK
    <3>2. sigFsm' = g.fsm
      BY <1>2, Zenon DEF CoreWrite
    <3>3. QED
      BY <1>3, <1>4, <1>6, <3>1, <3>2
  <2>4. /\ alarms' \in SUBSET AlarmIds /\ closed' \in BOOLEAN /\ frost' \in SUBSET Comp
        /\ UNCHANGED <<pwrSts, fanSts, bkgPc, bkgAt, bkgReg>>
    BY <1>2, FrostAssumption, Zenon DEF CoreWrite, bkgVars, FrostAssumption
  <2>5. QED
    BY <2>1, <2>2, <2>3, <2>4, Zenon DEF IInv, TypeOK
\* MachinesAgree, one conjunct at a time.
<1>8. RequestFollowsFsm'
  BY <1>3, <1>5, <1>6, Zenon DEF RequestFollowsFsm, WellFormed
<1>9. \A d \in Device : dout'[d] => req'[d]
  BY <1>6, Zenon
<1>10. \A c \in Comp : compFsm'[c] \in Running => c \notin Mask(a) /\ dout'[c]
  <2> SUFFICES ASSUME NEW c \in Comp, compFsm'[c] \in Running
               PROVE  c \notin Mask(a) /\ dout'[c]
    OBVIOUS
  <2>1. CompStep(in[c], sg[c]).st \in Running
    BY <1>5, <1>6, Zenon
  <2>2. (sg[c] = "SIG_ON" \/ in[c].st \in Running) /\ in[c].st # "STOP"
    BY <1>4, <1>5, <2>1, CompStepRunning, Zenon
  <2>3. c \notin Mask(a)
    BY <1>4, <1>5, <2>1, <2>2, MaskedStays, Zenon
  <2>4. req'[c]
    BY <1>5, <1>6, <2>1, Zenon DEF WellFormed
  <2>5. QED
    BY <1>6, <2>3, <2>4, Zenon DEF Device
<1>11. \A c \in Comp : compFsm'[c] \in Running =>
         /\ dout["fan"]
         /\ FanSignal(cls) = "SIG_START" \/ compFsm[c] \in Running
  <2> SUFFICES ASSUME NEW c \in Comp, compFsm'[c] \in Running
               PROVE  /\ dout["fan"]
                      /\ FanSignal(cls) = "SIG_START" \/ compFsm[c] \in Running
    OBVIOUS
  <2>1. CompStep(in[c], sg[c]).st \in Running
    BY <1>5, <1>6, Zenon
  <2>2. /\ sg[c] # "SIG_ERR"
        /\ sg[c] = "SIG_ON" \/ in[c].st \in Running
        /\ in[c].st # "STOP"
    BY <1>4, <1>5, <2>1, CompStepRunning
  <2>3. dout["fan"]
    BY <1>4, <1>10, <2>2, Zenon
  <2>4. sg[c] = "SIG_ON" => FanSignal(cls) = "SIG_START"
    BY <1>4, Zenon DEF FanSignal
  <2>5. QED
    BY <1>5, <2>2, <2>3, <2>4, Zenon
<1>12. fanFsm' = "SHUT" => \A c \in Comp : compFsm'[c] \notin Running
  <2> SUFFICES ASSUME f.st = "SHUT", NEW c \in Comp, compFsm'[c] \in Running
               PROVE  FALSE
    BY <1>6, Zenon
  <2>1. FanSignal(cls) # "SIG_START"
    BY <1>3, Zenon
  <2>2. compFsm[c] \in Running /\ dout[c]
    BY <1>11, <2>1, Zenon DEF IInv, MachinesAgree
  <2>3. FanSignal(cls) # "SIG_STOP"
    BY <2>1, <2>2, Zenon DEF FanSignal
  <2>4. fanFsm # "SHUT"
    BY <2>2, Zenon DEF IInv, MachinesAgree
  <2>5. QED
    BY <1>3, <2>3, <2>4, Zenon
<1>13. \A c \in Comp : compFsm'[c] \in Running => dout'["fan"]
  <2> SUFFICES ASSUME NEW c \in Comp, compFsm'[c] \in Running
               PROVE  dout'["fan"]
    OBVIOUS
  <2>1. "E7" \notin a /\ "fan" \notin Mask(a)
    BY <1>10, Zenon DEF Mask, Device, Comp
  <2>2. fanFsm \in FanRunning
    BY <1>11, Zenon DEF IInv, MachinesAgree, RequestFollowsFsm, Device
  <2>3. f.st \in FanRunning
    <3> SUFFICES ASSUME f.st \notin FanRunning
                 PROVE  FALSE
      OBVIOUS
    <3>1. fanFsm = "SHUT" /\ FanSignal(cls) # "SIG_START"
      BY <1>3, <2>1, <2>2, Zenon
    <3>2. QED
      BY <1>11, <3>1, Zenon DEF IInv, MachinesAgree
  <2>4. QED
    BY <1>3, <1>6, <2>1, <2>3, Zenon DEF Device
<1>14. NoAirflowOnlyInStop'
  <2> SUFFICES ASSUME NEW c \in Comp, dout'[c], ~dout'["fan"]
               PROVE  compFsm'[c] = "STOP"
    BY Zenon DEF NoAirflowOnlyInStop
  <2>1. compFsm'[c] \notin Running
    BY <1>13, Zenon
  <2>2. req'[c]
    BY <1>9, Zenon DEF Device
  <2>3. compFsm'[c] \notin {"IDLE", "INIT"}
    BY <1>8, <2>2, Zenon DEF RequestFollowsFsm
  <2>4. QED
    BY <1>7, <2>1, <2>3, Zenon DEF TypeOK, CompStates, Running
\* What a start and a stop need and do, for one compressor.
<1>15. \A c \in Comp : ~req[c] /\ req'[c] =>
         /\ sg[c] = "SIG_ON" /\ compFsm'[c] = "STARTUP"
         /\ in[c].startup = 0 /\ out[c].startup = CompInterval
  <2> SUFFICES ASSUME NEW c \in Comp, ~req[c], req'[c]
               PROVE  /\ sg[c] = "SIG_ON" /\ compFsm'[c] = "STARTUP"
                      /\ in[c].startup = 0 /\ out[c].startup = CompInterval
    OBVIOUS
  <2>1. ~in[c].on /\ CompStep(in[c], sg[c]).on
    BY <1>5, <1>6, Zenon
  <2>2. QED
    BY <1>4, <1>5, <1>6, <2>1, CompStepStarts
<1>16. \A c \in Comp : req[c] /\ ~req'[c] => in[c].stop = 0 /\ out[c].stop = CompInterval
  <2> SUFFICES ASSUME NEW c \in Comp, req[c], ~req'[c]
               PROVE  in[c].stop = 0 /\ out[c].stop = CompInterval
    OBVIOUS
  <2>1. in[c].on /\ ~CompStep(in[c], sg[c]).on
    BY <1>5, <1>6, Zenon
  <2>2. QED
    BY <1>4, <1>5, <2>1, CompStepStops
<1>17. out["comp1"] = c1 /\ out["comp2"] = c2 /\ "comp1" \in Comp /\ "comp2" \in Comp
  BY Zenon DEF out, Comp
<1>18. StopStep
  <2>1. ~(req["comp1"] /\ ~req'["comp1"] /\ req["comp2"] /\ ~req'["comp2"])
    BY <1>5, <1>16, <1>17, IntervalAssumption, Zenon DEF IntervalAssumption
  <2>2. QED
    BY <2>1, Zenon DEF StopStep, Comp
<1>19. ~(~req["comp1"] /\ req'["comp1"] /\ ~req["comp2"] /\ req'["comp2"])
  BY <1>5, <1>15, <1>17, IntervalAssumption DEF IntervalAssumption
<1>20. \A c \in Comp : ~req[c] /\ req'[c] => timer'["startup"] = CompInterval
  <2>1. ~req["comp2"] /\ req'["comp2"] => timer'["startup"] = CompInterval
    BY <1>6, <1>15, <1>17, Zenon
  <2>2. ASSUME ~req["comp1"], req'["comp1"]
        PROVE  timer'["startup"] = CompInterval
    <3>1. in["comp2"].startup = CompInterval
      BY <1>5, <1>15, <1>17, <2>2, Zenon
    <3>2. req["comp2"] \/ ~req'["comp2"]
      BY <1>19, <2>2, Zenon
    <3>3. in["comp2"].on \/ ~CompStep(in["comp2"], sg["comp2"]).on
      BY <1>5, <1>6, <1>17, <3>2, Zenon
    <3>4. CompStep(in["comp2"], sg["comp2"]).startup = in["comp2"].startup
      BY <1>4, <1>5, <1>17, <3>3, CompStepInterval, Zenon
    <3>5. QED
      BY <1>5, <1>6, <1>17, <3>1, <3>4, Zenon
  <2>3. QED
    BY <2>1, <2>2, Zenon DEF Comp
<1>21. StartStep
  <2> SUFFICES ASSUME NEW c \in Comp, ~req[c], req'[c]
               PROVE  /\ pwrSts /\ ~closed'
                      /\ dout["fan"] /\ dout'["fan"]
                      /\ c \notin Mask(alarms')
                      /\ \A d \in Comp \ {c} : ~req[d] => ~req'[d]
                      /\ timer'["startup"] = CompInterval
    BY Zenon DEF StartStep
  <2>1. sg[c] = "SIG_ON" /\ compFsm'[c] \in Running
    BY <1>15, Zenon DEF Running
  <2>2. \A d \in Comp \ {c} : ~req[d] => ~req'[d]
    BY <1>19 DEF Comp
  <2>3. QED
    BY <1>4, <1>6, <1>10, <1>11, <1>13, <1>20, <2>1, <2>2, Zenon
<1>22. MachinesAgree'
  BY <1>8, <1>9, <1>10, <1>12, Zenon DEF MachinesAgree
<1>23. QED
  BY <1>7, <1>14, <1>18, <1>21, <1>22, Zenon DEF IInv

\* The countdowns and the mode update of bkg touch nothing the invariant
\* relates.
LEMMA BkgFacts ==
  ASSUME IInv, Bkg \/ UNCHANGED vars
  PROVE  IInv' /\ StartStep /\ StopStep
<1>1. UNCHANGED coreVars
  BY Zenon DEF Bkg, BkgWake, BkgTest, BkgLoad, BkgStore, BkgClear, BkgModeUpdate, vars
<1>2. UNCHANGED <<fanFsm, compFsm, sigFsm, req, alarms, closed, frost, beat, dout>>
  BY <1>1, Zenon DEF coreVars
<1>3. TypeOK'
  <2>1. CASE BkgWake
    BY <1>2, <2>1 DEF IInv, TypeOK, BkgWake
  <2>2. CASE BkgTest
    BY <1>2, <2>2, Zenon DEF IInv, TypeOK, BkgTest
  <2>3. CASE BkgLoad
    BY <1>2, <2>3 DEF IInv, TypeOK, BkgLoad, TimerOrder, Timer, Device, Comp
  <2>4. ASSUME NEW n \in TimerVal, bkgPc \in 1..5, BkgAdvance, UNCHANGED <<pwrSts, fanSts>>,
               timer' = [timer EXCEPT ![TimerOrder[bkgPc]] = n]
        PROVE  TypeOK'
    <3>1. timer' \in [Timer -> TimerVal]
      BY <2>4, Zenon DEF IInv, TypeOK
    <3>2. /\ bkgReg' \in TimerVal
          /\ \/ bkgPc' \in 1..5 /\ bkgAt' = "test"
             \/ bkgPc' = 6 /\ bkgAt' = "mode"
      BY <2>4, ZeroTimer DEF BkgAdvance
    <3>3. QED
      BY <1>2, <2>4, <3>1, <3>2, Zenon DEF IInv, TypeOK
  <2>5. CASE BkgStore
    <3>1. bkgReg \in TimerVal /\ (bkgReg - 1) % TimerMod \in TimerVal
      BY TimerAssumption DEF IInv, TypeOK, TimerVal, TimerAssumption
    <3>2. QED
      BY <2>4, <2>5, <3>1, Zenon DEF BkgStore, IInv, TypeOK
  <2>6. CASE BkgClear
    BY <2>4, <2>6, ZeroTimer, Zenon DEF BkgClear, IInv, TypeOK
  <2>7. CASE BkgModeUpdate
    BY <1>2, <2>7, Zenon DEF IInv, TypeOK, BkgModeUpdate, Device
  <2>8. CASE UNCHANGED vars
    BY <1>2, <2>8, Zenon DEF IInv, TypeOK, vars, bkgVars
  <2>9. QED
    BY <2>1, <2>2, <2>3, <2>5, <2>6, <2>7, <2>8, Zenon DEF Bkg
<1>4. MachinesAgree' /\ NoAirflowOnlyInStop'
  BY <1>2, Zenon DEF IInv, MachinesAgree, RequestFollowsFsm, NoAirflowOnlyInStop
<1>5. StartStep /\ StopStep
  BY <1>2, Zenon DEF StartStep, StopStep
<1>6. QED
  BY <1>3, <1>4, <1>5, Zenon DEF IInv

\* IInv is an invariant of the specification, and with it every step satisfies
\* the two action properties.
THEOREM Inductive == Spec => [](IInv) /\ [][StartStep /\ StopStep]_vars
<1>1. Init => IInv
  <2> SUFFICES ASSUME Init
               PROVE  IInv
    OBVIOUS
  <2>1. TypeOK
    <3>1. /\ fanFsm \in FanStates /\ compFsm \in [Comp -> CompStates]
          /\ sigFsm \in {0, 1} /\ beat \in {0, 1} /\ timer \in [Timer -> TimerVal]
          /\ bkgPc = 0 /\ bkgAt = "asleep" /\ bkgReg \in TimerVal
      BY ZeroTimer, Zenon DEF Init, FanStates, CompStates
    <3>2. /\ alarms \in SUBSET AlarmIds /\ frost \in SUBSET Comp /\ closed \in BOOLEAN
          /\ pwrSts \in BOOLEAN /\ fanSts \in BOOLEAN
      BY Zenon DEF Init
    <3>3. req \in [Device -> BOOLEAN] /\ dout \in [Device -> BOOLEAN]
      BY Zenon DEF Init
    <3>4. QED
      BY <3>1, <3>2, <3>3, Zenon DEF TypeOK
  <2>2. /\ \A c \in Comp : compFsm[c] = "IDLE" /\ ~req[c] /\ ~dout[c]
        /\ ~req["fan"] /\ ~dout["fan"]
        /\ fanFsm = "IDLE"
    BY Zenon DEF Init, Device
  <2>3. MachinesAgree /\ NoAirflowOnlyInStop
    BY <2>2, Zenon DEF MachinesAgree, RequestFollowsFsm, NoAirflowOnlyInStop, Running, FanRunning,
                Device
  <2>4. QED
    BY <2>1, <2>3, Zenon DEF IInv
<1>2. IInv /\ [Next]_vars => IInv' /\ StartStep /\ StopStep
  BY CoreTickFacts, BkgFacts, Zenon DEF Next
<1>3. QED
  BY <1>1, <1>2, PTL DEF Spec

\* Every variable of the fan and compressor control stays within its type.
THEOREM TypeCorrect == Spec => []TypeOK
  BY Inductive, PTL DEF IInv

\* The state machine of a unit and the request it writes never disagree, for
\* all delays, alarms and interleavings of the two threads.
THEOREM MachineAgreement == Spec => []MachinesAgree
  BY Inductive, PTL DEF IInv

\* A compressor is driven without the fan only while it waits in STOP.
THEOREM AirflowSafety == Spec => []NoAirflowOnlyInStop
  BY Inductive, PTL DEF IInv

\* A compressor is only ever started safely and alone.
THEOREM StartSafety == Spec => SafeStart
  BY Inductive, PTL DEF SafeStart

\* The compressors are never released in the same tick.
THEOREM StopSafety == Spec => StaggeredStop
  BY Inductive, PTL DEF StaggeredStop

----------------------------------------------------------------------------
(* The delays.                                                             *)

\* The delay that countdown k stands for in the present states.
Needs(k) ==
  CASE k = "fan" -> IF fanFsm = "INIT" THEN StartDelay
                    ELSE IF fanFsm = "SHUT" THEN FanStopDelay ELSE 0
    [] k \in Comp -> IF compFsm[k] \in {"IDLE", "INIT"} THEN StartDelay
                     ELSE IF compFsm[k] = "STARTUP" THEN LowPressShield
                     ELSE IF compFsm[k] \in {"NORMAL", "SHUTING"}
                       THEN Larger(MinRuntime, LowPressShield) ELSE 0
    [] OTHER -> CompInterval

\* The part of it that is already over.
Over(k) ==
  IF k \notin Comp THEN 0
  ELSE IF compFsm[k] = "INIT" THEN StartDelay
  ELSE IF compFsm[k] = "NORMAL" THEN LowPressShield
  ELSE IF compFsm[k] = "SHUTING" THEN Larger(MinRuntime, LowPressShield) ELSE 0

\* What bkg will store is what core has left there.
Fresh ==
  /\ bkgAt \notin {"store", "clear"} => ~stale
  /\ bkgAt = "store" /\ ~stale => bkgReg = timer[TimerOrder[bkgPc]]
  /\ bkgAt = "clear" /\ ~stale => timer[TimerOrder[bkgPc]] = 0

Kept(k) == age[k] >= Over(k) /\ age[k] + timer[k] >= Needs(k)

TimedInv ==
  /\ TimedTypeOK /\ Fresh
  /\ \A k \in Timer : k \notin raced => Kept(k)

----------------------------------------------------------------------------
LEMMA Delays ==
  /\ TimerMod \in Nat /\ TimerMod > 0
  /\ StartDelay \in Nat /\ FanStopDelay \in Nat /\ CompInterval \in Nat /\ CompInterval > 0
  /\ LowPressShield \in Nat /\ MinRuntime \in Nat
  /\ StartDelay < TimerMod /\ FanStopDelay < TimerMod /\ CompInterval < TimerMod
  /\ LowPressShield < TimerMod /\ MinRuntime < TimerMod
  BY TimerAssumption, DelayAssumption, IntervalAssumption DEF TimerVal

LEMMA LongestSuffices ==
  ASSUME NEW k \in Timer
  PROVE  /\ Longest(k) \in Nat /\ Longest(k) < TimerMod
         /\ Needs(k) \in Nat /\ Needs(k) <= Longest(k)
         /\ Over(k) \in Nat /\ Over(k) <= Longest(k)
  <1> USE Delays DEF Larger
  <1>1. CASE k = "fan"
    BY <1>1 DEF Longest, Needs, Over, Comp
  <1>2. CASE k \in Comp
    BY <1>2 DEF Longest, Needs, Over, Comp
  <1>3. CASE k \in {"startup", "stop"}
    BY <1>3 DEF Longest, Needs, Over, Comp
  <1> QED BY <1>1, <1>2, <1>3, Zenon DEF Timer, Device

\* What one pass of compressor_fsm makes of a state and a time out.
Pass(s, o) ==
  /\ o.st = "IDLE" => \/ s.st = "IDLE" /\ o.t = s.t
                      \/ s.st = "INIT" /\ o.t = 0
                      \/ s.st = "STOP" /\ o.t = StartDelay
  /\ o.st = "INIT" => s.st = "INIT" \/ (s.st = "IDLE" /\ s.t = 0)
  /\ o.st = "STARTUP" => \/ s.st = "STARTUP" /\ o.t = s.t
                         \/ s.st = "INIT" /\ o.t = LowPressShield
  /\ o.st = "NORMAL" => \/ s.st = "NORMAL" /\ o.t = s.t
                        \/ /\ s.st = "STARTUP" /\ s.t = 0
                           /\ o.t = IF MinRuntime > LowPressShield
                                    THEN MinRuntime - LowPressShield ELSE 0
                        \/ s.st = "SHUTING"
  /\ o.st = "SHUTING" => s.st = "SHUTING" \/ (s.st = "NORMAL" /\ s.t = 0)
  /\ IF s.st = "INIT" /\ o.st = "STARTUP" THEN s.startup = 0 /\ o.startup = CompInterval
     ELSE o.startup = s.startup
  /\ IF s.st = "STOP" /\ o.st = "IDLE" THEN s.stop = 0 /\ o.stop = CompInterval
     ELSE o.stop = s.stop

LEMMA CompStepPass ==
  ASSUME NEW s \in CompRec, NEW sig \in CompSignals
  PROVE  Pass(s, CompStep(s, sig))
  <1>1. CASE s.st = "IDLE"
    BY <1>1, Zenon DEF CompStep, CompRec, Pass
  <1>2. CASE s.st = "INIT"
    BY <1>2, Zenon DEF CompStep, CompRec, Pass
  <1>3. CASE s.st = "STARTUP"
    BY <1>3, Zenon DEF CompStep, CompRec, Pass
  <1>4. CASE s.st = "NORMAL"
    BY <1>4, Zenon DEF CompStep, CompRec, Pass
  <1>5. CASE s.st = "SHUTING"
    BY <1>5, Zenon DEF CompStep, CompRec, Pass
  <1>6. CASE s.st = "STOP"
    BY <1>6, Zenon DEF CompStep, CompStop, CompRec, Pass
  <1> QED BY <1>1, <1>2, <1>3, <1>4, <1>5, <1>6, Zenon DEF CompRec, CompStates

\* What one pass of fan_fsm_exe does to the fan's state and countdown.
FanPass ==
  /\ fanFsm' = "INIT" => \/ timer'["fan"] = StartDelay /\ (fanFsm # "INIT" \/ "E7" \in alarms')
                         \/ fanFsm = "INIT" /\ "E7" \notin alarms' /\ timer'["fan"] = timer["fan"]
  /\ fanFsm' = "SHUT" => \/ timer'["fan"] = FanStopDelay /\ fanFsm # "SHUT"
                         \/ fanFsm = "SHUT" /\ timer'["fan"] = timer["fan"]
  /\ fanFsm = "INIT" /\ fanFsm' = "START_UP" => timer["fan"] = 0
  /\ fanFsm = "SHUT" /\ fanFsm' = "IDLE" /\ "E7" \notin alarms' => timer["fan"] = 0

\* The passes of one core tick.
LEMMA TickPasses ==
  ASSUME IInv, CoreTick
  PROVE  /\ FanPass /\ UNCHANGED bkgVars
         /\ \E s1, o1, s2, o2 \in CompRec :
              /\ Pass(s1, o1) /\ Pass(s2, o2)
              /\ s1.st = AlarmState(alarms', "comp1", compFsm["comp1"])
              /\ s2.st = AlarmState(alarms', "comp2", compFsm["comp2"])
              /\ s1.t = timer["comp1"] /\ s2.t = timer["comp2"]
              /\ s1.startup = timer["startup"] /\ s1.stop = timer["stop"]
              /\ s2.startup = o1.startup /\ s2.stop = o1.stop
              /\ compFsm'["comp1"] = o1.st /\ compFsm'["comp2"] = o2.st
              /\ timer'["comp1"] = o1.t /\ timer'["comp2"] = o2.t
              /\ timer'["startup"] = o2.startup /\ timer'["stop"] = o2.stop
  <1>1. PICK a \in SUBSET AlarmIds, cls \in BOOLEAN, ice \in SUBSET FrostIds :
          \E f \in {FanReq(a, cls)}, g \in {SignalGen(a, cls, ice)} :
          \E c1 \in {CompStep(CompInput(a, "comp1", timer["startup"], timer["stop"]),
                              AlarmSignal(a, "comp1", g.sig["comp1"]))} :
          \E c2 \in {CompStep(CompInput(a, "comp2", c1.startup, c1.stop),
                              AlarmSignal(a, "comp2", g.sig["comp2"]))} :
            CoreWrite(a, cls, ice, f, g, c1, c2)
    BY Zenon DEF CoreTick
  <1>2. PICK f, g, s1, s2, m1, m2, c1, c2 :
          /\ f = FanReq(a, cls)
          /\ g = SignalGen(a, cls, ice)
          /\ s1 = CompInput(a, "comp1", timer["startup"], timer["stop"])
          /\ m1 = AlarmSignal(a, "comp1", g.sig["comp1"])
          /\ c1 = CompStep(s1, m1)
          /\ s2 = CompInput(a, "comp2", c1.startup, c1.stop)
          /\ m2 = AlarmSignal(a, "comp2", g.sig["comp2"])
          /\ c2 = CompStep(s2, m2)
          /\ CoreWrite(a, cls, ice, f, g, c1, c2)
    BY <1>1, Zenon
  <1>3. /\ alarms' = a /\ fanFsm' = f.st /\ timer'["fan"] = f.t
        /\ compFsm'["comp1"] = c1.st /\ compFsm'["comp2"] = c2.st
        /\ timer'["comp1"] = c1.t /\ timer'["comp2"] = c2.t
        /\ timer'["startup"] = c2.startup /\ timer'["stop"] = c2.stop
        /\ UNCHANGED bkgVars
    BY <1>2, Zenon DEF CoreWrite, Comp, Device, Timer
  <1>4. FanPass
    <2>1. FanSignal(cls) \in FanSignals
      BY Zenon DEF FanSignal, FanSignals
    <2>2. CASE "E7" \in a
      BY <1>2, <1>3, <2>1, <2>2, Zenon DEF FanReq, FanStep, FanPass, FanSignals
    <2>3. CASE "E7" \notin a
      <3>1. f = FanStep(fanFsm, timer["fan"], FanSignal(cls)) /\ fanFsm \in FanStates
        BY <1>2, <2>3, Zenon DEF FanReq, IInv, TypeOK
      <3> QED BY <1>3, <2>1, <2>3, <3>1, Zenon DEF FanStep, FanPass, FanSignals, FanStates
    <2> QED BY <2>2, <2>3, Zenon
  <1>5. m1 \in CompSignals /\ m2 \in CompSignals
    <2>1. g.sig \in [Comp -> CompSignals]
      BY <1>2, SignalGenFacts, Zenon DEF IInv
    <2> QED BY <1>2, <2>1, Zenon DEF AlarmSignal, CompSignals, Comp
  <1>6. timer["startup"] \in TimerVal /\ timer["stop"] \in TimerVal
    BY Zenon DEF IInv, TypeOK, Timer
  <1>7. s1 \in CompRec /\ (s1.st = "STOP" \/ WellFormed(s1))
    <2>1. s1 = CompInput(a, "comp1", timer["startup"], timer["stop"]) /\ "comp1" \in Comp
      BY <1>2, Zenon DEF Comp
    <2>2. /\ s1 \in CompRec
          /\ s1.st = "STOP" \/ WellFormed(s1)
          /\ "comp1" \in Mask(a) => s1.st \in {"STOP", "IDLE"}
      BY <1>6, <2>1, MaskedInput
    <2> QED BY <2>2, Zenon
  <1>8. c1 \in CompRec
    BY <1>2, <1>5, <1>7, CompStepType, Zenon
  <1>9. c1.startup \in TimerVal /\ c1.stop \in TimerVal
    BY <1>8, Zenon DEF CompRec
  <1>10. s2 \in CompRec /\ (s2.st = "STOP" \/ WellFormed(s2))
    <2>1. s2 = CompInput(a, "comp2", c1.startup, c1.stop) /\ "comp2" \in Comp
      BY <1>2, Zenon DEF Comp
    <2>2. /\ s2 \in CompRec
          /\ s2.st = "STOP" \/ WellFormed(s2)
          /\ "comp2" \in Mask(a) => s2.st \in {"STOP", "IDLE"}
      BY <1>9, <2>1, MaskedInput
    <2> QED BY <2>2, Zenon
  <1>11. c2 \in CompRec
    BY <1>2, <1>5, <1>10, CompStepType, Zenon
  <1>12. Pass(s1, c1) /\ Pass(s2, c2)
    BY <1>2, <1>5, <1>7, <1>10, CompStepPass, Zenon
  <1>13. /\ s1.st = AlarmState(alarms', "comp1", compFsm["comp1"])
         /\ s2.st = AlarmState(alarms', "comp2", compFsm["comp2"])
         /\ s1.t = timer["comp1"] /\ s2.t = timer["comp2"]
         /\ s1.startup = timer["startup"] /\ s1.stop = timer["stop"]
         /\ s2.startup = c1.startup /\ s2.stop = c1.stop
    BY <1>2, <1>3, Zenon DEF CompInput
  <1> QED BY <1>3, <1>4, <1>7, <1>8, <1>10, <1>11, <1>12, <1>13, Zenon

\* The delays that a tick begins.
LEMMA BeginsFacts ==
  /\ "fan" \in Begins <=> \/ fanFsm' = "INIT" /\ (fanFsm # "INIT" \/ "E7" \in alarms')
                          \/ fanFsm' = "SHUT" /\ fanFsm # "SHUT"
  /\ \A c \in Comp : c \in Begins <=> Started(c) \/ Released(c)
  /\ "startup" \in Begins <=> \E c \in Comp : Started(c)
  /\ "stop" \in Begins <=> \E c \in Comp : Released(c)
  BY Zenon DEF Begins, Comp

\* One core tick and the countdown of a compressor.
LEMMA CompKept ==
  ASSUME NEW c \in Comp, NEW s \in CompRec, NEW o \in CompRec, Pass(s, o),
         compFsm[c] \in CompStates, age[c] \in Nat, timer[c] \in Nat,
         s.st = AlarmState(alarms', c, compFsm[c]), s.t = timer[c],
         compFsm'[c] = o.st, timer'[c] = o.t,
         c \notin raced => Kept(c)
  PROVE  /\ Started(c) <=> s.st = "INIT" /\ o.st = "STARTUP"
         /\ Released(c) <=> s.st = "STOP" /\ o.st = "IDLE"
         /\ Started(c) \/ Released(c) => Over(c)' = 0 /\ timer'[c] >= Needs(c)'
         /\ c \notin raced /\ ~Started(c) /\ ~Released(c) =>
              age[c] >= Over(c)' /\ age[c] + timer'[c] >= Needs(c)'
         /\ compFsm[c] = "IDLE" /\ compFsm'[c] = "INIT" => Lasted(c, StartDelay)
         /\ compFsm[c] = "NORMAL" /\ compFsm'[c] = "SHUTING"
              => Lasted(c, MinRuntime) /\ Lasted(c, LowPressShield)
  <1> USE Delays
  <1>1. c # "fan" /\ o.t \in Nat
    BY DEF Comp, CompRec, TimerVal
  <1>2. s.st \in {"STOP", compFsm[c]} /\ (compFsm[c] \in {"STOP", "IDLE"} => s.st = compFsm[c])
    BY Zenon DEF AlarmState
  <1>3. Needs(c) = IF compFsm[c] \in {"IDLE", "INIT"} THEN StartDelay
                   ELSE IF compFsm[c] = "STARTUP" THEN LowPressShield
                   ELSE IF compFsm[c] \in {"NORMAL", "SHUTING"}
                     THEN Larger(MinRuntime, LowPressShield) ELSE 0
    BY <1>1, Zenon DEF Needs
  <1>4. Needs(c)' = IF o.st \in {"IDLE", "INIT"} THEN StartDelay
                    ELSE IF o.st = "STARTUP" THEN LowPressShield
                    ELSE IF o.st \in {"NORMAL", "SHUTING"}
                      THEN Larger(MinRuntime, LowPressShield) ELSE 0
    BY <1>1, Zenon DEF Needs
  <1>5. Over(c) = IF compFsm[c] = "INIT" THEN StartDelay
                  ELSE IF compFsm[c] = "NORMAL" THEN LowPressShield
                  ELSE IF compFsm[c] = "SHUTING" THEN Larger(MinRuntime, LowPressShield) ELSE 0
    BY Zenon DEF Over
  <1>6. Over(c)' = IF o.st = "INIT" THEN StartDelay
                   ELSE IF o.st = "NORMAL" THEN LowPressShield
                   ELSE IF o.st = "SHUTING" THEN Larger(MinRuntime, LowPressShield) ELSE 0
    BY Zenon DEF Over
  <1>7. Started(c) <=> s.st = "INIT" /\ o.st = "STARTUP"
    BY <1>2, Zenon DEF Started, Pass, CompRec, CompStates
  <1>8. Released(c) <=> s.st = "STOP" /\ o.st = "IDLE"
    BY Zenon DEF Released
  <1>9. Started(c) \/ Released(c) => Over(c)' = 0 /\ timer'[c] >= Needs(c)'
    BY <1>4, <1>6, <1>7, <1>8 DEF Pass
  <1>10. ASSUME c \notin raced, ~Started(c), ~Released(c)
         PROVE  age[c] >= Over(c)' /\ age[c] + timer'[c] >= Needs(c)'
    <2>1. age[c] >= Over(c) /\ age[c] + s.t >= Needs(c)
      BY <1>10, Zenon DEF Kept
    <2>2. CASE o.st = "IDLE"
      BY <1>1, <1>2, <1>3, <1>4, <1>5, <1>6, <1>8, <1>10, <2>1, <2>2 DEF Pass
    <2>3. CASE o.st = "INIT"
      BY <1>1, <1>2, <1>3, <1>4, <1>5, <1>6, <2>1, <2>3 DEF Pass
    <2>4. CASE o.st = "STARTUP"
      BY <1>1, <1>2, <1>3, <1>4, <1>5, <1>6, <1>7, <1>10, <2>1, <2>4, Zenon DEF Pass
    <2>5. CASE o.st = "NORMAL"
      BY <1>1, <1>2, <1>3, <1>4, <1>5, <1>6, <2>1, <2>5 DEF Pass, Larger
    <2>6. CASE o.st = "SHUTING"
      BY <1>1, <1>2, <1>3, <1>4, <1>5, <1>6, <2>1, <2>6 DEF Pass, Larger
    <2>7. CASE o.st = "STOP"
      BY <1>1, <1>4, <1>6, <2>7
    <2> QED BY <2>2, <2>3, <2>4, <2>5, <2>6, <2>7, Zenon DEF CompRec, CompStates
  <1>11. compFsm[c] = "IDLE" /\ o.st = "INIT" => Lasted(c, StartDelay)
    BY <1>2, <1>3 DEF Pass, Kept, Lasted
  <1>12. compFsm[c] = "NORMAL" /\ o.st = "SHUTING"
           => Lasted(c, MinRuntime) /\ Lasted(c, LowPressShield)
    BY <1>2, <1>3, <1>5 DEF Pass, Kept, Lasted, Larger
  <1> QED BY <1>7, <1>8, <1>9, <1>10, <1>11, <1>12, Zenon

Honoured == CompDelayStep /\ IntervalStep /\ FanDelayStep

\* A core tick begins and ends delays, and cuts none short.
LEMMA TickKept ==
  ASSUME IInv, TimedInv, TimedCoreTick
  PROVE  TimedInv' /\ Honoured
  <1> USE Delays
  <1>1. /\ CoreTick /\ UNCHANGED <<bkgPc, bkgAt, bkgReg>>
        /\ age' = [k \in Timer |-> IF k \in Begins THEN 0 ELSE age[k]]
        /\ raced' = raced \ Begins
        /\ stale' = /\ bkgAt \in {"store", "clear"}
                    /\ stale \/ timer'[TimerOrder[bkgPc]] # timer[TimerOrder[bkgPc]]
    <2>1. CoreTick
      BY Zenon DEF TimedCoreTick
    <2>2. UNCHANGED bkgVars
      BY <2>1, TickPasses, Zenon
    <2> QED BY <2>1, <2>2, Zenon DEF TimedCoreTick, bkgVars
  <1>2. /\ \A c \in Comp : compFsm[c] \in CompStates /\ c \in Timer
        /\ {"fan", "startup", "stop"} \subseteq Timer /\ Comp \cap {"fan", "startup", "stop"} = {}
        /\ \A k \in Timer : timer[k] \in Nat /\ age[k] \in Nat /\ age[k] \in 0..Longest(k)
        /\ \A k \in Timer : Longest(k) \in Nat
    BY LongestSuffices DEF IInv, TypeOK, TimedInv, TimedTypeOK, Timer, Device, TimerVal, Comp
  <1>3. TimedTypeOK'
    <2>1. DOMAIN age' = Timer /\ \A k \in Timer : age'[k] \in 0..Longest(k)
      BY <1>1, <1>2
    <2>2. raced' \in SUBSET Timer /\ stale' \in BOOLEAN
      BY <1>1, Zenon DEF TimedInv, TimedTypeOK
    <2> QED BY <2>1, <2>2, Zenon DEF TimedTypeOK, Longest
  <1>4. Fresh'
    BY <1>1, Zenon DEF TimedInv, Fresh
  <1>5. FanPass
    BY <1>1, TickPasses, Zenon
  <1>6. PICK s1, o1, s2, o2 \in CompRec :
          /\ Pass(s1, o1) /\ Pass(s2, o2)
          /\ s1.st = AlarmState(alarms', "comp1", compFsm["comp1"])
          /\ s2.st = AlarmState(alarms', "comp2", compFsm["comp2"])
          /\ s1.t = timer["comp1"] /\ s2.t = timer["comp2"]
          /\ s1.startup = timer["startup"] /\ s1.stop = timer["stop"]
          /\ s2.startup = o1.startup /\ s2.stop = o1.stop
          /\ compFsm'["comp1"] = o1.st /\ compFsm'["comp2"] = o2.st
          /\ timer'["comp1"] = o1.t /\ timer'["comp2"] = o2.t
          /\ timer'["startup"] = o2.startup /\ timer'["stop"] = o2.stop
    BY <1>1, TickPasses, Zenon
  <1>7. "comp1" \in Comp /\ "comp2" \in Comp /\ Comp = {"comp1", "comp2"}
    BY Zenon DEF Comp
  <1>8. \A k \in Timer : k \notin raced => Kept(k)
    BY Zenon DEF TimedInv
  <1> DEFINE Pair(c, s, o) ==
        /\ Started(c) <=> s.st = "INIT" /\ o.st = "STARTUP"
        /\ Released(c) <=> s.st = "STOP" /\ o.st = "IDLE"
        /\ Started(c) \/ Released(c) => Over(c)' = 0 /\ timer'[c] >= Needs(c)'
        /\ c \notin raced /\ ~Started(c) /\ ~Released(c) =>
             age[c] >= Over(c)' /\ age[c] + timer'[c] >= Needs(c)'
        /\ compFsm[c] = "IDLE" /\ compFsm'[c] = "INIT" => Lasted(c, StartDelay)
        /\ compFsm[c] = "NORMAL" /\ compFsm'[c] = "SHUTING"
             => Lasted(c, MinRuntime) /\ Lasted(c, LowPressShield)
  <1>9. Pair("comp1", s1, o1)
    BY <1>2, <1>6, <1>7, <1>8, CompKept, Zenon
  <1>10. Pair("comp2", s2, o2)
    BY <1>2, <1>6, <1>7, <1>8, CompKept, Zenon
  <1>11. CompDelayStep
    BY <1>7, <1>9, <1>10, Zenon DEF CompDelayStep
  <1>12. ASSUME NEW c \in Comp, c \notin raced'
         PROVE  Kept(c)'
    <2>1. c \in Timer /\ (c \in Begins <=> Started(c) \/ Released(c))
      BY <1>2, BeginsFacts, Zenon
    <2>2. age'[c] = IF c \in Begins THEN 0 ELSE age[c]
      BY <1>1, <2>1, Zenon
    <2>3. timer'[c] \in Nat
      BY <1>6, <1>7 DEF CompRec, TimerVal
    <2>4. c \in Begins \/ c \notin raced
      BY <1>1, <1>12, Zenon
    <2>5. /\ Started(c) \/ Released(c) => Over(c)' = 0 /\ timer'[c] >= Needs(c)'
          /\ c \notin raced /\ ~Started(c) /\ ~Released(c) =>
               age[c] >= Over(c)' /\ age[c] + timer'[c] >= Needs(c)'
      BY <1>7, <1>9, <1>10, Zenon
    <2> QED BY <2>1, <2>2, <2>3, <2>4, <2>5 DEF Kept
  <1> HIDE DEF Pair
  <1>13. /\ Started("comp1") <=> s1.st = "INIT" /\ o1.st = "STARTUP"
         /\ Started("comp2") <=> s2.st = "INIT" /\ o2.st = "STARTUP"
         /\ Released("comp1") <=> s1.st = "STOP" /\ o1.st = "IDLE"
         /\ Released("comp2") <=> s2.st = "STOP" /\ o2.st = "IDLE"
    BY <1>9, <1>10, Zenon DEF Pair
  \* The interval between starts, armed by whichever compressor starts.
  <1>14. /\ \A c \in Comp : Started(c) => timer["startup"] = 0 /\ timer'["startup"] = CompInterval
         /\ (\A c \in Comp : ~Started(c)) => timer'["startup"] = timer["startup"]
    BY <1>6, <1>7, <1>13, Zenon DEF Pass
  <1>15. /\ \A c \in Comp : Released(c) => timer["stop"] = 0 /\ timer'["stop"] = CompInterval
         /\ (\A c \in Comp : ~Released(c)) => timer'["stop"] = timer["stop"]
    BY <1>6, <1>7, <1>13, Zenon DEF Pass
  <1>16. \A k \in {"startup", "stop"} :
           /\ Needs(k) = CompInterval /\ Needs(k)' = CompInterval /\ Over(k) = 0 /\ Over(k)' = 0
           /\ k \in Timer
    BY <1>2, <1>7, Zenon DEF Needs, Over
  <1>17. "startup" \notin raced' => Kept("startup")'
    BY <1>1, <1>2, <1>8, <1>14, <1>16, BeginsFacts DEF Kept
  <1>18. "stop" \notin raced' => Kept("stop")'
    BY <1>1, <1>2, <1>8, <1>15, <1>16, BeginsFacts DEF Kept
  <1>19. IntervalStep
    BY <1>2, <1>8, <1>14, <1>15, <1>16 DEF IntervalStep, Kept, Lasted
  \* The fan.
  <1>20. /\ Needs("fan") = IF fanFsm = "INIT" THEN StartDelay
                           ELSE IF fanFsm = "SHUT" THEN FanStopDelay ELSE 0
         /\ Needs("fan")' = IF fanFsm' = "INIT" THEN StartDelay
                            ELSE IF fanFsm' = "SHUT" THEN FanStopDelay ELSE 0
         /\ Over("fan") = 0 /\ Over("fan")' = 0
    BY <1>2, Zenon DEF Needs, Over
  <1>21. timer'["fan"] \in Nat
    BY <1>1, <1>2, CoreTickFacts DEF IInv, TypeOK, TimerVal
  <1>22. "fan" \notin raced' => Kept("fan")'
    BY <1>1, <1>2, <1>5, <1>8, <1>20, <1>21, BeginsFacts DEF FanPass, Kept
  <1>23. FanDelayStep
    BY <1>2, <1>5, <1>8, <1>20 DEF FanDelayStep, FanPass, Kept, Lasted
  <1>24. \A k \in Timer : k \notin raced' => Kept(k)'
    BY <1>12, <1>17, <1>18, <1>22, Zenon DEF Timer, Device
  <1> QED BY <1>3, <1>4, <1>11, <1>19, <1>23, <1>24, Zenon DEF TimedInv, Honoured

\* A countdown is decremented, and from 0 it wraps.
LEMMA Decremented ==
  ASSUME NEW n \in TimerVal
  PROVE  (n - 1) % TimerMod = IF n > 0 THEN n - 1 ELSE TimerMod - 1
  <1>1. TimerMod \in Nat /\ TimerMod > 0 /\ n \in Nat /\ n < TimerMod
    BY Delays DEF TimerVal
  <1>2. CASE n > 0
    BY <1>1, <1>2
  <1>3. CASE n = 0
    <2>1. (0 - 1) % TimerMod \in 0..TimerMod - 1
      BY <1>1
    <2>2. (0 - 1) % TimerMod = TimerMod - 1
      BY <1>1, <2>1, Z3
    <2> QED BY <1>3, <2>2
  <1> QED BY <1>1, <1>2, <1>3

\* bkg's steps leave the states alone.
LEMMA BkgStates ==
  ASSUME IInv, UNCHANGED <<fanFsm, compFsm>>
  PROVE  /\ Honoured
         /\ \A k : Needs(k)' = Needs(k) /\ Over(k)' = Over(k)
  <1>1. \A c \in Comp : ~Started(c) /\ ~Released(c)
    BY Zenon DEF Started, Released, AlarmState, IInv, TypeOK
  <1>2. Honoured
    BY <1>1, Zenon DEF Honoured, CompDelayStep, IntervalStep, FanDelayStep, IInv, TypeOK
  <1>3. \A k : Needs(k)' = Needs(k) /\ Over(k)' = Over(k)
    BY Zenon DEF Needs, Over
  <1> QED BY <1>2, <1>3, Zenon

\* bkg's pass over a countdown takes from it what it adds to its age.
LEMMA PassKept ==
  ASSUME IInv, TimedInv, TimedPass
  PROVE  TimedInv' /\ Honoured
  <1> USE Delays
  <1>0. bkgPc \in 1..5 /\ bkgAt \in {"store", "clear"}
    BY Zenon DEF TimedPass, BkgStore, BkgClear, IInv, TypeOK
  <1>2. PICK k \in Timer : k = TimerOrder[bkgPc]
    BY <1>0 DEF TimerOrder, Timer, Device, Comp
  <1> DEFINE n == IF bkgAt = "store" THEN (bkgReg - 1) % TimerMod ELSE 0
  <1>1. /\ bkgAt \in {"store", "clear"} /\ bkgPc \in 1..5
        /\ timer' = [timer EXCEPT ![k] = n]
        /\ bkgAt' \in {"test", "mode"}
        /\ UNCHANGED <<fanFsm, compFsm>>
        /\ age' = [age EXCEPT ![k] = IF @ < Longest(k) THEN @ + 1 ELSE @]
        /\ raced' = IF stale THEN raced \cup {k} ELSE raced
        /\ stale' = FALSE
    <2>1. bkgAt \in {"store", "clear"} /\ BkgAdvance /\ UNCHANGED coreVars
      BY Zenon DEF TimedPass, BkgStore, BkgClear
    <2>2. timer' = [timer EXCEPT ![k] = n]
      BY <1>2, Zenon DEF TimedPass, BkgStore, BkgClear
    <2> QED BY <1>0, <1>2, <2>1, <2>2, Zenon DEF TimedPass, BkgAdvance, coreVars
  <1>3. /\ timer \in [Timer -> TimerVal] /\ bkgReg \in TimerVal
        /\ DOMAIN age = Timer /\ \A j \in Timer : age[j] \in 0..Longest(j)
        /\ \A j \in Timer : timer[j] \in Nat /\ age[j] \in Nat
        /\ raced \in SUBSET Timer
    BY LongestSuffices DEF IInv, TypeOK, TimedInv, TimedTypeOK, TimerVal
  <1>4. /\ age'[k] = IF age[k] < Longest(k) THEN age[k] + 1 ELSE age[k]
        /\ timer'[k] = n
        /\ DOMAIN age' = Timer
        /\ \A j \in Timer : j # k => age'[j] = age[j] /\ timer'[j] = timer[j]
    BY <1>1, <1>2, <1>3, Zenon
  <1>5. TimedTypeOK'
    <2>1. \A j \in Timer : age'[j] \in 0..Longest(j)
      BY <1>2, <1>3, <1>4, LongestSuffices
    <2>2. raced' \in SUBSET Timer /\ stale' \in BOOLEAN
      BY <1>1, <1>2, <1>3, Zenon
    <2> QED BY <1>4, <2>1, <2>2, Zenon DEF TimedTypeOK, Longest
  <1>6. Fresh'
    BY <1>1, Zenon DEF Fresh
  <1>7. Honoured /\ \A j : Needs(j)' = Needs(j) /\ Over(j)' = Over(j)
    BY <1>1, BkgStates, Zenon
  <1>8. ASSUME k \notin raced'
        PROVE  Kept(k)'
    <2>1. ~stale /\ k \notin raced
      BY <1>1, <1>8, Zenon
    <2>2. age[k] >= Over(k) /\ age[k] + timer[k] >= Needs(k)
      BY <1>2, <2>1, Zenon DEF TimedInv, Kept
    <2>3. /\ Longest(k) \in Nat /\ Longest(k) < TimerMod
          /\ Needs(k) \in Nat /\ Needs(k) <= Longest(k) /\ Over(k) \in Nat
      BY <1>2, LongestSuffices, Zenon
    <2>4. age[k] \in Nat /\ age[k] <= Longest(k) /\ timer[k] \in Nat
      BY <1>2, <1>3, <2>3
    <2>5. CASE bkgAt = "store"
      <3>1. bkgReg = timer[k]
        BY <1>2, <2>1, <2>5, Zenon DEF TimedInv, Fresh
      <3>2. timer'[k] = IF timer[k] > 0 THEN timer[k] - 1 ELSE TimerMod - 1
        BY <1>3, <1>4, <2>5, <3>1, Decremented, Zenon
      <3> HIDE DEF n
      <3> QED BY <1>4, <1>7, <2>2, <2>3, <2>4, <3>2 DEF Kept
    <2>6. CASE bkgAt = "clear"
      <3>1. timer[k] = 0 /\ timer'[k] = 0
        BY <1>2, <1>4, <2>1, <2>6, Zenon DEF TimedInv, Fresh
      <3> QED BY <1>4, <1>7, <2>2, <2>3, <2>4, <3>1 DEF Kept
    <2> QED BY <1>1, <2>5, <2>6, Zenon
  <1>9. ASSUME NEW j \in Timer, j # k, j \notin raced'
        PROVE  Kept(j)'
    <2>1. j \notin raced
      BY <1>1, <1>9, Zenon
    <2> QED BY <1>4, <1>7, <1>9, <2>1, Zenon DEF TimedInv, Kept
  <1> QED BY <1>5, <1>6, <1>7, <1>8, <1>9, Zenon DEF TimedInv

\* bkg's other steps.
LEMMA RestKept ==
  ASSUME IInv, TimedInv, TimedRest \/ UNCHANGED tvars
  PROVE  TimedInv' /\ (TimedRest => Honoured)
  <1>1. UNCHANGED <<fanFsm, compFsm, timer, age, raced, stale>>
    BY Zenon DEF TimedRest, BkgWake, BkgTest, BkgLoad, BkgModeUpdate, coreVars, tvars, vars
  <1>2. Honoured /\ \A k : Needs(k)' = Needs(k) /\ Over(k)' = Over(k)
    BY <1>1, BkgStates, Zenon
  <1>3. TimedTypeOK'
    BY <1>1, Zenon DEF TimedInv, TimedTypeOK, Longest
  <1>4. \A k \in Timer : k \notin raced' => Kept(k)'
    BY <1>1, <1>2, Zenon DEF TimedInv, Kept
  <1>5. Fresh'
    <2>1. CASE BkgWake \/ BkgModeUpdate
      BY <1>1, <2>1 DEF BkgWake, BkgModeUpdate, TimedInv, Fresh, IInv, TypeOK
    <2>2. CASE BkgTest
      <3>1. timer[TimerOrder[bkgPc]] \in Nat
        BY <2>2, Delays DEF BkgTest, IInv, TypeOK, TimerOrder, Timer, Device, Comp, TimerVal
      <3> QED BY <1>1, <2>2, <3>1 DEF BkgTest, TimedInv, Fresh
    <2>3. CASE BkgLoad
      BY <1>1, <2>3, Zenon DEF BkgLoad, TimedInv, Fresh
    <2>4. CASE UNCHANGED tvars
      BY <1>1, <2>4 DEF tvars, vars, bkgVars, TimedInv, Fresh
    <2> QED BY <2>1, <2>2, <2>3, <2>4, Zenon DEF TimedRest
  <1> QED BY <1>2, <1>3, <1>4, <1>5, Zenon DEF TimedInv

LEMMA TimedInitially == TimedInit => TimedInv
  <1> SUFFICES ASSUME TimedInit PROVE TimedInv
    OBVIOUS
  <1>1. /\ timer = [k \in Timer |-> 0] /\ age = [k \in Timer |-> Longest(k)]
        /\ raced = {} /\ stale = FALSE /\ bkgAt = "asleep"
    BY Zenon DEF TimedInit, Init
  <1>2. TimedTypeOK
    <2>1. \A k \in Timer : age[k] = Longest(k) /\ Longest(k) \in 0..Longest(k)
      BY <1>1, LongestSuffices
    <2>2. DOMAIN age = Timer
      BY <1>1, Zenon
    <2> QED BY <1>1, <2>1, <2>2, Zenon DEF TimedTypeOK
  <1>3. Fresh
    BY <1>1, Zenon DEF Fresh
  <1>4. \A k \in Timer : Kept(k)
    BY <1>1, LongestSuffices DEF Kept
  <1> QED BY <1>2, <1>3, <1>4, Zenon DEF TimedInv

\* The timed specification only watches: every step of it is one of
\* Refrigeration.
LEMMA OnlyWatches == TimedSpec => Spec
  <1>1. TimedInit => Init
    BY Zenon DEF TimedInit
  <1>2. [TimedNext]_tvars => [Next]_vars
    BY Zenon DEF TimedNext, TimedCoreTick, TimedPass, TimedRest, Next, Bkg, tvars
  <1> QED BY <1>1, <1>2, PTL DEF TimedSpec, Spec

LEMMA TimedInductive == TimedSpec => []TimedInv /\ [][Honoured]_tvars
  <1>1. IInv /\ TimedInv /\ [TimedNext]_tvars => TimedInv' /\ [Honoured]_tvars
    BY TickKept, PassKept, RestKept, Zenon DEF TimedNext
  <1> QED BY <1>1, TimedInitially, OnlyWatches, Inductive, PTL DEF TimedSpec

----------------------------------------------------------------------------
\* CompDelaysHonoured: for every value of the delays, a released compressor
\* rests for u16Start_Delay passes of bkg before compressor_fsm initialises it
\* again, and a started one runs its minimum time, unless sys_comp_cooldown
\* has stored over the countdown.
THEOREM CompDelaysLast == TimedSpec => CompDelaysHonoured
  <1>1. Honoured => CompDelayStep
    BY Zenon DEF Honoured
  <1> QED BY <1>1, TimedInductive, PTL DEF CompDelaysHonoured

\* IntervalsHonoured: for every value of the delays, two starts and two stops
\* are u16Comp_Interval passes of bkg apart, unless sys_comp_cooldown has
\* stored over the interval.
THEOREM IntervalsLast == TimedSpec => IntervalsHonoured
  <1>1. Honoured => IntervalStep
    BY Zenon DEF Honoured
  <1> QED BY <1>1, TimedInductive, PTL DEF IntervalsHonoured

\* FanDelaysHonoured: for every value of the delays, the fan waits before it
\* starts and blows on after it is told to stop, unless a fan alarm throws
\* fan_fsm_exe back or sys_comp_cooldown has stored over the countdown.
THEOREM FanDelaysLast == TimedSpec => FanDelaysHonoured
  <1>1. Honoured => FanDelayStep
    BY Zenon DEF Honoured
  <1> QED BY <1>1, TimedInductive, PTL DEF FanDelaysHonoured
=============================================================================
