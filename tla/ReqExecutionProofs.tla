------------------------- MODULE ReqExecutionProofs -------------------------
(***************************************************************************)
(* What ReqExecution guarantees for every set of scenes and every length   *)
(* of its delays.                                                          *)
(*                                                                         *)
(* The safety properties are not inductive: they depend on what bkg has    *)
(* loaded when core interrupts it.  ReqInv adds that: a countdown that bkg *)
(* has found running still runs when it is stored (Cold_Delay is only ever *)
(* armed, never cleared, by core), what is owed to the valves never        *)
(* exceeds what is left of the countdown, and nothing counts before the    *)
(* first look at the humidity.                                             *)
(***************************************************************************)
EXTENDS ReqExecution, TLAPS

\* The types, with those of bkg's place and register.
Typed ==
  /\ scene \in DOMAIN Scenes /\ in \in S.inputs
  /\ TypeOK
  /\ cd \in [interval : 0..Wrap - 1, cold : 0..ColdStart]
  /\ pc \in {"sleep", "test", "load", "store", "clear"}
  /\ k \in {"interval", "cold"}
  /\ done \in Nat

\* The countdown that bkg is at.
Counting ==
  /\ pc \in {"load", "store"} /\ k = "cold" => cd.cold > 0
  /\ pc = "store" => reg \in 0..(IF k = "cold" THEN ColdStart ELSE Wrap - 1)
  /\ pc = "store" /\ k = "cold" => reg > 0
  /\ pc = "clear" => k = "interval"

\* A delay of the valves that bkg has not overwritten has not run out.
Owed == owed <= cd.cold

\* Before the first look at the humidity its interval does not run.
Unlooked ==
  offset # CfDelay =>
    cd.interval = 0 /\ ~(k = "interval" /\ pc \in {"load", "store"})

\* As long as the limit is below 256, the count of restarts is their number.
Counted == S.max < U8 => times = done /\ done <= S.max

ReqInv ==
  Typed /\ Counting /\ Owed /\ Unlooked /\ Judged /\ ValvesNested /\ Counted

USE DEF S

----------------------------------------------------------------------------
LEMMA Limits ==
  ASSUME scene \in DOMAIN Scenes
  PROVE  /\ Scenes[scene].settings \subseteq Settings
         /\ Scenes[scene].hold \in Nat
         /\ Scenes[scene].rest \in Nat
         /\ Scenes[scene].max \in Nat
  BY ScenesAssumption, Zenon

LEMMA ReqInit == Init => ReqInv
  <1> SUFFICES ASSUME Init PROVE ReqInv
    OBVIOUS
  <1> USE DEF Init, MakingInit, DisplayInit
  <1>1. scene \in DOMAIN Scenes
    OBVIOUS
  <1>2. Typed
    <2>1. in \in S.inputs /\ set \in Settings
      BY <1>1, Limits, Zenon
    <2>2. {full, making, started, cold, chill} \subseteq BOOLEAN
      BY Zenon
    <2>3. /\ offset \in 0..CfDelay /\ delay \in 0..CheckDelay /\ fv \in 0..ColdFv
          /\ cd \in [interval : 0..Wrap - 1, cold : 0..ColdStart]
          /\ cd.interval \in 0..Wrap - 1 /\ cd.cold \in 0..ColdStart
          /\ owed \in 0..ColdStart
      BY MakingAssumption
    <2>4. /\ timeout \in 0..S.hold /\ errors \in 0..S.hold /\ resting \in 0..S.rest
          /\ closing \in 0..CloseTime /\ times \in 0..U8 - 1
      BY <1>1, Limits, DisplayAssumption
    <2> QED BY <1>1, <2>1, <2>2, <2>3, <2>4, Zenon DEF Typed, TypeOK
  <1>3. Counting /\ Owed /\ Unlooked /\ Judged /\ ValvesNested
    BY MakingAssumption DEF Counting, Owed, Unlooked, Judged, ValvesNested
  <1>4. Counted
    BY <1>1, Limits DEF Counted
  <1> QED BY <1>2, <1>3, <1>4, Zenon DEF ReqInv

\* A countdown is decremented, and from 0 it wraps.
LEMMA CountsDown ==
  ASSUME NEW n \in 0..Wrap - 1
  PROVE  /\ (n + Wrap - 1) % Wrap \in 0..Wrap - 1
         /\ n > 0 => (n + Wrap - 1) % Wrap = n - 1
  <1>1. Wrap \in Nat /\ Wrap > 0
    BY MakingAssumption
  <1>2. n + Wrap - 1 \in Nat /\ n - 1 \in Int
    BY <1>1
  <1>3. (n + Wrap - 1) % Wrap \in 0..Wrap - 1
    BY <1>1, <1>2
  <1>4. n > 0 => (n + Wrap - 1) % Wrap = n - 1
    BY <1>1, <1>2, Z3
  <1> QED BY <1>3, <1>4, Zenon

\* Core decides from the floats, the humidity and the frost.
LEMMA DecideStep == ReqInv /\ Decide => ReqInv'
  <1> SUFFICES ASSUME ReqInv, Decide PROVE ReqInv'
    OBVIOUS
  <1> DEFINE n == IF offset = CfDelay THEN CfDelay ELSE offset + 1
             h == Humid(in'.th, Due(n))
  <1>1. /\ in' \in S.inputs /\ scene' = scene
        /\ UNCHANGED <<set, cold, chill, fv, valves, frost, pc, k, reg, delay, owed>>
        /\ UNCHANGED displayVars
        /\ closed' = Reasons(in'.level, h.close, in'.off)
        /\ full' = IF Brim(in'.level) THEN full ELSE Enough(in'.level)
        /\ making' = Filling(in'.level)
        /\ offset' = n
        /\ started' = (h.started /\ frost = {})
        /\ cd' = [cd EXCEPT !.interval = AfterLook(Due(n))]
        /\ spoilt' = (spoilt /\ ~Due(n))
    BY Zenon DEF Decide, Handler, Sys_Fan_CP_WL, ice, bkgVars
  <1> USE DEF displayVars
  <1>2. n \in 0..CfDelay /\ (n = CfDelay \/ n = offset + 1)
    BY MakingAssumption DEF ReqInv, Typed, TypeOK
  <1>3. AfterLook(Due(n)) \in 0..Wrap - 1
    BY MakingAssumption DEF ReqInv, Typed, AfterLook
  <1>4. /\ cd'.interval = AfterLook(Due(n)) /\ cd'.cold = cd.cold
        /\ cd' \in [interval : 0..Wrap - 1, cold : 0..ColdStart]
    BY <1>1, <1>3, Zenon DEF ReqInv, Typed
  <1>5. Typed'
    <2>1. closed' \subseteq {"WL", "TH", "WS", "AL"}
      BY <1>1, Zenon DEF Reasons
    <2>2. full' \in BOOLEAN /\ making' \in BOOLEAN /\ started' \in BOOLEAN
      BY <1>1, Zenon DEF ReqInv, Typed, TypeOK, Enough, Filling
    <2> QED BY <1>1, <1>2, <1>4, <2>1, <2>2, Zenon DEF ReqInv, Typed, TypeOK
  <1>6. Counting' /\ Owed'
    BY <1>1, <1>4, Zenon DEF ReqInv, Counting, Owed
  <1>7. Unlooked'
    <2>1. CASE offset = CfDelay
      BY <1>1, <2>1, Zenon DEF Unlooked
    <2>2. CASE offset # CfDelay
      BY <1>1, <1>2, <1>4, <2>2, MakingAssumption, Zenon DEF ReqInv, Unlooked, AfterLook, Due
    <2> QED BY <2>1, <2>2, Zenon
  <1>8. Judged'
    <2> SUFFICES ASSUME n = CfDelay, "TH" \notin closed', ~started'
                 PROVE  cd'.interval = 0 \/ spoilt'
      BY <1>1, Zenon DEF Judged
    <2>1. ~h.close
      BY <1>1, Zenon DEF Reasons
    <2>2. CASE frost # {}
      BY <1>4, <2>2, Zenon DEF AfterLook
    <2>3. CASE frost = {} /\ Due(n)
      BY <1>1, <2>1, <2>3, Zenon DEF Humid
    <2>4. CASE frost = {} /\ ~Due(n)
      <3>1. "TH" \notin closed /\ ~started
        BY <1>1, <2>1, <2>4, Zenon DEF Humid
      <3>2. offset = CfDelay /\ cd.interval # 0
        BY <2>4, Zenon DEF ReqInv, Unlooked, Due
      <3> QED BY <1>1, <2>4, <3>1, <3>2, Zenon DEF ReqInv, Judged
    <2> QED BY <2>2, <2>3, <2>4, Zenon
  <1>9. ValvesNested' /\ Counted'
    BY <1>1, Zenon DEF ReqInv, ValvesNested, Counted
  <1> QED BY <1>5, <1>6, <1>7, <1>8, <1>9, Zenon DEF ReqInv

\* Core moves the valves of the ice water.
LEMMA CoolStep == ReqInv /\ Cool => ReqInv'
  <1> SUFFICES ASSUME ReqInv, Cool PROVE ReqInv'
    OBVIOUS
  <1> USE DEF displayVars
  <1>1. in' \in S.inputs /\ scene' = scene /\ UNCHANGED displayVars
    BY Zenon DEF Cool, Handler
  <1>2. CASE UNCHANGED makingVars
    BY <1>1, <1>2 DEF makingVars, decision, ice, bkgVars, history, ReqInv, Typed, TypeOK,
      Counting, Owed, Unlooked, Judged, ValvesNested, Counted
  <1>3. CASE set.air /\ set.float
    <2> DEFINE to == Chilled(in')
               on == set.ice /\ to
               start == IF Armed(to) THEN ColdStart ELSE cd.cold
               late == IF Armed(to) THEN ColdFv ELSE fv
    <2>1. /\ chill' = to
          /\ cold' = on
          /\ cd' = [cd EXCEPT !.cold = start]
          /\ owed' = IF to # chill THEN ColdStart ELSE owed
          /\ fv' = IF set.ice /\ start = 0 /\ late > 0 THEN late - 1 ELSE late
          /\ valves' = CASE ~set.ice -> {}
                         [] set.ice /\ start = 0 -> Moved(on, late)
                         [] OTHER -> valves
          /\ UNCHANGED <<set, decision, frost, bkgVars, spoilt>>
      BY <1>3, Zenon DEF Cool, Cold_Water_exe
    <2> USE DEF decision, bkgVars
    <2>2. to \in BOOLEAN
      BY Zenon DEF Chilled, ReqInv, Typed, TypeOK
    <2>3. start \in 0..ColdStart /\ late \in 0..ColdFv /\ (cd.cold > 0 => start > 0)
      BY MakingAssumption DEF ReqInv, Typed, TypeOK
    <2>4. /\ cd' \in [interval : 0..Wrap - 1, cold : 0..ColdStart]
          /\ cd'.interval = cd.interval /\ cd'.cold = start
      BY <2>1, <2>3, Zenon DEF ReqInv, Typed
    <2>5. owed' \in 0..ColdStart /\ owed' <= start
      BY <2>1, MakingAssumption DEF ReqInv, Typed, TypeOK, Owed, Armed
    <2>6. fv' \in 0..ColdFv
      BY <2>1, <2>3, MakingAssumption
    <2>7. valves' \subseteq {"CV", "WV"} /\ ValvesNested'
      BY <2>1, Zenon DEF ReqInv, Typed, TypeOK, ValvesNested, Moved
    <2>8. {full', making', started', cold', chill'} \subseteq BOOLEAN
      BY <2>1, <2>2, Zenon DEF ReqInv, Typed, TypeOK
    <2>9. Typed'
      BY <1>1, <2>1, <2>4, <2>5, <2>6, <2>7, <2>8, Zenon DEF ReqInv, Typed, TypeOK
    <2>10. Counting' /\ Owed'
      BY <2>1, <2>3, <2>4, <2>5, Zenon DEF ReqInv, Counting, Owed
    <2>11. Unlooked' /\ Judged' /\ Counted'
      BY <1>1, <2>1, <2>4, Zenon DEF ReqInv, Unlooked, Judged, Counted
    <2> QED BY <2>7, <2>9, <2>10, <2>11, Zenon DEF ReqInv
  <1> QED BY <1>2, <1>3, Zenon DEF Cool, Cold_Water_exe

\* Core finds frost; the pad changes the settings.
LEMMA DefrostPadStep == ReqInv /\ (Defrost \/ Pad) => ReqInv'
  <1> SUFFICES ASSUME ReqInv, Defrost \/ Pad PROVE ReqInv'
    OBVIOUS
  <1> USE DEF displayVars, decision, ice, bkgVars, history
  <1>1. /\ UNCHANGED <<decision, ice, cd, bkgVars, history, displayVars, scene>>
        /\ in' \in S.inputs
    BY Zenon DEF Defrost, Handler, Defrost_req_exe, Pad, PadSet, ReqInv, Typed
  <1>2. frost' \subseteq {1, 2}
    <2>1. CASE Defrost
      <3>1. in'.icy \subseteq {1, 2}
        BY <1>1, ScenesAssumption, Zenon DEF ReqInv, Typed
      <3> QED BY <2>1, <3>1, Zenon DEF Defrost, Defrost_req_exe, ReqInv, Typed, TypeOK
    <2>2. CASE Pad
      BY <2>2, Zenon DEF Pad, PadSet, ReqInv, Typed, TypeOK
    <2> QED BY <2>1, <2>2, Zenon
  <1>3. set' \in Settings
    BY Limits, Zenon DEF Defrost, Defrost_req_exe, Pad, PadSet, ReqInv, Typed, TypeOK
  <1>4. Typed'
    BY <1>1, <1>2, <1>3, Zenon DEF ReqInv, Typed, TypeOK
  <1>5. Counting' /\ Owed' /\ Unlooked' /\ Judged' /\ ValvesNested' /\ Counted'
    BY <1>1, Zenon DEF ReqInv, Counting, Owed, Unlooked, Judged, ValvesNested, Counted
  <1> QED BY <1>4, <1>5, Zenon DEF ReqInv

\* What a step of the display must show.
DisplayOK ==
  /\ timeout \in 0..S.hold /\ errors \in 0..S.hold
  /\ closing \in 0..CloseTime /\ times \in 0..U8 - 1
  /\ resting \in 0..S.rest /\ done \in Nat
  /\ Counted

LEMMA DisplaySuffices ==
  ASSUME ReqInv, DisplayOK', in' \in S.inputs,
         UNCHANGED <<scene, makingVars>>
  PROVE  ReqInv'
  <1> USE DEF makingVars, decision, ice, bkgVars, history
  <1>1. Typed'
    BY Zenon DEF DisplayOK, ReqInv, Typed, TypeOK
  <1>2. Counting' /\ Owed' /\ Unlooked' /\ Judged' /\ ValvesNested'
    BY Zenon DEF ReqInv, Counting, Owed, Unlooked, Judged, ValvesNested
  <1> QED BY <1>1, <1>2, Zenon DEF DisplayOK, ReqInv

LEMMA TowardsLimit ==
  ASSUME NEW n \in Nat, NEW limit \in Nat
  PROVE  Towards(n, limit) \in 0..limit
  BY DEF Towards

\* Core restarts the display.
LEMMA DisplayStep == ReqInv /\ Display => ReqInv'
  <1> SUFFICES ASSUME ReqInv, Display PROVE ReqInv'
    OBVIOUS
  <1>1. in' \in S.inputs /\ UNCHANGED <<scene, makingVars>>
    BY Zenon DEF Display, Handler
  <1> SUFFICES DisplayOK'
    BY <1>1, DisplaySuffices, Zenon
  <1>2. S.hold \in Nat /\ S.rest \in Nat /\ S.max \in Nat
    BY Limits, Zenon DEF ReqInv, Typed
  <1>3. /\ timeout \in 0..S.hold /\ errors \in 0..S.hold
        /\ closing \in 0..CloseTime /\ times \in 0..U8 - 1
        /\ resting \in 0..S.rest /\ done \in Nat
        /\ S.max < U8 => times = done /\ done <= S.max
    BY Zenon DEF ReqInv, Typed, TypeOK, Counted
  <1>4. CloseTime \in Nat /\ U8 \in Nat /\ U8 > 0
    BY DisplayAssumption
  <1>5. CASE Disabled
    BY <1>1, <1>2, <1>3, <1>4, <1>5 DEF Disabled, DisplayOK, Counted
  <1>6. CASE Exhausted(S)
    BY <1>1, <1>2, <1>3, <1>4, <1>6 DEF Exhausted, DisplayOK, Counted
  <1>7. CASE Watch(S) /\ ~Tired(S)
    <2>1. CASE Needed(S) /\ ~StaysOff(S)
      <3>1. /\ closing' = 0 /\ times' = (times + 1) % U8 /\ done' = done + 1
            /\ timeout' = 0 /\ errors' = 0 /\ resting' = resting
        BY <1>7, <2>1, Zenon DEF Watch
      <3>2. times' \in 0..U8 - 1
        BY <1>3, <1>4, <3>1
      <3>3. S.max < U8 => times + 1 \in 0..U8 - 1 /\ times + 1 <= S.max
        BY <1>2, <1>3, <1>4, <1>7 DEF Tired
      <3>4. S.max < U8 => times' = times + 1
        BY <1>3, <1>4, <3>1, <3>3
      <3> QED BY <1>1, <1>2, <1>3, <1>4, <3>1, <3>2, <3>3, <3>4 DEF DisplayOK, Counted
    <2>2. CASE ~(Needed(S) /\ ~StaysOff(S))
      <3>1. /\ closing' = IF Needed(S) THEN closing + 1 ELSE closing
            /\ timeout' = Towards(timeout, S.hold)
            /\ errors' = IF netErr THEN Towards(errors, S.hold) ELSE errors
            /\ UNCHANGED <<times, done, resting>>
        BY <1>7, <2>2, Zenon DEF Watch
      <3>2. timeout' \in 0..S.hold /\ errors' \in 0..S.hold
        <4>0. timeout \in Nat /\ errors \in Nat
          BY <1>2, <1>3
        <4>1. Towards(timeout, S.hold) \in 0..S.hold /\ Towards(errors, S.hold) \in 0..S.hold
          BY <1>2, <4>0, TowardsLimit, Zenon
        <4> QED BY <1>3, <3>1, <4>1, Zenon
      <3>3. closing' \in 0..CloseTime
        <4>1. Needed(S) => closing + 1 <= CloseTime
          BY <2>2, Zenon DEF StaysOff
        <4>2. closing' = closing \/ (closing + 1 <= CloseTime /\ closing' = closing + 1)
          BY <3>1, <4>1, Zenon
        <4> QED BY <1>3, <1>4, <4>2
      <3> QED BY <1>1, <1>3, <3>1, <3>2, <3>3, Zenon DEF DisplayOK, Counted
    <2> QED BY <2>1, <2>2, Zenon
  <1> QED BY <1>5, <1>6, <1>7, Zenon DEF Display, Restart_DIS_exe

\* The interrupt and the pad change what core watches.
LEMMA ScreenStep == ReqInv /\ Screen => ReqInv'
  <1> SUFFICES ASSUME ReqInv, Screen PROVE ReqInv'
    OBVIOUS
  <1>1. in' \in S.inputs /\ UNCHANGED <<scene, makingVars>>
    BY Zenon DEF Screen, ReqInv, Typed
  <1>2. /\ timeout' \in {0, timeout}
        /\ UNCHANGED <<closing, times, errors, resting, done>>
    BY Zenon DEF Screen, Received, PadNetErr, ScreenOff, ScreenOn
  <1>3. DisplayOK'
    BY <1>1, <1>2, Limits DEF ReqInv, Typed, TypeOK, Counted, DisplayOK
  <1> QED BY <1>1, <1>3, DisplaySuffices, Zenon

\* bkg counts.
LEMMA BackgroundStep == ReqInv /\ Background => ReqInv'
  <1> SUFFICES ASSUME ReqInv, Background PROVE ReqInv'
    OBVIOUS
  <1> USE DEF displayVars, decision, ice, history
  <1>1. /\ UNCHANGED <<scene, in, displayVars, set, decision, ice, frost>>
        /\ Bkg
    BY Zenon DEF Background, Bkg, BkgWake, BkgTest, BkgLoad, BkgStore, BkgClear
  <1>2. Wrap \in Nat /\ ColdStart < Wrap /\ 0 \in 0..Wrap - 1
    BY MakingAssumption
  <1>3. ValvesNested' /\ Counted'
    BY <1>1, Zenon DEF ReqInv, ValvesNested, Counted
  <1>4. CASE BkgWake
    <2>1. /\ pc' = "test" /\ UNCHANGED <<reg, owed, spoilt>>
          /\ k' = "interval"
          /\ delay' = IF delay > 0 THEN delay - 1 ELSE 0
          /\ cd' \in {cd, [cd EXCEPT !.interval = 0]}
      BY <1>4, Zenon DEF BkgWake
    <2>2. /\ cd' \in [interval : 0..Wrap - 1, cold : 0..ColdStart]
          /\ cd'.interval \in {0, cd.interval} /\ cd'.cold = cd.cold
      BY <1>2, <2>1, Zenon DEF ReqInv, Typed
    <2>3. delay' \in 0..CheckDelay
      BY <2>1, MakingAssumption DEF ReqInv, Typed, TypeOK
    <2>4. Typed'
      BY <1>1, <2>1, <2>2, <2>3, Zenon DEF ReqInv, Typed, TypeOK
    <2> QED BY <1>1, <1>3, <2>1, <2>2, <2>4, Zenon DEF ReqInv, Counting, Owed, Unlooked, Judged
  <1>5. CASE BkgTest
    <2>1. UNCHANGED <<cd, reg, delay, owed, spoilt, k>> /\ pc' \in {"load", "clear", "sleep"}
      BY <1>5, Zenon DEF BkgTest
    <2>2. Typed'
      BY <1>1, <2>1, Zenon DEF ReqInv, Typed, TypeOK
    <2>3. Counting' /\ Unlooked'
      BY <1>1, <1>5, <2>1 DEF BkgTest, ReqInv, Typed, Counting, Unlooked
    <2> QED BY <1>1, <1>3, <2>1, <2>2, <2>3, Zenon DEF ReqInv, Owed, Judged
  <1>6. CASE BkgLoad
    <2>1. /\ UNCHANGED <<cd, delay, owed, spoilt, k>>
          /\ pc = "load" /\ pc' = "store" /\ reg' = cd[k]
      BY <1>6, Zenon DEF BkgLoad
    <2>2. Typed'
      BY <1>1, <2>1, Zenon DEF ReqInv, Typed, TypeOK
    <2>3. Counting' /\ Unlooked'
      BY <1>1, <1>2, <2>1, Zenon DEF ReqInv, Typed, Counting, Unlooked
    <2> QED BY <1>1, <1>3, <2>1, <2>2, <2>3, Zenon DEF ReqInv, Owed, Judged
  <1>7. CASE BkgStore
    <2> DEFINE m == (reg + Wrap - 1) % Wrap
    <2>1. /\ pc = "store" /\ reg \in 0..Wrap - 1 /\ k \in {"interval", "cold"}
          /\ cd' = [cd EXCEPT ![k] = m]
          /\ UNCHANGED delay
      BY <1>2, <1>7, MakingAssumption DEF BkgStore, ReqInv, Typed, Counting
    <2>2. m \in 0..Wrap - 1 /\ (reg > 0 => m = reg - 1)
      BY <2>1, CountsDown, Zenon
    <2> HIDE DEF m
    <2>3. CASE k = "interval"
      <3>1. /\ pc' = "test" /\ k' = "cold" /\ owed' = owed
            /\ spoilt' = (spoilt \/ reg = 0 \/ cd.interval # reg)
        BY <1>7, <2>3, Zenon DEF BkgStore
      <3>2. /\ cd' \in [interval : 0..Wrap - 1, cold : 0..ColdStart]
            /\ cd'.interval = m /\ cd'.cold = cd.cold
        BY <2>1, <2>2, <2>3, Zenon DEF ReqInv, Typed
      <3>3. Typed'
        BY <1>1, <2>1, <3>1, <3>2, Zenon DEF ReqInv, Typed, TypeOK
      <3>4. Counting' /\ Owed' /\ Unlooked'
        BY <1>1, <2>1, <2>3, <3>1, <3>2, Zenon DEF ReqInv, Counting, Owed, Unlooked
      <3>5. Judged'
        BY <1>1, <3>1, <3>2, Zenon DEF ReqInv, Judged
      <3> QED BY <1>3, <3>3, <3>4, <3>5, Zenon DEF ReqInv
    <2>4. CASE k = "cold"
      <3>1. /\ pc' = "sleep" /\ k' = "cold" /\ (spoilt => spoilt')
            /\ owed' = CASE cd.cold # reg -> 0
                         [] cd.cold = reg /\ owed > 0 -> owed - 1
                         [] OTHER -> owed
        BY <1>7, <2>4, Zenon DEF BkgStore
      <3>2. reg > 0 /\ reg \in 0..ColdStart
        BY <2>1, <2>4, Zenon DEF ReqInv, Counting
      <3>3. /\ cd' \in [interval : 0..Wrap - 1, cold : 0..ColdStart]
            /\ cd'.cold = reg - 1 /\ cd'.interval = cd.interval
        BY <2>1, <2>2, <2>4, <3>2, MakingAssumption DEF ReqInv, Typed
      <3>4. owed' \in 0..ColdStart /\ owed' <= cd'.cold
        BY <3>1, <3>2, <3>3, MakingAssumption DEF ReqInv, Typed, TypeOK, Owed
      <3>5. Typed'
        BY <1>1, <2>1, <3>1, <3>3, <3>4, Zenon DEF ReqInv, Typed, TypeOK
      <3>6. Counting' /\ Owed' /\ Unlooked' /\ Judged'
        BY <1>1, <3>1, <3>3, <3>4, Zenon DEF ReqInv, Counting, Owed, Unlooked, Judged
      <3> QED BY <1>3, <3>5, <3>6, Zenon DEF ReqInv
    <2> QED BY <2>1, <2>3, <2>4, Zenon
  <1>8. CASE BkgClear
    <2>1. /\ pc' = "test" /\ k' = "cold" /\ UNCHANGED <<reg, delay, owed, spoilt>>
          /\ cd' = [cd EXCEPT !.interval = 0]
      BY <1>8, Zenon DEF BkgClear
    <2>2. /\ cd' \in [interval : 0..Wrap - 1, cold : 0..ColdStart]
          /\ cd'.interval = 0 /\ cd'.cold = cd.cold
      BY <1>2, <2>1, Zenon DEF ReqInv, Typed
    <2>3. Typed'
      BY <1>1, <2>1, <2>2, Zenon DEF ReqInv, Typed, TypeOK
    <2> QED BY <1>1, <1>3, <2>1, <2>2, <2>3, Zenon DEF ReqInv, Counting, Owed, Unlooked, Judged
  <1> QED BY <1>1, <1>4, <1>5, <1>6, <1>7, <1>8, Zenon DEF Bkg

LEMMA Stutter == ReqInv /\ UNCHANGED vars => ReqInv'
  <1> SUFFICES ASSUME ReqInv, UNCHANGED vars PROVE ReqInv'
    OBVIOUS
  <1> USE DEF vars, makingVars, displayVars, decision, ice, bkgVars, history
  <1>1. Typed'
    BY Zenon DEF ReqInv, Typed, TypeOK
  <1>2. Counting' /\ Owed' /\ Unlooked' /\ Judged' /\ ValvesNested' /\ Counted'
    BY Zenon DEF ReqInv, Counting, Owed, Unlooked, Judged, ValvesNested, Counted
  <1> QED BY <1>1, <1>2, Zenon DEF ReqInv

LEMMA ReqStep == ReqInv /\ [Next]_vars => ReqInv'
  BY DecideStep, CoolStep, DefrostPadStep, DisplayStep, ScreenStep, BackgroundStep, Stutter, Zenon
    DEF Next, Core

LEMMA ReqInvariant == Spec => []ReqInv
  BY ReqInit, ReqStep, PTL DEF Spec

----------------------------------------------------------------------------
\* TypeOK: the countdowns, the counters and the sets of Sys_Fan_CP_WL,
\* Cold_Water_exe, Defrost_req_exe and Restart_DIS_exe stay within their
\* ranges, whatever bkg stores over them.
THEOREM ReqTypeCorrect == Spec => []TypeOK
  <1>1. ReqInv => TypeOK
    BY Zenon DEF ReqInv, Typed
  <1> QED BY <1>1, ReqInvariant, PTL

\* Judged: after frost has withdrawn a start, Sys_Fan_CP_WL looks at the
\* humidity in the next period or holds the fan and the compressors, unless
\* sys_comp_cooldown has stored over TH_Check_Interval.
THEOREM JudgedKept == Spec => []Judged
  <1>1. ReqInv => Judged
    BY Zenon DEF ReqInv
  <1> QED BY <1>1, ReqInvariant, PTL

\* ValvesNested: Cold_Water_exe never leaves the refrigerant valve open with
\* the ice water valve closed.
THEOREM ValvesStayNested == Spec => []ValvesNested
  <1>1. ReqInv => ValvesNested
    BY Zenon DEF ReqInv
  <1> QED BY <1>1, ReqInvariant, PTL

\* RestartsLimited: with a limit below 256, which the 8-bit count of
\* Restart_DIS_exe can reach, the display is never restarted more often than
\* the limit between two rests.
THEOREM RestartsCounted == Spec => [](S.max < U8 => RestartsLimited)
  <1>1. ReqInv => (S.max < U8 => RestartsLimited)
    BY Zenon DEF ReqInv, Counted, RestartsLimited
  <1> QED BY <1>1, ReqInvariant, PTL

\* ValveDelay: Cold_Water_exe moves a valve in ice water mode only when the
\* delay of the last change of mind has been counted out by bkg or was stored
\* over by it; a valve cannot move on a delay that still runs.
THEOREM DelayHonoured == Spec => ValveDelay
  <1>1. ReqInv /\ [Next]_vars => [valves' # valves /\ set.ice => owed' = 0]_vars
    <2> SUFFICES ASSUME ReqInv, Next, valves' # valves, set.ice
                 PROVE  owed' = 0
      OBVIOUS
    <2>1. Cool /\ ~UNCHANGED makingVars
      BY Zenon DEF Next, Core, Decide, Sys_Fan_CP_WL, Cool, Defrost, Defrost_req_exe, Display,
        Background, Bkg, BkgWake, BkgTest, BkgLoad, BkgStore, BkgClear, Pad, PadSet,
        Screen, makingVars, ice
    <2> DEFINE to == Chilled(in')
    <2>2. /\ (IF Armed(to) THEN ColdStart ELSE cd.cold) = 0
          /\ owed' = IF to # chill THEN ColdStart ELSE owed
      BY <2>1, Zenon DEF Cool, Cold_Water_exe
    <2>3. to = chill /\ cd.cold = 0
      BY <2>2, MakingAssumption, Zenon DEF Armed
    <2> QED BY <2>2, <2>3 DEF ReqInv, Typed, TypeOK, Owed
  <1> QED BY <1>1, ReqInvariant, PTL DEF Spec, ValveDelay
=============================================================================
