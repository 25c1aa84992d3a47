----------------------------- MODULE WaterMaking -----------------------------
(***************************************************************************)
(* When the machine makes water and ice water: Sys_Fan_CP_WL decides why   *)
(* the fan and the compressors rest, Cold_Water_exe moves the two valves   *)
(* of the ice water, Defrost_req_exe finds frost on the evaporators, and   *)
(* sys_comp_cooldown counts their delays down.  The actions are steps of   *)
(* core and of bkg; ReqExecution says who may take one when.               *)
(*                                                                         *)
(* Fan_Close and both words of Comp_Close are always written alike and are *)
(* one set.  A temperature is known by the side of its two thresholds on   *)
(* which it lies.  Left out: PowerOn_Time, which only this code reads, the *)
(* REQ_TEST trace words, and the BD_COLD and WV_TEST variants, which the   *)
(* build does not select.                                                  *)
(***************************************************************************)
EXTENDS Integers, FiniteSets

CONSTANTS
  CfDelay,     \* CF_DELAY: periods before the first look at the humidity
  ColdStart,   \* COLD_START_DELAY
  ColdFv,      \* COLD_FV_DELAY
  CheckDelay,  \* TH_Check_Delay after a start
  Interval,    \* u16TH_Interal * 60
  Wrap         \* the size of the 16-bit TH_Check_Interval, 65536

ASSUME MakingAssumption ==
  /\ {CfDelay, ColdStart} \subseteq Nat \ {0}
  /\ {ColdFv, CheckDelay, Interval, Wrap} \subseteq Nat
  /\ Interval < Wrap /\ ColdStart < Wrap

VARIABLES
  set,      \* the settings: where the water comes from, ice water, the noise
            \* mode, and whether there is a float for the middle level
  closed,   \* Fan_Close: why nothing may run
  full,     \* Water_Full
  making,   \* u8WL_Start
  started,  \* u8FCP_Start
  offset,   \* u8Offset_CNT
  delay,    \* TH_Check_Delay
  cd,       \* TH_Check_Interval and Cold_Delay[0], which bkg counts down
  cold,     \* Cold_Water
  chill,    \* u8Coldwater
  fv,       \* Cold_Delay[1]
  valves,   \* the requested valves of the ice water, CV and WV
  frost,    \* the evaporators with their DEFROST status bit set
  pc, k, reg,  \* bkg: its place, the countdown it is at, its register
  owed,     \* history: passes of bkg that an armed Cold_Delay[0] must last
  spoilt    \* history: bkg has overwritten what core wrote to
            \* TH_Check_Interval, and the next look is still to come

decision == <<closed, full, making, started, offset>>
ice == <<cold, chill, fv, valves>>
bkgVars == <<pc, k, reg, delay>>
history == <<owed, spoilt>>
makingVars == <<set, decision, ice, frost, cd, bkgVars, history>>

Settings == [air : BOOLEAN, ice : BOOLEAN, ln : {"QUIET", "DAY", "NIGHT"},
             float : BOOLEAN]

MakingInit ==
  /\ closed = {} /\ full = FALSE /\ making = FALSE /\ started = FALSE
  /\ offset = 0 /\ delay = CheckDelay
  /\ cd = [interval |-> 0, cold |-> 0]
  /\ cold = FALSE /\ chill = FALSE /\ fv = 0 /\ valves = {}
  /\ frost = {}
  /\ pc = "sleep" /\ k = "cold" /\ reg = 0
  /\ owed = 0 /\ spoilt = FALSE

----------------------------------------------------------------------------
\* Sys_Fan_CP_WL.  First the floats: a full tank, or by day a tank above the
\* middle that was not being filled.
Brim(level) == level \cap {"S_U", "D_U", "D_M"} # {}

Enough(level) ==
  set.ln = "DAY" /\ "D_ML" \in level /\ ~making /\ ~cold

\* Faulty variant: in ice water mode the tank may always be full.
WaterloggedIce(level) ==
  IF Brim(level) THEN ~(set.ice /\ level \cap {"S_U", "D_U"} = {})
  ELSE Enough(level)

Waterlogged(level) ==
  IF Brim(level)
  THEN ~(cold /\ set.ice /\ level \cap {"S_U", "D_U"} = {})
  ELSE Enough(level)

Filling(level) ==
  CASE Brim(level) -> FALSE
    [] ~Brim(level) /\ (set.ln = "NIGHT" \/ (set.ln = "DAY" /\ "D_ML" \notin level)) -> TRUE
    [] OTHER -> making

\* Then temperature and humidity, at intervals.  th holds "start" when they
\* lie within the limits for a start, "stop" when outside those for running.
Due(n) == cd.interval = 0 /\ n = CfDelay

\* Faulty variant: what has started is not looked at again.
HumidOnce(th, due) ==
  IF due /\ ~started THEN [close |-> "start" \notin th, started |-> "start" \in th]
  ELSE [close |-> "TH" \in closed, started |-> started]

Humid(th, due) ==
  CASE due /\ ~started -> [close |-> "start" \notin th, started |-> "start" \in th]
    [] due /\ started /\ "stop" \in th -> [close |-> TRUE, started |-> FALSE]
    [] OTHER -> [close |-> "TH" \in closed, started |-> started]

\* Faulty variant: frost does not bring the next look forward.
AfterLookLate(due) == IF due THEN Interval ELSE cd.interval

\* With frost the next look comes at once.
AfterLook(due) ==
  CASE frost # {} -> 0
    [] frost = {} /\ due -> Interval
    [] OTHER -> cd.interval

Reasons(level, close, off) ==
  (IF Waterlogged(level) THEN {"WL"} ELSE {}) \cup (IF close THEN {"TH"} ELSE {}) \cup
  (IF ~set.air THEN {"WS"} ELSE {}) \cup (IF off THEN {"AL"} ELSE {})

\* in.off: a leak, or the exhaust too hot (alarm_Off).
Sys_Fan_CP_WL(in) ==
  LET n == IF offset = CfDelay THEN CfDelay ELSE offset + 1
      due == Due(n)
      h == Humid(in.th, due)
  IN  /\ closed' = Reasons(in.level, h.close, in.off)
      /\ full' = IF Brim(in.level) THEN full ELSE Enough(in.level)
      /\ making' = Filling(in.level)
      /\ offset' = n
      /\ started' = (h.started /\ frost = {})
      /\ cd' = [cd EXCEPT !.interval = AfterLook(due)]
      /\ spoilt' = (spoilt /\ ~due)
      /\ UNCHANGED <<set, ice, frost, bkgVars, owed>>

----------------------------------------------------------------------------
\* Cold_Water_exe.  Ice water is wanted above the middle level, from the
\* temperature that starts it down to the one that stops it.
Chilled(in) ==
  CASE ~set.ice -> chill
    [] set.ice /\ {"D_L", "D_ML"} \subseteq in.level /\ in.temp = "WARM" -> TRUE
    [] set.ice /\ {"D_L", "D_ML"} \subseteq in.level /\ in.temp = "MILD" -> chill
    [] OTHER -> FALSE

\* Faulty variant: the valves open and close in the same order.
MovedTogether(on, late) ==
  IF on THEN IF late > 0 THEN {"CV"} ELSE {"CV", "WV"}
  ELSE IF late > 0 THEN valves \ {"CV"} ELSE {}

\* CV opens before WV and closes after it.
Moved(on, late) ==
  IF on THEN valves \cup IF late > 0 THEN {"CV"} ELSE {"CV", "WV"}
  ELSE valves \ IF late > 0 THEN {"WV"} ELSE {"CV", "WV"}

\* Faulty variant: a change of mind does not start the delay again.
ArmedOnce(to) == to # chill /\ cd.cold = 0

\* Faulty variant: every period in which ice water is wanted starts it again.
ArmedAlways(to) == to # chill \/ to

\* A change starts both delays.
Armed(to) == to # chill

Cold_Water_exe(in) ==
  IF ~set.air \/ ~set.float THEN UNCHANGED makingVars
  ELSE LET to == Chilled(in)
           on == set.ice /\ to
           start == IF Armed(to) THEN ColdStart ELSE cd.cold
           late == IF Armed(to) THEN ColdFv ELSE fv
       IN  /\ chill' = to
           /\ cold' = on
           /\ cd' = [cd EXCEPT !.cold = start]
           /\ owed' = IF to # chill THEN ColdStart ELSE owed
           /\ fv' = IF set.ice /\ start = 0 /\ late > 0 THEN late - 1 ELSE late
           /\ valves' = CASE ~set.ice -> {}
                          [] set.ice /\ start = 0 -> Moved(on, late)
                          [] OTHER -> valves
           /\ UNCHANGED <<set, decision, frost, bkgVars, spoilt>>

\* Defrost_req_exe: between its thresholds an evaporator keeps its bit.  What
\* bkg does to the bits (ModeStatus) is like a reading between the thresholds.
Defrost_req_exe(in) ==
  /\ frost' = IF set.air THEN (frost \ in.thawed) \cup in.icy ELSE frost
  /\ UNCHANGED <<set, decision, ice, cd, bkgVars, history>>

\* The pad changes the settings.
PadSet(settings) ==
  /\ set' \in settings
  /\ UNCHANGED <<decision, ice, frost, cd, bkgVars, history>>

----------------------------------------------------------------------------
\* sys_comp_cooldown.  Only bkg writes TH_Check_Delay; while it runs the next
\* look is brought forward.
BkgWake ==
  /\ pc = "sleep" /\ pc' = "test" /\ k' = "interval"
  /\ delay' = IF delay > 0 THEN delay - 1 ELSE 0
  /\ cd' = IF delay > 0 THEN [cd EXCEPT !.interval = 0] ELSE cd
  /\ UNCHANGED <<set, decision, ice, frost, reg, history>>

\* Each countdown is tested, loaded and stored; the look is also cleared.
BkgTest ==
  /\ pc = "test"
  /\ IF cd[k] > 0 THEN pc' = "load" /\ k' = k
     ELSE IF k = "interval" THEN pc' = "clear" /\ k' = k
     ELSE pc' = "sleep" /\ k' = k
  /\ UNCHANGED <<set, decision, ice, frost, cd, reg, delay, history>>

BkgLoad ==
  /\ pc = "load" /\ pc' = "store"
  /\ reg' = cd[k]
  /\ UNCHANGED <<set, decision, ice, frost, cd, k, delay, history>>

BkgStore ==
  /\ pc = "store"
  /\ IF k = "interval" THEN pc' = "test" /\ k' = "cold"
     ELSE pc' = "sleep" /\ k' = k
  /\ cd' = [cd EXCEPT ![k] = (reg + Wrap - 1) % Wrap]
  /\ owed' = CASE k = "cold" /\ cd.cold # reg -> 0
               [] k = "cold" /\ cd.cold = reg /\ owed > 0 -> owed - 1
               [] OTHER -> owed
  /\ spoilt' = (spoilt \/ (k = "interval" /\ (reg = 0 \/ cd.interval # reg)))
  /\ reg' = 0
  /\ UNCHANGED <<set, decision, ice, frost, delay>>

BkgClear ==
  /\ pc = "clear" /\ pc' = "test" /\ k' = "cold"
  /\ cd' = [cd EXCEPT !.interval = 0]
  /\ UNCHANGED <<set, decision, ice, frost, reg, delay, history>>

Bkg == BkgWake \/ BkgTest \/ BkgLoad \/ BkgStore \/ BkgClear
=============================================================================
