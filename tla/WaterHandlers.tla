---------------------------- MODULE WaterHandlers ----------------------------
(***************************************************************************)
(* The handlers of req_execution.c that move the pumps, valves and lamps   *)
(* of the water circuit: Pwp_req_exe, Sterilize_req_exe, WaterOut_req_exe  *)
(* and Storage_exe, with what they call.  A handler is an operator from    *)
(* the shared state w (the fields of l_sys, g_sys and the static locals    *)
(* that it reads or writes) to the new one; c is the configuration and in  *)
(* what the inputs say in this period.                                     *)
(*                                                                         *)
(* Left out of w: BITMAP bits that nothing reads back (the indicator lamp, *)
(* RH1, EV4, which is only ever switched off), the REQ_TEST trace words,   *)
(* OutWater_Delay, which nobody reads, u16Last_Water, which only totals    *)
(* of bkg do, and u16BD_Time, which stays 0 in a build without BD_COLD.    *)
(***************************************************************************)
EXTENDS Integers, Sequences

CONSTANTS
  MaxTime,       \* WATER_MAXTIME
  CloseHeatMax,  \* CLOSEHEAT_MAX
  WriteHeatMax,  \* WRITEHEAT_MAX
  ChildKeyLose,  \* ChildKey_Lose
  HeatRate,      \* HEAT_FACTOR_500MS, rounded to millilitres
  MaxHeatTime,   \* bound on HeatWater_Time: no portion takes longer to measure
  FirstFlow,     \* the 45 ml after which a cold heater is closed for a while
  U16,           \* the size of a 16-bit timer, 65536
  AlwaysLit      \* the u16UV_Delay that means "never off", 999

ASSUME WaterAssumption ==
  /\ {MaxTime, CloseHeatMax, WriteHeatMax, ChildKeyLose,
      HeatRate, MaxHeatTime, FirstFlow, U16, AlwaysLit} \subseteq Nat \ {0}
  /\ MaxTime < U16

\* One output, DO_RSV2, is both valve 3 and the 24 V lamp.
EV3 == "RSV2"
UV24 == "RSV2"

On(w, s) == [w EXCEPT !.out = @ \cup s]
Off(w, s) == [w EXCEPT !.out = @ \ s]

\* Heat_Send: the command goes onto the serial line.
HeatSend(w, cmd) == [w EXCEPT !.tx = Append(@, cmd)]

----------------------------------------------------------------------------
\* External_Water_exe.
External(w, open) ==
  IF w.source = "AIR" THEN Off(w, {"FV"})
  ELSE IF open THEN On(w, {"FV"})
  ELSE IF w.source = "EXIT" /\ ~w.disinfect THEN Off(w, {"FV"})
  ELSE w

\* UV_req_exe: u16Sterilize_Mode chooses the lamps.
Lamps(c) ==
  CASE c.lamps = 2 -> {UV24}
    [] c.lamps = 3 -> {"UV1", UV24}
    [] OTHER -> {"UV1"}

UvOn(c, w) == [On(w, Lamps(c)) EXCEPT !.uv = c.uvDelay]

\* Faulty variant: the lamps burn on for their delay with the door open too.
UvOffDelayed(c, w, delayed) ==
  IF c.uvDelay = AlwaysLit \/ w.uv # 0 THEN w ELSE Off(w, Lamps(c))

UvOff(c, w, delayed) ==
  LET v == [w EXCEPT !.uv = IF delayed THEN @ ELSE 0]
  IN  IF c.uvDelay = AlwaysLit THEN w
      ELSE IF v.uv # 0 THEN v
      ELSE Off(v, Lamps(c))

\* PluseCalc_Water: the factors of req_execution.h as fractions.
PluseCalc_Water(n) ==
  IF n < 570 THEN (n * 405) \div 1000
  ELSE IF n < 1250 THEN (n * 4) \div 10
  ELSE IF n < 2750 THEN (n * 4) \div 11
  ELSE IF n < 4350 THEN (n * 10) \div 29
  ELSE (n * 40) \div 109

----------------------------------------------------------------------------
\* WaterOut_Close(1, kind).  Settle: the portion is over and waits for bkg.
\* Each outlet then closes in its own order, and the pump stays on
\* while it circulates.
Settle(w) ==
  LET v == [w EXCEPT !.ok = "OUT"]
  IN  IF v.cur = 0 THEN v
      ELSE [v EXCEPT !.cur = 0, !.mode = "NO", !.flow = 0]

\* The result says what to switch off besides the pump, and whether the pump.
Shut(c, w, kind) ==
  LET pumpFirst == c.closeFirst = "PUMP" IN
  CASE kind = "COLD" ->
         IF c.closeDelay = 0 THEN [pump |-> TRUE, valves |-> {"EV2"}]
         ELSE [pump |-> pumpFirst, valves |-> IF pumpFirst THEN {} ELSE {"EV2"}]
    [] kind = "HEAT" ->
         [pump |-> FALSE,
          valves |-> {"HWP"} \cup IF ~pumpFirst \/ w.wait = 0 THEN {"EV2"} ELSE {}]
    [] kind = "ICE" ->
         IF c.ice THEN [pump |-> pumpFirst \/ w.wait = 0, valves |-> {EV3}]
         ELSE [pump |-> FALSE, valves |-> {}]

\* Faulty variant: what closes last is forgotten.
ShutLateNever(c, w) == [pump |-> FALSE, valves |-> {}]

\* What closes last does so when u8CloseDelay has run out.
ShutLate(c, w) ==
  IF w.wait = 1 /\ c.closeDelay # 0
  THEN IF c.closeFirst = "PUMP" THEN [pump |-> FALSE, valves |-> {"EV2"}]
       ELSE [pump |-> TRUE, valves |-> {}]
  ELSE [pump |-> FALSE, valves |-> {}]

CloseHeat(w) ==
  IF w.closes < CloseHeatMax
  THEN HeatSend([w EXCEPT !.closes = @ + 1], "CLOSE")
  ELSE w

\* The time and the source of the portion end, and the lamps go out unless the
\* water circulates.
Stopped(c, w) ==
  LET v == External([w EXCEPT !.timer["EV2"] = 0, !.flag = "NO"], FALSE)
  IN  IF w.ster THEN v ELSE UvOff(c, v, TRUE)

ShutOff(w, shut) ==
  Off(w, shut.valves \cup IF shut.pump /\ ~w.ster THEN {"WP"} ELSE {})

Ended(c, w, kind) ==
  ShutOff([Settle(w) EXCEPT
             !.wait = IF kind = "COLD" /\ c.closeDelay # 0 THEN c.closeDelay ELSE @],
          Shut(c, w, kind))

Waited(c, w) ==
  ShutOff([w EXCEPT !.wait = IF @ = 0 THEN 0 ELSE @ - 1], ShutLate(c, w))

Close(c, w, kind) ==
  LET v == Stopped(c, w)
      x == IF w.ok = "IDLE" THEN Waited(c, v) ELSE Ended(c, v, kind)
  IN  IF kind = "HEAT" THEN CloseHeat([x EXCEPT !.htime = 0, !.hflow = 0]) ELSE x

CloseAll(c, w) == Close(c, Close(c, Close(c, w, "COLD"), "HEAT"), "ICE")

----------------------------------------------------------------------------
\* WaterOut_Key: the buttons, hot water behind the child lock.
WaterOut_Key(c, in, w) ==
  LET unlocked == w.armed \/ w.unlocked
      lock == IF w.armed THEN ChildKeyLose ELSE w.lock
      hot == IF "HEAT" \notin in.keys THEN {}
             ELSE IF unlocked THEN {"HEAT"}
             ELSE w.key \cap {"HEAT"}
      cold == in.keys \cap ({"COLD"} \cup IF c.twoCold THEN {"ICE"} ELSE {})
  IN  [w EXCEPT !.key = hot \cup cold, !.armed = FALSE, !.lock = lock,
                !.unlocked = unlocked /\ lock # 0]

\* Faulty variant: the float of the drinking tank is not looked at.
WaterOut_levelAlways(in, w) == TRUE

\* WaterOut_level.
WaterOut_level(in, w) == w.source # "AIR" \/ "D_L" \in in.level

HotWanted(w) == (w.mode = "HEAT" /\ w.flow # 0) \/ "HEAT" \in w.key
ColdWanted(w, kind) == (w.mode = kind /\ w.flow # 0) \/ kind \in w.key

Measured(w, ml) == [w EXCEPT !.cur = ml]

\* The counter of the flow meter, cleared until the portion has begun.
Metered(w) ==
  LET v == [w EXCEPT !.cnt = IF w.ok = "READ" THEN @ ELSE 0]
  IN  Measured(v, PluseCalc_Water(v.cnt))

Enough(c, w) == w.cur # 0 /\ w.cur >= w.flow /\ ~c.hmiKey

\* Hot water from the heater on the serial line.  A heater that does not
\* report its flow is timed; the first conversion is of a negative number and
\* undefined: c.cast is what the build makes of it.
HeatTimed(c, w) ==
  LET n == IF w.htime < MaxHeatTime THEN w.htime + 1 ELSE w.htime
      ml == IF n = 1 THEN c.cast ELSE (n - 2) * HeatRate
  IN  Measured([w EXCEPT !.htime = n, !.hflow = ml], ml)

HeatMetered(c, w) ==
  IF w.ok # "READ" THEN w
  ELSE [(IF w.hst = "OUTWATER" THEN Measured(w, w.hflow) ELSE HeatTimed(c, w))
          EXCEPT !.flag = "HEAT"]

HeatOpen(w) ==
  LET v == [w EXCEPT !.flag = "HEAT"] IN
  IF w.ok = "SEND" /\ w.hnum >= 3
  THEN HeatSend([v EXCEPT !.ok = "READ"], "READ")
  ELSE IF w.hnum < WriteHeatMax
  THEN HeatSend([v EXCEPT !.hnum = @ + 1, !.ok = "SEND", !.hst = "NO",
                          !.flow = IF "HEAT" \in w.key THEN 5000 ELSE @], "OPEN")
  ELSE v

\* The other kind of heater, a pot with a pump.
HeatPot(c, w) ==
  LET v == Metered(w) IN
  IF Enough(c, v) THEN Close(c, v, "HEAT")
  ELSE [On(v, {"HWP"}) EXCEPT !.ok = "READ", !.flag = "HEATPOT"]

\* Where the water leaves the machine: valve 3 belongs to the ice tank.
Outlets(c) == {"EV2", "HWP"} \cup IF c.ice THEN {EV3} ELSE {}

\* Cold water, through EV2 or, from the ice tank, EV3.
Outlet(c, w) ==
  IF ColdWanted(w, "COLD")
  THEN Off(On(w, {"EV2"}), IF c.ice THEN {EV3} ELSE {})
  ELSE IF c.ice THEN Off(On(w, {EV3}), {"EV2"})
  ELSE w

ColdOut(c, w) ==
  LET v == Metered(w)
      source == External(v, TRUE)
      pump == IF v.source = "AIR" THEN Off(On(source, {"WP"}), {"PWP"})
              ELSE Off(source, {"WP"})
  IN  IF Enough(c, v) THEN Close(c, v, "COLD")
      ELSE [UvOn(c, Outlet(c, Off(pump, {"EV1"})))
              EXCEPT !.ok = "READ", !.flag = "COLD"]

\* The limit on the time of a portion.
Limited(c, w) == IF w.timer["EV2"] >= MaxTime THEN CloseAll(c, w) ELSE w

Timed(w) == [w EXCEPT !.timer["EV2"] = (@ + 1) % U16]

\* Faulty variant: the count of close commands is not cleared for the next
\* portion.
HeatOutKeepsCloses(c, w) ==
  LET v == HeatMetered(c, w) IN
  IF c.pot THEN Limited(c, HeatPot(c, w))
  ELSE IF Enough(c, v) THEN Limited(c, Close(c, v, "HEAT"))
  ELSE IF v.first < 3 /\ v.cur >= FirstFlow
  THEN CloseHeat([v EXCEPT !.first = @ + 1])
  ELSE Limited(c, HeatOpen(v))

\* The hot branch: with the serial heater every period starts with
\* WaterOut_Close(0), and the pause of a cold heater returns past the limit.
HeatOut(c, w) ==
  LET v == HeatMetered(c, [w EXCEPT !.closes = 0]) IN
  IF c.pot THEN Limited(c, HeatPot(c, w))
  ELSE IF Enough(c, v) THEN Limited(c, Close(c, v, "HEAT"))
  ELSE IF v.first < 3 /\ v.cur >= FirstFlow
  THEN CloseHeat([v EXCEPT !.first = @ + 1])
  ELSE Limited(c, HeatOpen(v))

\* WaterOut_req_exe.
WaterOut_req_exe(c, in, w) ==
  LET k == IF c.hmiKey THEN WaterOut_Key(c, in, w) ELSE w
      wanted == IF c.hmiKey THEN k.key # {} ELSE k.mode # "NO" \/ k.flow # 0
      level == WaterOut_level(in, w)
      idle == [k EXCEPT !.hnum = 0, !.hst = "NO", !.hflow = 0,
                        !.mode = IF level \/ c.hmiKey THEN @ ELSE "NO",
                        !.flow = IF level \/ c.hmiKey THEN @ ELSE 0]
  IN  CASE w.storing -> w
        [] ~w.storing /\ (~wanted \/ ~level) -> CloseAll(c, idle)
        [] ~w.storing /\ wanted /\ level /\ in.e4 -> CloseAll(c, k)
        [] OTHER ->
             IF HotWanted(k) THEN HeatOut(c, Timed(k))
             ELSE IF ColdWanted(k, "COLD") \/ ColdWanted(k, "ICE")
             THEN Limited(c, ColdOut(c, Timed(k)))
             ELSE Limited(c, CloseAll(c, k))

----------------------------------------------------------------------------
\* Pwp_req_exe.  Water from outside: no purifying, and filling or
\* disinfecting goes on until the drinking tank is full.
Fill(in, w) ==
  LET v == Off([w EXCEPT !.disinfect = @ /\ w.source = "EXIT"], {"PWP", "EV1"}) IN
  IF w.source = "EXIT" /\ ~w.disinfect THEN v
  ELSE IF "D_M" \in in.level THEN [Off(v, {"FV"}) EXCEPT !.source = "AIR"]
  ELSE On(v, {"EV1", "FV"})

Purify(c, in, w) ==
  LET full == {"S_M", "S_U"} \cap in.level # {} \/ (in.e4 /\ c.openPwp)
      v == Off([w EXCEPT !.disinfect = FALSE], {"FV"})
      run == (full /\ ~in.e9 /\ w.flag # "COLD") \/ (w.pwps /\ ~in.e9)
      empty == {"S_M", "S_L"} \cap in.level = {}
  IN  IF run /\ ~empty
      THEN [On(v, {"PWP", "EV1"}) EXCEPT !.pwp = TRUE, !.pwps = TRUE]
      ELSE [Off(v, {"PWP", "EV1"}) EXCEPT !.pwp = FALSE, !.pwps = FALSE]

Pwp_req_exe(c, in, w) ==
  IF w.storing THEN w
  ELSE IF w.source # "AIR" THEN Fill(in, w)
  ELSE Purify(c, in, w)

----------------------------------------------------------------------------
\* Faulty variant: the time of the circulation stands still.
CirculateUncounted(c, w) ==
  Off(On([w EXCEPT !.ster = TRUE], {"WP", "EV1"}),
      (IF c.closeFirst # "PUMP" \/ w.wait = 0 THEN {"EV2"} ELSE {})
      \cup (IF c.ice THEN {EV3} ELSE {}))

\* Sterilize_req_exe: circulation past the lamps every c.steInterval periods,
\* for c.steTime.  The interval counter has 32 bits and is only compared with its
\* limit; the other one has 16.
Circulate(c, w) ==
  LET v == On([w EXCEPT !.stime = (@ + 1) % U16, !.ster = TRUE],
              {"WP", "EV1"})
  IN  Off(v, (IF c.closeFirst # "PUMP" \/ w.wait = 0 THEN {"EV2"} ELSE {})
             \cup (IF c.ice THEN {EV3} ELSE {}))

Rest(w) ==
  [Off(w, IF w.wait = 0 THEN {"WP"} ELSE {}) EXCEPT !.ster = FALSE]

Finish(c, w) ==
  Off([w EXCEPT !.sint = 0, !.stime = 0, !.ster = FALSE],
      {"EV1"} \cup IF c.closeFirst = "PUMP" \/ w.wait = 0 THEN {"WP"} ELSE {})

Sterilize_req_exe(c, in, w) ==
  LET v == [w EXCEPT !.sint = IF @ < c.steInterval THEN @ + 1 ELSE @]
      s == IF v.sint >= c.steInterval /\ ~v.pwp THEN Circulate(c, v) ELSE Rest(v)
      t == IF s.flag = "COLD" THEN Off(s, {"WP", "EV1"})
           ELSE IF s.stime >= c.steTime THEN Finish(c, s)
           ELSE s
  IN  IF in.e4 THEN Off(UvOff(c, w, FALSE), {"WP", "EV2"})
      ELSE IF w.source # "AIR" THEN Off(w, {"PWP", "WP"})
      ELSE IF "D_L" \notin in.level THEN Off(v, {"WP"})
      ELSE IF w.storing
      THEN Off([v EXCEPT !.sint = 0, !.stime = 0], {"WP", "EV1"})
      ELSE IF t.ster THEN UvOn(c, t) ELSE UvOff(c, t, TRUE)

----------------------------------------------------------------------------
\* Faulty variant: the stage ends with its pump on.
DrainRuns(c, w, wet, pump, valve, timer, delay, next) ==
  IF wet THEN [On(w, {pump, valve}) EXCEPT !.timer[timer] = delay]
  ELSE IF w.timer[timer] # 0 THEN On(w, {pump, valve})
  ELSE [w EXCEPT !.fsm = next,
          !.timer["WP"] = IF next = "STROGE_2" THEN c.storeDelay ELSE @]

\* Faulty variant: the delay is set again while the tank reads empty.
DrainRestarts(c, w, wet, pump, valve, timer, delay, next) ==
  IF wet \/ w.timer[timer] # 0
  THEN [On(w, {pump, valve}) EXCEPT !.timer[timer] = delay]
  ELSE [Off(w, {pump, valve}) EXCEPT !.fsm = next,
          !.timer["WP"] = IF next = "STROGE_2" THEN c.storeDelay ELSE @]

\* Storage_exe: both tanks are pumped empty, one after the other, before the
\* machine is put away.  A stage goes on for a delay after its tank reads
\* empty.
Drain(c, w, wet, pump, valve, timer, delay, next) ==
  IF wet THEN [On(w, {pump, valve}) EXCEPT !.timer[timer] = delay]
  ELSE IF w.timer[timer] # 0 THEN On(w, {pump, valve})
  ELSE [Off(w, {pump, valve}) EXCEPT !.fsm = next,
          !.timer["WP"] = IF next = "STROGE_2" THEN c.storeDelay ELSE @]

Storage_exe(c, in, w) ==
  LET s == [w EXCEPT !.storing = w.storage]
      cancelled == [s EXCEPT !.fsm = "IDLE"]
  IN  CASE w.fsm = "IDLE" ->
             IF s.storing /\ in.quiet
             THEN [s EXCEPT !.timer["EV1"] = c.storeDelay, !.fsm = "STROGE_1"]
             ELSE s
        [] w.fsm = "STROGE_1" ->
             IF s.storing
             THEN Drain(c, s, "S_L" \in in.level, "PWP", "EV1", "EV1",
                        c.storeDelay, "STROGE_2")
             ELSE Off(cancelled, {"PWP", "EV1"})
        [] w.fsm = "STROGE_2" ->
             IF s.storing
             THEN Drain(c, s, "D_L" \in in.level, "WP", "EV2", "WP",
                        c.storeDelay, "STROGE_3")
             ELSE Off(cancelled, {"WP", "EV2"})
        [] w.fsm = "STROGE_3" ->
             IF s.storing THEN [s EXCEPT !.fsm = "STOP"] ELSE cancelled
        [] w.fsm = "STOP" ->
             [cancelled EXCEPT !.storage = FALSE, !.storing = FALSE]

\* req_execution, without the handlers of the refrigeration and the display,
\* which write nothing of w.
Handlers(c, in, w) ==
  Storage_exe(c, in,
    WaterOut_req_exe(c, in,
      Sterilize_req_exe(c, in,
        Pwp_req_exe(c, in, w))))
=============================================================================
