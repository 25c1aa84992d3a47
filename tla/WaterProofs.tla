---------------------------- MODULE WaterProofs ----------------------------
(***************************************************************************)
(* The water circuit for every configuration, input, request, loss on the  *)
(* heater's line and interleaving with bkg: pump 2 does not run dry, and   *)
(* with the door open no lamp is lit.                                      *)
(*                                                                         *)
(* Only core writes the outputs, so each result is about one pass through  *)
(* the handlers, in their order.  Sterilize_req_exe switches the pump off  *)
(* when the tank reads empty and the lamps off when the door is open, and  *)
(* what follows it must not undo that: Moves bounds the outputs a handler  *)
(* may switch on.                                                          *)
(***************************************************************************)
EXTENDS WaterCircuit, TLAPS

Lights == {"UV1", UV24}

\* The fields the arguments below read.
Whole(x) == {"out", "fsm", "source", "storing", "uv"} \subseteq DOMAIN x

\* From x to y at most the outputs s are switched on, and neither the stage of
\* storage nor the source changes.
Moves(x, y, s) ==
  /\ Whole(y)
  /\ y.fsm = x.fsm /\ y.source = x.source /\ y.storing = x.storing
  /\ y.out \subseteq x.out \cup s

LEMMA Compose ==
  ASSUME NEW x, NEW y, NEW z, NEW s, NEW t, NEW u,
         Moves(x, y, s), Moves(y, z, t), s \subseteq u, t \subseteq u
  PROVE  Moves(x, z, u)
  BY Zenon DEF Moves

\* The BITMAP macros switch what they name.
LEMMA Switches ==
  ASSUME NEW x, Whole(x), NEW s
  PROVE  /\ Moves(x, On(x, s), s) /\ Moves(x, Off(x, s), {})
         /\ Off(x, s).out = x.out \ s
  BY Zenon DEF Whole, Moves, On, Off

LEMMA LampNames == \A c : Lamps(c) \subseteq Lights
  BY Zenon DEF Lamps, Lights

LEMMA Externals ==
  ASSUME NEW x, Whole(x)
  PROVE  /\ Moves(x, External(x, FALSE), {})
         /\ Moves(x, External(x, TRUE), {"FV"})
  BY Zenon DEF External, Whole, Moves, On, Off

LEMMA UvSwitches ==
  ASSUME NEW c, NEW x, Whole(x)
  PROVE  /\ Moves(x, UvOn(c, x), Lamps(c))
         /\ \A d \in BOOLEAN : Moves(x, UvOff(c, x, d), {})
         /\ c.uvDelay # AlwaysLit => UvOff(c, x, FALSE).out = x.out \ Lamps(c)
  <1>1. Moves(x, UvOn(c, x), Lamps(c))
    BY Zenon DEF UvOn, Whole, Moves, On
  <1>2. \A d \in BOOLEAN : Moves(x, UvOff(c, x, d), {})
    BY Zenon DEF UvOff, Whole, Moves, Off
  <1>3. c.uvDelay # AlwaysLit => UvOff(c, x, FALSE).out = x.out \ Lamps(c)
    BY Zenon DEF UvOff, Whole, Off
  <1> QED BY <1>1, <1>2, <1>3, Zenon

----------------------------------------------------------------------------
\* WaterOut_Close switches nothing on.
LEMMA Stops ==
  ASSUME NEW c, NEW x, Whole(x)
  PROVE  Moves(x, Stopped(c, x), {})
  <1> DEFINE begun == [x EXCEPT !.timer["EV2"] = 0, !.flag = "NO"]
             v == External(begun, FALSE)
  <1>1. Moves(x, begun, {})
    BY Zenon DEF Whole, Moves
  <1>2. Moves(begun, v, {})
    BY <1>1, Externals, Zenon DEF Moves
  <1>3. Stopped(c, x) = IF x.ster THEN v ELSE UvOff(c, v, TRUE)
    BY Zenon DEF Stopped
  <1> HIDE DEF begun, v
  <1>4. Whole(v) /\ Moves(x, v, {})
    BY <1>1, <1>2, Compose, Zenon DEF Moves
  <1>5. Moves(v, UvOff(c, v, TRUE), {})
    BY <1>4, UvSwitches, Zenon
  <1> QED BY <1>3, <1>4, <1>5, Zenon DEF Moves

LEMMA Closes ==
  ASSUME NEW c, NEW x, Whole(x), NEW kind
  PROVE  Moves(x, Close(c, x, kind), {})
  <1> DEFINE v == Stopped(c, x)
             y == IF x.ok = "IDLE" THEN Waited(c, v) ELSE Ended(c, v, kind)
             reset == [y EXCEPT !.htime = 0, !.hflow = 0]
  <1>1. Moves(x, v, {})
    BY Stops, Zenon
  <1> HIDE DEF v
  <1>2. ASSUME NEW z, Whole(z), NEW shut PROVE Moves(z, ShutOff(z, shut), {})
    BY <1>2, Switches, Zenon DEF ShutOff
  <1>3. Moves(v, Waited(c, v), {})
    <2> DEFINE z == [v EXCEPT !.wait = IF @ = 0 THEN 0 ELSE @ - 1]
    <2>1. Moves(v, z, {}) BY <1>1, Zenon DEF Moves, Whole
    <2>2. Waited(c, v) = ShutOff(z, ShutLate(c, v)) BY Zenon DEF Waited
    <2> HIDE DEF z
    <2> QED BY <1>2, <2>1, <2>2 DEF Moves
  <1>4. Moves(v, Ended(c, v, kind), {})
    <2> DEFINE z == [Settle(v) EXCEPT
                       !.wait = IF kind = "COLD" /\ c.closeDelay # 0 THEN c.closeDelay ELSE @]
    <2>1. Moves(v, z, {}) BY <1>1, Zenon DEF Moves, Whole, Settle
    <2>2. Ended(c, v, kind) = ShutOff(z, Shut(c, v, kind)) BY Zenon DEF Ended
    <2> HIDE DEF z
    <2> QED BY <1>2, <2>1, <2>2 DEF Moves
  <1>5. Close(c, x, kind) = IF kind = "HEAT" THEN CloseHeat(reset) ELSE y
    BY Zenon DEF Close, v
  <1>6. Moves(x, y, {})
    BY <1>1, <1>3, <1>4, Zenon DEF Moves
  <1> HIDE DEF y
  <1>7. Moves(y, reset, {}) /\ Moves(reset, CloseHeat(reset), {})
    BY <1>6, Zenon DEF Moves, Whole, CloseHeat, HeatSend
  <1> HIDE DEF reset
  <1> QED BY <1>5, <1>6, <1>7, Zenon DEF Moves

LEMMA ClosesAll ==
  ASSUME NEW c, NEW x, Whole(x)
  PROVE  Moves(x, CloseAll(c, x), {})
  <1> DEFINE y == Close(c, x, "COLD")
             z == Close(c, y, "HEAT")
  <1>1. Moves(x, y, {}) BY Closes, Zenon
  <1> HIDE DEF y
  <1>2. Moves(y, z, {}) BY <1>1, Closes, Zenon DEF Moves
  <1> HIDE DEF z
  <1>3. Moves(z, Close(c, z, "ICE"), {}) BY <1>2, Closes, Zenon DEF Moves
  <1>4. CloseAll(c, x) = Close(c, z, "ICE") BY Zenon DEF CloseAll, y, z
  <1> QED BY <1>1, <1>2, <1>3, <1>4, Zenon DEF Moves

LEMMA Limits ==
  ASSUME NEW c, NEW x, Whole(x)
  PROVE  Moves(x, Limited(c, x), {})
  BY ClosesAll, Zenon DEF Limited, Moves

----------------------------------------------------------------------------
\* Dispensing hot water switches at most the pump of the pot on.
LEMMA HeatMoves ==
  ASSUME NEW c, NEW x, Whole(x)
  PROVE  Moves(x, HeatOut(c, x), {"HWP"})
  <1> DEFINE x0 == [x EXCEPT !.closes = 0]
             v == HeatMetered(c, x0)
             m == Metered(x)
             y == [v EXCEPT !.first = @ + 1]
  <1>1. Moves(x, x0, {})
    BY Zenon DEF Moves, Whole
  <1>2. Moves(x0, v, {})
    <2> HIDE DEF x0
    <2>1. Moves(x0, HeatTimed(c, x0), {})
      BY <1>1, Zenon DEF Moves, Whole, HeatTimed, Measured
    <2>2. Moves(x0, Measured(x0, x0.hflow), {}) /\ Moves(x0, x0, {})
      BY <1>1, Zenon DEF Moves, Whole, Measured
    <2> DEFINE z == IF x0.hst = "OUTWATER" THEN Measured(x0, x0.hflow) ELSE HeatTimed(c, x0)
    <2>3. Moves(x0, z, {}) BY <2>1, <2>2, Zenon
    <2>4. v = IF x0.ok # "READ" THEN x0 ELSE [z EXCEPT !.flag = "HEAT"] BY Zenon DEF HeatMetered
    <2> HIDE DEF z, v
    <2> QED BY <2>2, <2>3, <2>4, Zenon DEF Moves, Whole
  <1>3. Moves(x, m, {})
    BY Zenon DEF Moves, Whole, Metered, Measured
  <1>4. Moves(x, HeatPot(c, x), {"HWP"})
    <2>1. HeatPot(c, x) = IF Enough(c, m) THEN Close(c, m, "HEAT")
                          ELSE [On(m, {"HWP"}) EXCEPT !.ok = "READ", !.flag = "HEATPOT"]
      BY Zenon DEF HeatPot
    <2> HIDE DEF m
    <2>2. Moves(m, Close(c, m, "HEAT"), {}) BY <1>3, Closes, Zenon DEF Moves
    <2>3. Moves(m, [On(m, {"HWP"}) EXCEPT !.ok = "READ", !.flag = "HEATPOT"], {"HWP"})
      BY <1>3, Zenon DEF Moves, Whole, On
    <2> QED BY <1>3, <2>1, <2>2, <2>3, Zenon DEF Moves
  <1>5. HeatOut(c, x) =
          IF c.pot THEN Limited(c, HeatPot(c, x))
          ELSE IF Enough(c, v) THEN Limited(c, Close(c, v, "HEAT"))
          ELSE IF v.first < 3 /\ v.cur >= FirstFlow THEN CloseHeat(y)
          ELSE Limited(c, HeatOpen(v))
    BY Zenon DEF HeatOut
  <1> HIDE DEF v, x0
  <1>6. Moves(x, v, {}) BY <1>1, <1>2, Zenon DEF Moves
  <1>7. Moves(v, y, {}) /\ Moves(y, CloseHeat(y), {})
    <2>1. Moves(v, y, {}) BY <1>6 DEF Moves, Whole
    <2> HIDE DEF y
    <2> QED BY <2>1, Zenon DEF Moves, Whole, CloseHeat, HeatSend
  <1>8. Moves(v, Close(c, v, "HEAT"), {})
    BY <1>6, Closes, Zenon DEF Moves
  <1>9. Moves(v, HeatOpen(v), {})
    BY <1>6 DEF Moves, Whole, HeatOpen, HeatSend
  <1> HIDE DEF y
  <1>10. /\ Moves(HeatPot(c, x), Limited(c, HeatPot(c, x)), {})
         /\ Moves(Close(c, v, "HEAT"), Limited(c, Close(c, v, "HEAT")), {})
         /\ Moves(HeatOpen(v), Limited(c, HeatOpen(v)), {})
    BY <1>4, <1>8, <1>9, Limits DEF Moves
  <1> QED BY <1>4, <1>5, <1>6, <1>7, <1>8, <1>9, <1>10, Zenon DEF Moves

\* Dispensing cold water switches pump 2 on only for water from the tank.
LEMMA ColdMoves ==
  ASSUME NEW c, NEW x, Whole(x)
  PROVE  /\ Moves(x, ColdOut(c, x), {"WP", "FV", "EV2", EV3} \cup Lamps(c))
         /\ "WP" \notin x.out /\ x.source # "AIR" => "WP" \notin ColdOut(c, x).out
  <1> DEFINE v == Metered(x)
             source == External(v, TRUE)
             pump == IF v.source = "AIR" THEN Off(On(source, {"WP"}), {"PWP"})
                     ELSE Off(source, {"WP"})
             shut == Off(pump, {"EV1"})
             outlet == Outlet(c, shut)
             lit == UvOn(c, outlet)
             end == [lit EXCEPT !.ok = "READ", !.flag = "COLD"]
  <1>1. Moves(x, v, {})
    BY Zenon DEF Moves, Whole, Metered, Measured
  <1>2. Moves(v, Close(c, v, "COLD"), {})
    <2> HIDE DEF v
    <2> QED BY <1>1, Closes, Zenon DEF Moves
  <1>3. Moves(v, source, {"FV"})
    <2> HIDE DEF v
    <2> QED BY <1>1, Externals, Zenon DEF Moves
  <1>4. /\ Moves(source, pump, {"WP"})
        /\ v.source # "AIR" => "WP" \notin pump.out
    <2> HIDE DEF source, v
    <2>1. Whole(source) BY <1>3, Zenon DEF Moves
    <2>2. CASE v.source = "AIR" BY <2>1, <2>2, Zenon DEF Moves, Whole, On, Off
    <2>3. CASE v.source # "AIR" BY <2>1, <2>3, Zenon DEF Moves, Whole, Off
    <2> QED BY <2>2, <2>3, Zenon
  <1>5. Moves(pump, shut, {})
    <2> HIDE DEF pump
    <2> QED BY <1>4, Switches, Zenon DEF Moves
  <1>6. Moves(shut, outlet, {"EV2", EV3})
    <2> HIDE DEF shut
    <2> QED BY <1>5, Zenon DEF Moves, Whole, Outlet, On, Off
  <1>7. Moves(outlet, lit, Lamps(c))
    <2> HIDE DEF outlet
    <2>1. Whole(outlet) BY <1>6, Zenon DEF Moves
    <2> QED BY <2>1, UvSwitches, Zenon
  <1>8. Moves(lit, end, {})
    <2> HIDE DEF lit
    <2> QED BY <1>7, Zenon DEF Moves, Whole
  <1>9. ColdOut(c, x) = IF Enough(c, v) THEN Close(c, v, "COLD") ELSE end
    BY Zenon DEF ColdOut
  <1> HIDE DEF v, source, pump, shut, outlet, lit, end
  <1>10. Lamps(c) \subseteq Lights
    BY LampNames, Zenon
  <1>11. /\ Moves(x, end, {"WP", "FV", "EV2", EV3} \cup Lamps(c))
         /\ x.source # "AIR" => "WP" \notin end.out
    BY <1>1, <1>3, <1>4, <1>5, <1>6, <1>7, <1>8, <1>10 DEF Moves, Lights, UV24, EV3
  <1>12. Moves(x, Close(c, v, "COLD"), {})
    BY <1>1, <1>2, Zenon DEF Moves
  <1> QED BY <1>9, <1>11, <1>12, Zenon DEF Moves

Dispensers == {"WP", "FV", "EV2", EV3, "HWP"}

\* WaterOut_req_exe: pump 2 is left off when the tank reads empty, and with the
\* door open or during storage nothing is switched on.
LEMMA WaterOutMoves ==
  ASSUME NEW c, NEW i, NEW x, Whole(x)
  PROVE  LET y == WaterOut_req_exe(c, i, x) IN
         /\ Moves(x, y, Dispensers \cup Lamps(c))
         /\ "WP" \notin x.out /\ "D_L" \notin i.level => "WP" \notin y.out
         /\ i.e4 \/ x.storing => Moves(x, y, {})
  <1> DEFINE k0 == IF c.hmiKey THEN WaterOut_Key(c, i, x) ELSE x
             wanted == IF c.hmiKey THEN k0.key # {} ELSE k0.mode # "NO" \/ k0.flow # 0
             level == WaterOut_level(i, x)
             idle == [k0 EXCEPT !.hnum = 0, !.hst = "NO", !.hflow = 0,
                                !.mode = IF level \/ c.hmiKey THEN @ ELSE "NO",
                                !.flow = IF level \/ c.hmiKey THEN @ ELSE 0]
             y == WaterOut_req_exe(c, i, x)
             run == IF HotWanted(k0) THEN HeatOut(c, Timed(k0))
                    ELSE IF ColdWanted(k0, "COLD") \/ ColdWanted(k0, "ICE")
                    THEN Limited(c, ColdOut(c, Timed(k0)))
                    ELSE Limited(c, CloseAll(c, k0))
  <1>1. Moves(x, k0, {})
    BY Zenon DEF Moves, Whole, WaterOut_Key
  <1>2. y = CASE x.storing -> x
              [] ~x.storing /\ (~wanted \/ ~level) -> CloseAll(c, idle)
              [] ~x.storing /\ wanted /\ level /\ i.e4 -> CloseAll(c, k0)
              [] OTHER -> run
    BY Zenon DEF WaterOut_req_exe
  <1> HIDE DEF k0, wanted, y, run
  <1>3. Moves(k0, idle, {}) BY <1>1, Zenon DEF Moves, Whole
  <1>4. level <=> x.source # "AIR" \/ "D_L" \in i.level BY Zenon DEF WaterOut_level
  <1> HIDE DEF idle, level
  <1>5. Moves(x, CloseAll(c, idle), {}) /\ Moves(x, CloseAll(c, k0), {}) /\ Moves(x, x, {})
    <2>1. Moves(k0, CloseAll(c, k0), {}) /\ Moves(idle, CloseAll(c, idle), {})
      BY <1>1, <1>3, ClosesAll DEF Moves
    <2> QED BY <1>1, <1>3, <2>1, Zenon DEF Moves
  <1>6. /\ Moves(x, run, Dispensers \cup Lamps(c))
        /\ "WP" \notin x.out /\ x.source # "AIR" => "WP" \notin run.out
    <2> DEFINE t == Timed(k0)
               cold == ColdOut(c, t)
               all == CloseAll(c, k0)
    <2>1. Moves(x, t, {}) BY <1>1, Zenon DEF Moves, Whole, Timed
    <2> HIDE DEF t
    <2>2. Moves(t, HeatOut(c, t), {"HWP"}) BY <2>1, HeatMoves, Zenon DEF Moves
    <2>3. Whole(t) BY <2>1, Zenon DEF Moves
    <2>4. /\ Moves(t, cold, {"WP", "FV", "EV2", EV3} \cup Lamps(c))
          /\ "WP" \notin t.out /\ t.source # "AIR" => "WP" \notin cold.out
      BY <2>3, ColdMoves, Zenon
    <2>5. Moves(x, all, {}) BY <1>5, Zenon
    <2> HIDE DEF cold, all
    <2>6. Moves(cold, Limited(c, cold), {}) /\ Moves(all, Limited(c, all), {})
      BY <2>4, <2>5, Limits DEF Moves
    <2>7. run = IF HotWanted(k0) THEN HeatOut(c, t)
                ELSE IF ColdWanted(k0, "COLD") \/ ColdWanted(k0, "ICE")
                THEN Limited(c, cold) ELSE Limited(c, all)
      BY Zenon DEF run, t, cold, all
    <2>8. CASE run = HeatOut(c, t) BY <2>1, <2>2, <2>8, Zenon DEF Moves, Dispensers
    <2>9. CASE run = Limited(c, cold) BY <2>1, <2>4, <2>6, <2>9, Zenon DEF Moves, Dispensers
    <2>10. CASE run = Limited(c, all) BY <2>5, <2>6, <2>10, Zenon DEF Moves
    <2> QED BY <2>7, <2>8, <2>9, <2>10, Zenon
  <1>7. \/ y \in {x, CloseAll(c, idle), CloseAll(c, k0)}
        \/ y = run /\ level /\ ~(i.e4 \/ x.storing)
    BY <1>2, Zenon
  <1>8. CASE y \in {x, CloseAll(c, idle), CloseAll(c, k0)}
    BY <1>5, <1>8, Zenon DEF Moves, y
  <1>9. CASE y = run /\ level /\ ~(i.e4 \/ x.storing)
    BY <1>4, <1>6, <1>9, Zenon DEF y
  <1> QED BY <1>7, <1>8, <1>9, Zenon

----------------------------------------------------------------------------
\* Pwp_req_exe does not touch the lamps.
LEMMA PwpMoves ==
  ASSUME NEW c, NEW i, NEW x, Whole(x)
  PROVE  LET y == Pwp_req_exe(c, i, x) IN
         /\ Whole(y) /\ y.fsm = x.fsm
         /\ y.out \subseteq x.out \cup {"PWP", "EV1", "FV"}
         /\ x.storing => y = x
  <1>1. Moves(x, Purify(c, i, x), {"PWP", "EV1", "FV"})
    BY Zenon DEF Purify, Moves, Whole, On, Off
  <1>2. /\ Whole(Fill(i, x)) /\ Fill(i, x).fsm = x.fsm
        /\ Fill(i, x).out \subseteq x.out \cup {"PWP", "EV1", "FV"}
    BY Zenon DEF Fill, Whole, On, Off
  <1> QED BY <1>1, <1>2, Zenon DEF Pwp_req_exe, Moves

\* Sterilize_req_exe leaves pump 2 off when the tank reads empty, and with the
\* door open the lamps of the configuration.
LEMMA SterilizeMoves ==
  ASSUME NEW c, NEW i, NEW x, Whole(x)
  PROVE  LET y == Sterilize_req_exe(c, i, x) IN
         /\ Moves(x, y, {"WP", "EV1"} \cup Lamps(c))
         /\ "D_L" \notin i.level => "WP" \notin y.out
         /\ i.e4 /\ c.uvDelay # AlwaysLit => y.out \subseteq x.out \ Lamps(c)
         /\ x.storing => Moves(x, y, {})
  <1> DEFINE y == Sterilize_req_exe(c, i, x)
             v == [x EXCEPT !.sint = IF @ < c.steInterval THEN @ + 1 ELSE @]
             s == IF v.sint >= c.steInterval /\ ~v.pwp THEN Circulate(c, v) ELSE Rest(v)
             t == IF s.flag = "COLD" THEN Off(s, {"WP", "EV1"})
                  ELSE IF s.stime >= c.steTime THEN Finish(c, s)
                  ELSE s
             dark == UvOff(c, x, FALSE)
             put == [v EXCEPT !.sint = 0, !.stime = 0]
  <1>1. y = IF i.e4 THEN Off(dark, {"WP", "EV2"})
            ELSE IF x.source # "AIR" THEN Off(x, {"PWP", "WP"})
            ELSE IF "D_L" \notin i.level THEN Off(v, {"WP"})
            ELSE IF x.storing THEN Off(put, {"WP", "EV1"})
            ELSE IF t.ster THEN UvOn(c, t) ELSE UvOff(c, t, TRUE)
    BY Zenon DEF Sterilize_req_exe
  <1>2. Moves(x, v, {})
    BY Zenon DEF Moves, Whole
  <1>3. /\ Moves(x, dark, {})
        /\ c.uvDelay # AlwaysLit => dark.out = x.out \ Lamps(c)
    BY UvSwitches, Zenon
  <1> HIDE DEF v, dark, y
  <1>4. Moves(v, put, {})
    BY <1>2, Zenon DEF Moves, Whole
  <1>5. Moves(v, s, {"WP", "EV1"})
    <2>1. Moves(v, Circulate(c, v), {"WP", "EV1"})
      BY <1>2, Zenon DEF Moves, Whole, Circulate, On, Off
    <2>2. Moves(v, Rest(v), {})
      BY <1>2, Zenon DEF Moves, Whole, Rest, Off
    <2> QED BY <2>1, <2>2, Zenon DEF Moves
  <1> HIDE DEF s, put
  <1>6. Moves(s, t, {})
    <2>1. Moves(s, Finish(c, s), {}) BY <1>5, Zenon DEF Moves, Whole, Finish, Off
    <2>2. Moves(s, Off(s, {"WP", "EV1"}), {}) /\ Moves(s, s, {})
      BY <1>5, Zenon DEF Moves, Whole, Off
    <2> QED BY <2>1, <2>2, Zenon
  <1> HIDE DEF t
  <1>7. Whole(t) BY <1>6, Zenon DEF Moves
  <1>8. Moves(t, UvOn(c, t), Lamps(c)) /\ Moves(t, UvOff(c, t, TRUE), {})
    BY <1>7, UvSwitches, Zenon
  <1>9. /\ Moves(dark, Off(dark, {"WP", "EV2"}), {}) /\ "WP" \notin Off(dark, {"WP", "EV2"}).out
        /\ Moves(x, Off(x, {"PWP", "WP"}), {}) /\ "WP" \notin Off(x, {"PWP", "WP"}).out
        /\ Moves(v, Off(v, {"WP"}), {}) /\ "WP" \notin Off(v, {"WP"}).out
        /\ Moves(put, Off(put, {"WP", "EV1"}), {})
    BY <1>2, <1>3, <1>4, Zenon DEF Moves, Whole, Off
  <1>10. CASE i.e4
    BY <1>1, <1>3, <1>9, <1>10, Zenon DEF Moves, y
  <1>11. CASE ~i.e4 /\ (x.source # "AIR" \/ "D_L" \notin i.level \/ x.storing)
    BY <1>1, <1>2, <1>4, <1>9, <1>11, Zenon DEF Moves, y
  <1>12. CASE ~(i.e4 \/ x.source # "AIR" \/ "D_L" \notin i.level \/ x.storing)
    BY <1>1, <1>2, <1>5, <1>6, <1>8, <1>12, Zenon DEF Moves, y
  <1> QED BY <1>10, <1>11, <1>12, Zenon

Stages == {"IDLE", "STROGE_1", "STROGE_2", "STROGE_3", "STOP"}

\* The pumps and valves that each stage of storage has done with; from the
\* first stage on, core has taken the request over.
Emptied(x) ==
  /\ x.fsm # "IDLE" => x.storing
  /\ x.fsm \in {"STROGE_2", "STROGE_3", "STOP"} => x.out \cap {"PWP", "EV1"} = {}
  /\ x.fsm \in {"STROGE_3", "STOP"} => x.out \cap {"WP", "EV2"} = {}

\* Storage_exe: the pump and the valve of a stage are on as long as it lasts.
LEMMA StorageMoves ==
  ASSUME NEW c, NEW i, NEW x, Whole(x), x.fsm \in Stages
  PROVE  LET y == Storage_exe(c, i, x) IN
         /\ Whole(y) /\ y.fsm \in Stages
         /\ y.out \subseteq x.out \cup {"PWP", "EV1", "WP", "EV2"}
         /\ "WP" \notin x.out => "WP" \notin y.out \/ y.fsm = "STROGE_2"
         /\ Emptied(x) => Emptied(y)
         /\ Emptied(x) /\ x.fsm = "STOP" => y.out \cap {"PWP", "WP", "EV1", "EV2"} = {}
  <1> DEFINE y == Storage_exe(c, i, x)
             s == [x EXCEPT !.storing = x.storage]
             one == Drain(c, s, "S_L" \in i.level, "PWP", "EV1", "EV1", c.storeDelay, "STROGE_2")
             two == Drain(c, s, "D_L" \in i.level, "WP", "EV2", "WP", c.storeDelay, "STROGE_3")
  <1>1. Whole(s) /\ s.out = x.out /\ s.fsm = x.fsm
    BY Zenon DEF Whole
  <1>2. CASE x.fsm = "IDLE"
    BY <1>2, Zenon DEF Storage_exe, Whole, Emptied, Stages
  <1>3. CASE x.fsm = "STROGE_1"
    <2>1. CASE s.storing
      <3>1. y = one BY <1>3, <2>1, Zenon DEF Storage_exe
      <3> HIDE DEF s
      <3>2. /\ Whole(one) /\ one.storing = s.storing
            /\ \/ one.fsm = s.fsm /\ one.out = s.out \cup {"PWP", "EV1"}
               \/ one.fsm = "STROGE_2" /\ one.out = s.out \ {"PWP", "EV1"}
        BY <1>1, Zenon DEF Drain, Whole, On, Off
      <3> HIDE DEF one, y
      <3> QED BY <1>1, <1>3, <2>1, <3>1, <3>2 DEF Emptied, Stages, y
    <2>2. CASE ~s.storing
      BY <1>3, <2>2, Zenon DEF Storage_exe, Whole, Off, Emptied, Stages
    <2> QED BY <2>1, <2>2, Zenon
  <1>4. CASE x.fsm = "STROGE_2"
    <2>1. CASE s.storing
      <3>1. y = two BY <1>4, <2>1, Zenon DEF Storage_exe
      <3> HIDE DEF s
      <3>2. /\ Whole(two) /\ two.storing = s.storing
            /\ \/ two.fsm = s.fsm /\ two.out = s.out \cup {"WP", "EV2"}
               \/ two.fsm = "STROGE_3" /\ two.out = s.out \ {"WP", "EV2"}
        BY <1>1, Zenon DEF Drain, Whole, On, Off
      <3> HIDE DEF two, y
      <3> QED BY <1>1, <1>4, <2>1, <3>1, <3>2, Zenon DEF Emptied, Stages, y
    <2>2. CASE ~s.storing
      BY <1>4, <2>2, Zenon DEF Storage_exe, Whole, Off, Emptied, Stages
    <2> QED BY <2>1, <2>2, Zenon
  <1>5. CASE x.fsm = "STROGE_3"
    BY <1>5, Zenon DEF Storage_exe, Whole, Emptied, Stages
  <1>6. CASE x.fsm = "STOP"
    BY <1>6, Zenon DEF Storage_exe, Whole, Emptied, Stages
  <1> QED BY <1>2, <1>3, <1>4, <1>5, <1>6, Zenon DEF Stages

----------------------------------------------------------------------------
\* One period of core.
LEMMA HandlersMove ==
  ASSUME NEW c, NEW i, NEW x, Whole(x), x.fsm \in Stages
  PROVE  LET y == Handlers(c, i, x) IN
         /\ Whole(y) /\ y.fsm \in Stages
         /\ "WP" \in y.out => "D_L" \in i.level \/ y.fsm = "STROGE_2"
         /\ i.e4 /\ c.uvDelay # AlwaysLit => y.out \cap Lamps(c) = {}
         /\ Emptied(x) => Emptied(y)
         /\ Emptied(x) /\ x.fsm = "STOP" => y.out \cap {"PWP", "WP", "EV1", "EV2"} = {}
  <1> DEFINE p == Pwp_req_exe(c, i, x)
             s == Sterilize_req_exe(c, i, p)
             o == WaterOut_req_exe(c, i, s)
             y == Storage_exe(c, i, o)
  <1>1. /\ Whole(p) /\ p.fsm = x.fsm /\ p.out \subseteq x.out \cup {"PWP", "EV1", "FV"}
        /\ x.storing => p = x
    BY PwpMoves, Zenon
  <1> HIDE DEF p
  <1>2. /\ Moves(p, s, {"WP", "EV1"} \cup Lamps(c))
        /\ "D_L" \notin i.level => "WP" \notin s.out
        /\ i.e4 /\ c.uvDelay # AlwaysLit => s.out \subseteq p.out \ Lamps(c)
        /\ p.storing => Moves(p, s, {})
    BY <1>1, SterilizeMoves, Zenon
  <1> HIDE DEF s
  <1>3. Whole(s) BY <1>2, Zenon DEF Moves
  <1>4. /\ Moves(s, o, Dispensers \cup Lamps(c))
        /\ "WP" \notin s.out /\ "D_L" \notin i.level => "WP" \notin o.out
        /\ i.e4 \/ s.storing => Moves(s, o, {})
    BY <1>3, WaterOutMoves, Zenon
  <1> HIDE DEF o
  <1>5. Whole(o) /\ o.fsm = x.fsm
    BY <1>1, <1>2, <1>4, Zenon DEF Moves
  <1>6. /\ Whole(y) /\ y.fsm \in Stages
        /\ y.out \subseteq o.out \cup {"PWP", "EV1", "WP", "EV2"}
        /\ "WP" \notin o.out => "WP" \notin y.out \/ y.fsm = "STROGE_2"
        /\ Emptied(o) => Emptied(y)
        /\ Emptied(o) /\ o.fsm = "STOP" => y.out \cap {"PWP", "WP", "EV1", "EV2"} = {}
    BY <1>5, StorageMoves, Zenon
  <1>7. Handlers(c, i, x) = y
    BY Zenon DEF Handlers, p, s, o
  <1> HIDE DEF y
  <1>8. "WP" \in y.out => "D_L" \in i.level \/ y.fsm = "STROGE_2"
    BY <1>2, <1>4, <1>6, Zenon
  <1>9. Lamps(c) \subseteq Lights
    BY LampNames, Zenon
  <1>10. i.e4 /\ c.uvDelay # AlwaysLit => y.out \cap Lamps(c) = {}
    BY <1>2, <1>4, <1>6, <1>9, Zenon DEF Moves, Lights, UV24
  <1>11. Emptied(x) => Emptied(o)
    <2>1. CASE x.fsm = "IDLE"
      BY <1>5, <2>1, Zenon DEF Emptied
    <2>2. CASE x.fsm # "IDLE" /\ x.storing
      BY <1>1, <1>2, <1>4, <1>5, <2>2, Zenon DEF Emptied, Moves
    <2> QED BY <2>1, <2>2, Zenon DEF Emptied
  <1> QED BY <1>5, <1>6, <1>7, <1>8, <1>10, <1>11, Zenon

WaterInv == Whole(w) /\ w.fsm \in Stages /\ Emptied(w) /\ DryPump

LEMMA WaterInit == Init => WaterInv /\ CoverDark
  <1> SUFFICES ASSUME Init PROVE WaterInv /\ CoverDark
    OBVIOUS
  <1>1. Whole(Boot) /\ Boot.out = {} /\ Boot.fsm = "IDLE"
    BY DEF Boot, Whole
  <1>2. w = Boot
    BY Zenon DEF Init
  <1> QED BY <1>1, <1>2, Zenon DEF WaterInv, CoverDark, DryPump, Emptied, Stages

\* Outside core's period nothing that the properties speak of changes.
LEMMA OthersMove ==
  ASSUME WaterInv, [Bkg \/ Answer \/ PadRequest \/ PadStorage \/ PadSource]_vars
  PROVE  /\ Whole(w') /\ w'.out = w.out /\ w'.fsm = w.fsm /\ w'.storing = w.storing
         /\ UNCHANGED <<conf, in>>
  <1> USE DEF WaterInv, Whole, vars, bkgVars, lineVars
  <1>1. CASE UNCHANGED vars
    BY <1>1, Zenon
  <1>2. CASE Bkg
    BY <1>2, Zenon DEF Bkg, BkgWake, BkgTest, BkgLoad, BkgStore, BkgClear, BkgRest, BkgBook, BkgIdle
  <1>3. CASE Answer
    BY <1>3, Zenon DEF Answer
  <1>4. CASE PadRequest \/ PadStorage \/ PadSource
    BY <1>4, Zenon DEF PadRequest, PadStorage, PadSource
  <1> QED BY <1>1, <1>2, <1>3, <1>4, Zenon

\* What a period of core establishes, from the state the flow meter left.
LEMMA TickMoves ==
  ASSUME WaterInv, CoreTick
  PROVE  /\ WaterInv'
         /\ C.uvDelay # AlwaysLit => CoverDark'
         /\ w.fsm = "STOP" => w'.out \cap {"PWP", "WP", "EV1", "EV2"} = {}
  <1>1. PICK i \in C.inputs, n \in {0, C.gush} :
          /\ \E y \in {Handlers(C, i, [w EXCEPT !.cnt = Min2(@ + n, MaxCount)])} :
               w' = [y EXCEPT !.tx = <<>>]
          /\ in' = i
    BY Zenon DEF CoreTick
  <1> DEFINE x == [w EXCEPT !.cnt = Min2(@ + n, MaxCount)]
             y == Handlers(C, i, x)
  <1>2. Whole(x) /\ x.fsm = w.fsm /\ x.fsm \in Stages /\ Emptied(x)
    BY Zenon DEF WaterInv, Whole, Emptied
  <1>3. w' = [y EXCEPT !.tx = <<>>] /\ in' = i
    BY <1>1, Zenon
  <1> HIDE DEF x
  <1>4. /\ Whole(y) /\ y.fsm \in Stages
        /\ "WP" \in y.out => "D_L" \in i.level \/ y.fsm = "STROGE_2"
        /\ Emptied(y)
        /\ i.e4 /\ C.uvDelay # AlwaysLit => y.out \cap Lamps(C) = {}
        /\ x.fsm = "STOP" => y.out \cap {"PWP", "WP", "EV1", "EV2"} = {}
    BY <1>2, HandlersMove, Zenon
  <1> HIDE DEF y
  <1>5. Whole(w') /\ w'.out = y.out /\ w'.fsm = y.fsm /\ w'.storing = y.storing
    BY <1>3, <1>4, Zenon DEF Whole
  <1>6. C' = C
    BY Zenon DEF CoreTick, C
  <1> QED BY <1>2, <1>3, <1>4, <1>5, <1>6, Zenon
          DEF WaterInv, DryPump, CoverDark, Emptied, Whole

LEMMA WaterStep ==
  ASSUME WaterInv, [Next]_vars
  PROVE  /\ WaterInv'
         /\ C.uvDelay # AlwaysLit /\ CoverDark => CoverDark'
         /\ w.fsm = "STOP" /\ w'.fsm = "IDLE" => w'.out \cap {"PWP", "WP", "EV1", "EV2"} = {}
  <1>1. CASE CoreTick
    BY <1>1, TickMoves, Zenon
  <1>2. CASE [Bkg \/ Answer \/ PadRequest \/ PadStorage \/ PadSource]_vars
    <2>1. /\ Whole(w') /\ w'.out = w.out /\ w'.fsm = w.fsm /\ w'.storing = w.storing
          /\ UNCHANGED <<conf, in>>
      BY <1>2, OthersMove, Zenon
    <2>2. C' = C
      BY <2>1, Zenon DEF C
    <2> QED BY <2>1, <2>2, Zenon DEF WaterInv, DryPump, CoverDark, Emptied
  <1> QED BY <1>1, <1>2, Zenon DEF Next

\* DryPump for every configuration and interleaving: pump 2 runs only with water
\* seen in the drinking tank or while storage empties it (Sterilize_req_exe,
\* WaterOut_level, Storage_exe).
THEOREM PumpNotDry == Spec => []DryPump
  <1>1. WaterInv => DryPump
    BY Zenon DEF WaterInv
  <1> QED BY WaterInit, WaterStep, <1>1, PTL DEF Spec

\* StoredDry for every configuration and interleaving: storage ends with its
\* pumps off and its valves closed (Storage_exe).
THEOREM StorageLeavesDry == Spec => StoredDry
  BY WaterInit, WaterStep, PTL DEF Spec, StoredDry

\* CoverDark for every configuration whose lamps have a delay: with the door
\* open no lamp that u16Sterilize_Mode names is lit (Sterilize_req_exe,
\* UV_req_exe).  A u16UV_Delay of 999 keeps them lit.
THEOREM DoorDarkens ==
  ASSUME \A n \in DOMAIN Configs : Configs[n].uvDelay # AlwaysLit
  PROVE  Spec => []CoverDark
  <1> DEFINE Inv == WaterInv /\ conf \in DOMAIN Configs /\ CoverDark
  <1>1. Init => Inv
    BY WaterInit, Zenon DEF Init
  <1>2. Inv /\ [Next]_vars => Inv'
    <2> SUFFICES ASSUME Inv, [Next]_vars PROVE Inv'
      OBVIOUS
    <2>1. C.uvDelay # AlwaysLit
      BY Zenon DEF C
    <2>2. conf' = conf
      BY Zenon DEF Next, CoreTick, PadRequest, PadStorage, PadSource, Answer, Bkg, BkgWake, BkgTest,
             BkgLoad, BkgStore, BkgClear, BkgRest, BkgBook, BkgIdle, vars
    <2> QED BY <2>1, <2>2, WaterStep, Zenon
  <1>3. Inv => CoverDark
    OBVIOUS
  <1> QED BY <1>1, <1>2, <1>3, PTL DEF Spec
=============================================================================
