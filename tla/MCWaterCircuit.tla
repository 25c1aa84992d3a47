--------------------------- MODULE MCWaterCircuit ---------------------------
(***************************************************************************)
(* Configurations of WaterCircuit for TLC.  Each adds to the plainest one   *)
(* what its scenario is about.                                              *)
(***************************************************************************)
EXTENDS WaterCircuit, TLC

In(level, e4, keys, quiet) ==
  [level |-> level, e4 |-> e4, e9 |-> FALSE, keys |-> keys, quiet |-> quiet]

Ins(levels, doors, buttons, quiets) ==
  {In(l, e, b, q) : l \in levels, e \in doors, b \in buttons, q \in quiets}

Plain == [
  hmiKey |-> FALSE, pot |-> FALSE, twoCold |-> TRUE, openPwp |-> TRUE,
  closeFirst |-> "PUMP", closeDelay |-> 2, ice |-> FALSE, lamps |-> 3,
  uvDelay |-> 1, steInterval |-> 2, steTime |-> 2, storeDelay |-> 1, cast |-> 0,
  inputs |-> {}, requests |-> {}, store |-> FALSE, sources |-> {},
  timers |-> <<"EV2">>, reports |-> {0}, gush |-> 0, split |-> FALSE,
  turns |-> FALSE]

Want(kind, ml) == [mode |-> kind, flow |-> ml]
Stop == Want("NO", 0)

\* Buttons for both cold outlets; the door and the float of the drinking tank.
\* Valve 3 has its output to itself; the longest time the counter can reach.
Buttons == [Plain EXCEPT
  !.hmiKey = TRUE, !.ice = TRUE, !.lamps = 1, !.steTime = U16 - 1,
  !.inputs = Ins({{"D_L"}}, BOOLEAN, {{}, {"COLD"}, {"ICE"}}, {TRUE})
             \cup Ins({{}}, {FALSE}, {{}, {"COLD"}}, {TRUE})]

\* Hot water by button, behind the child lock.
HotButton == [Plain EXCEPT
  !.hmiKey = TRUE, !.steInterval = 1, !.uvDelay = 0, !.closeDelay = 0,
  !.inputs = Ins({{"D_L"}}, {FALSE}, {{}, {"HEAT"}, {"CHILD"}}, {TRUE})]

\* The same from a pot with a pump.
PotButton == [HotButton EXCEPT !.pot = TRUE]

\* Cold portions of two periods of flow, asked for on the pad.
Portions == [Plain EXCEPT
  !.closeFirst = "VALVE", !.gush = 600, !.lamps = 1, !.closeDelay = 1,
  !.requests = {Want("COLD", 400), Stop},
  !.inputs = Ins({{}, {"D_L"}}, {FALSE}, {{}}, {TRUE})]

\* Hot portions on the pad, from the serial heater, with both outcomes of the
\* undefined conversion; the last also turns to cold water half-way.
HotPortions == [Plain EXCEPT
  !.reports = {60}, !.steInterval = 1, !.steTime = 1, !.uvDelay = 0,
  !.closeDelay = 0, !.requests = {Want("HEAT", 60), Stop},
  !.inputs = Ins({{"D_L"}}, {FALSE}, {{}}, {TRUE})]
HotCast == [HotPortions EXCEPT !.cast = 65532]
HotCold == [HotCast EXCEPT
  !.turns = TRUE, !.requests = {Want("HEAT", 60), Want("COLD", 400)}]

\* Hot portions from the pot.
Pot == [Plain EXCEPT
  !.pot = TRUE, !.gush = 600, !.steInterval = 1, !.steTime = 3, !.closeDelay = 0, !.uvDelay = 0,
  !.requests = {Want("HEAT", 400), Want("COLD", 400), Stop},
  !.inputs = Ins({{"D_L"}}, {FALSE}, {{}}, {TRUE})]

\* The same with a user who turns to cold water half-way, and a door that opens.
Turned == [Pot EXCEPT !.turns = TRUE]
Door == [Turned EXCEPT !.inputs = Ins({{"D_L"}}, BOOLEAN, {{}}, {TRUE})]

\* Storage, also in the middle of a portion.
Storing == [Plain EXCEPT
  !.store = TRUE, !.requests = {Want("COLD", 400)}, !.timers = <<"EV1", "WP">>,
  !.uvDelay = 0, !.closeDelay = 1, !.steInterval = 1, !.steTime = 1,
  !.inputs = Ins({{}, {"D_L"}, {"D_L", "S_L", "S_M"}}, {FALSE}, {{}}, {TRUE})
             \cup {In({"D_L"}, FALSE, {}, FALSE)}]

\* Storage of a machine at rest.
Emptying == [Storing EXCEPT !.requests = {}, !.storeDelay = 2]

\* Water from outside.
Outside == [Plain EXCEPT
  !.sources = {"AIR", "EXIT", "FILL"}, !.requests = {Want("COLD", 400)},
  !.uvDelay = 0, !.closeDelay = 0, !.steInterval = 1,
  !.inputs = Ins({{}, {"D_L", "D_M"}}, {FALSE}, {{}}, {TRUE})]

\* Storage asked for while the purifier runs and the fan has not stopped yet.
Waiting == [Storing EXCEPT
  !.requests = {}, !.inputs = Ins({{}, {"S_L", "S_M"}}, {FALSE}, {{}}, BOOLEAN)]

\* Valve 3 and the 24 V lamp on their one output; the lamps that are never
\* switched off; a circulation longer than its counter.
Shared == [Buttons EXCEPT !.lamps = 3]
Lit == [Shared EXCEPT !.uvDelay = AlwaysLit]
Endless == [Buttons EXCEPT !.steTime = U16]

Named == ("buttons" :> Buttons) @@ ("hotbutton" :> HotButton) @@
         ("potbutton" :> PotButton) @@
         ("portions" :> Portions) @@ ("hotportions" :> HotPortions) @@
         ("hotcast" :> HotCast) @@ ("hotcold" :> HotCold) @@ ("pot" :> Pot) @@ ("door" :> Door) @@
         ("storing" :> Storing) @@ ("emptying" :> Emptying) @@
         ("outside" :> Outside) @@
         ("waiting" :> Waiting) @@ ("turned" :> Turned) @@
         ("shared" :> Shared) @@ ("lit" :> Lit) @@ ("endless" :> Endless)

Only(names, split) == [n \in names |-> [Named[n] EXCEPT !.split = split]]

\* Core runs anywhere in bkg.
Raced == Only({"shared", "hotbutton", "storing", "outside"}, TRUE)

\* Core leaves the booking of a portion whole.
Whole == Only({"buttons", "potbutton", "portions", "hotportions", "hotcast",
               "pot", "emptying"}, FALSE)

RacedPortions == Only({"portions"}, TRUE)
RacedWaiting == Only({"waiting"}, TRUE)
WholeHotCold == Only({"hotcold"}, FALSE)
WholeDoor == Only({"door"}, FALSE)
WholeTurned == Only({"turned"}, FALSE)
WholeShared == Only({"shared"}, FALSE)
WholeEndless == Only({"endless"}, FALSE)
RacedLit == Only({"lit"}, TRUE)
=============================================================================
