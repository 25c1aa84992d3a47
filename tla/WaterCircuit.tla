---------------------------- MODULE WaterCircuit ----------------------------
(***************************************************************************)
(* The water circuit at run time: core executes the handlers of            *)
(* WaterHandlers every 500 ms; bkg, which core preempts anywhere, counts   *)
(* the timers down and books finished portions; the pad writes requests;   *)
(* and the heater hears commands on a serial line that loses some.         *)
(*                                                                         *)
(* The inputs are sampled once per period, and a request of the pad falls  *)
(* between two periods.  The configuration is chosen in Init and stays.    *)
(***************************************************************************)
EXTENDS WaterHandlers, FiniteSets

CONSTANTS
  Configs,   \* the configurations by name, each with what its user and its
             \* sensors do
  MaxLoss,   \* commands to the heater lost in a row
  MaxCount   \* bound on the flow meter: no portion counts as far

ASSUME LossAssumption == MaxLoss \in Nat /\ MaxCount \in Nat

VARIABLES
  conf,      \* the name of the configuration
  in,        \* the inputs of the last period
  w,         \* the shared state of the handlers
  pc, k, reg, \* bkg: its place, the timer it is at, its register
  due,       \* core has run since bkg last woke: bkg sleeps twice as long
  mine,      \* the last step was a period of core
  hot, lost, asked  \* the heater: it is open; the commands it missed in a
             \* row; it owes an answer

bkgVars == <<pc, k, reg, due>>
lineVars == <<hot, lost, asked>>
vars == <<conf, in, w, bkgVars, lineVars, mine>>

C == Configs[conf]

Outputs == {"PWP", "WP", "HWP", "EV1", "EV2", EV3, "FV", "UV1", UV24}

Boot == [
  out |-> {}, mode |-> "NO", flow |-> 0, key |-> {},
  ok |-> "IDLE", flag |-> "NO", cur |-> 0, cnt |-> 0,
  wait |-> 0, timer |-> [t \in {"EV1", "EV2", "WP"} |-> 0], uv |-> 0,
  hnum |-> 0, hst |-> "NO", htime |-> 0, hflow |-> 0, first |-> 0,
  closes |-> 0, tx |-> <<>>,
  armed |-> FALSE, lock |-> 0, unlocked |-> FALSE,
  pwp |-> FALSE, pwps |-> FALSE, ster |-> FALSE, sint |-> 0, stime |-> 0,
  storage |-> FALSE, storing |-> FALSE, fsm |-> "IDLE",
  source |-> "AIR", disinfect |-> FALSE]

Init ==
  /\ conf \in DOMAIN Configs
  /\ in \in C.inputs
  /\ w = Boot
  /\ pc = "sleep" /\ k = 1 /\ reg = 0 /\ due = FALSE
  /\ hot = FALSE /\ lost = 0 /\ asked = FALSE /\ mine = FALSE

----------------------------------------------------------------------------
\* UART_Send waits for each byte to leave, so the heater hears the commands of
\* a period within it.  The last one it hears is the i-th; what
\* it misses is bounded.
Hear(tx) ==
  \E i \in 0..Len(tx) :
    /\ lost' = IF tx # <<>> /\ i = 0 THEN lost + Len(tx) ELSE
               IF tx = <<>> THEN lost ELSE Len(tx) - i
    /\ lost' <= MaxLoss
    /\ hot' = IF i = 0 \/ tx[i] = "READ" THEN hot ELSE tx[i] = "OPEN"
    /\ asked' = (asked \/ \E j \in 1..i : tx[j] = "READ")

\* A period of core: the floats, buttons and alarms are as they are now, and
\* the flow meter has counted.
Min2(a, b) == IF a < b THEN a ELSE b
Water(x) == Outlets(C) \cap x.out # {}

CoreTick ==
  /\ mine' = TRUE
  /\ \E i \in C.inputs, n \in {0, C.gush} :
       /\ n # 0 => Water(w)
       /\ \E x \in {Handlers(C, i, [w EXCEPT !.cnt = Min2(@ + n, MaxCount)])} :
            /\ w' = [x EXCEPT !.tx = <<>>]
            /\ Hear(x.tx)
       /\ in' = i
  /\ due' = TRUE
  /\ UNCHANGED <<conf, pc, k, reg>>

\* The pad writes u16Water_Mode and u16Water_Flow; a zero mode is written alone.
\* Without C.turns the user asks for another kind only when the last portion
\* is over.
PadRequest ==
  /\ mine' = FALSE
  /\ \E r \in C.requests :
       /\ C.turns \/ r.mode \in {"NO", w.mode} \/ w.ok = "IDLE"
       /\ w' = [w EXCEPT !.mode = r.mode, !.flow = IF r.mode = "NO" THEN @ ELSE r.flow]
  /\ UNCHANGED <<conf, in, bkgVars, lineVars>>

\* It asks for storage, or takes that back.
PadStorage ==
  /\ mine' = FALSE
  /\ C.store
  /\ w' = [w EXCEPT !.storage = ~@]
  /\ UNCHANGED <<conf, in, bkgVars, lineVars>>

\* It chooses where the water comes from, or to disinfect.
PadSource ==
  /\ mine' = FALSE
  /\ \E s \in C.sources, d \in BOOLEAN :
       w' = [w EXCEPT !.source = s, !.disinfect = d]
  /\ UNCHANGED <<conf, in, bkgVars, lineVars>>

----------------------------------------------------------------------------
\* sys_comp_cooldown: each timer is tested, loaded and stored.
Timer == C.timers[k]

NextTimer ==
  IF k < Len(C.timers) THEN k' = k + 1 /\ pc' = "test"
  ELSE k' = 1 /\ pc' = "rest"

BkgWake ==
  /\ mine' = FALSE
  /\ pc = "sleep" /\ due /\ due' = FALSE
  /\ pc' = "test"
  /\ UNCHANGED <<conf, in, w, k, reg, lineVars>>

BkgTest ==
  /\ mine' = FALSE
  /\ pc = "test"
  /\ pc' = IF w.timer[Timer] > 0 THEN "load" ELSE "clear"
  /\ UNCHANGED <<conf, in, w, k, reg, due, lineVars>>

BkgLoad ==
  /\ mine' = FALSE
  /\ pc = "load" /\ pc' = "store"
  /\ reg' = w.timer[Timer]
  /\ UNCHANGED <<conf, in, w, k, due, lineVars>>

BkgStore ==
  /\ mine' = FALSE
  /\ pc = "store"
  /\ w' = [w EXCEPT !.timer[Timer] = (reg + U16 - 1) % U16]
  /\ reg' = 0
  /\ NextTimer
  /\ UNCHANGED <<conf, in, due, lineVars>>

BkgClear ==
  /\ mine' = FALSE
  /\ pc = "clear"
  /\ w' = [w EXCEPT !.timer[Timer] = 0]
  /\ NextTimer
  /\ UNCHANGED <<conf, in, reg, due, lineVars>>

\* The child lock and the delay of the lamps.
BkgRest ==
  /\ mine' = FALSE
  /\ pc = "rest" /\ pc' = "book"
  /\ w' = [w EXCEPT !.armed = "CHILD" \in in.keys,
                    !.lock = IF @ = 0 THEN 0 ELSE @ - 1,
                    !.uv = IF @ = 0 THEN 0 ELSE @ - 1]
  /\ UNCHANGED <<conf, in, k, reg, due, lineVars>>

\* run_time_process: a finished portion is booked.  The totals, to which
\* u16Last_Water is added here, are read by nobody in the circuit.  Core may
\* run between the test and the store; C.split FALSE leaves that out.
BkgBook ==
  /\ mine' = FALSE
  /\ pc = "book"
  /\ IF w.ok = "OUT" /\ C.split THEN pc' = "idle" /\ w' = w
     ELSE /\ pc' = "sleep"
          /\ w' = [w EXCEPT !.ok = IF @ = "OUT" THEN "IDLE" ELSE @]
  /\ UNCHANGED <<conf, in, k, reg, due, lineVars>>

BkgIdle ==
  /\ mine' = FALSE
  /\ pc = "idle" /\ pc' = "sleep"
  /\ w' = [w EXCEPT !.ok = "IDLE"]
  /\ UNCHANGED <<conf, in, k, reg, due, lineVars>>

Bkg == \/ BkgWake \/ BkgTest \/ BkgLoad \/ BkgStore \/ BkgClear
       \/ BkgRest \/ BkgBook \/ BkgIdle

----------------------------------------------------------------------------
\* The heater answers, at once or late: whether water runs and how much
\* (AnalyseProtocol).
Answer ==
  /\ mine' = FALSE
  /\ asked /\ asked' = FALSE
  /\ \E ml \in C.reports :
       w' = [w EXCEPT !.hflow = ml, !.hst = IF hot THEN "OUTWATER" ELSE "CLOSED"]
  /\ UNCHANGED <<conf, in, bkgVars, hot, lost>>

Next ==
  \/ CoreTick \/ Bkg \/ Answer
  \/ PadRequest \/ PadStorage \/ PadSource

Spec == Init /\ [][Next]_vars

\* Both threads keep running.  Only a period of core makes mine true.
FairSpec == Spec /\ WF_mine(mine' = TRUE) /\ WF_bkgVars(Bkg)

----------------------------------------------------------------------------
\* The types of the shared state.
TypeOK ==
  /\ w.out \subseteq Outputs
  /\ w.ok \in {"IDLE", "SEND", "READ", "OUT"}
  /\ w.flag \in {"NO", "COLD", "HEAT", "HEATPOT"}
  /\ w.mode \in {"NO", "COLD", "HEAT", "ICE"}
  /\ w.wait \in 0..C.closeDelay
  /\ w.closes \in 0..CloseHeatMax /\ w.hnum \in 0..WriteHeatMax
  /\ \A t \in DOMAIN w.timer : w.timer[t] \in 0..U16 - 1
  /\ w.fsm \in {"IDLE", "STROGE_1", "STROGE_2", "STROGE_3", "STOP"}

\* Pump 2 does not run dry: a period of core leaves it on only with water seen
\* in the drinking tank, except while storage pumps that tank out.
DryPump ==
  "WP" \in w.out => "D_L" \in in.level \/ w.fsm = "STROGE_2"

\* With the door open no lamp is lit after a period of core (the comment at
\* Sterilize_req_exe: with the case open, the ultraviolet lamp is closed).
CoverDark == in.e4 => w.out \cap Lamps(C) = {}

\* Storage ends with both pumps off and both valves closed, whatever was under
\* way when it was asked for or taken back.
StoredDry ==
  [][w.fsm = "STOP" /\ w'.fsm = "IDLE"
       => w'.out \cap {"PWP", "WP", "EV1", "EV2"} = {}]_vars

\* Somebody wants water.
Requested ==
  IF C.hmiKey THEN in.keys \cap {"COLD", "ICE", "HEAT"} # {} ELSE w.mode # "NO"

\* No outlet, not valve 2, not the hot pump, not valve 3, stays open without a
\* request.  Two ways to leave one open are excluded by the configurations, and
\* README.md shows each: turning from hot to cold water half-way, and a valve 3
\* that has its output in common with the 24 V lamp.
OutletCloses ==
  []<>(Requested \/ w.storage \/ w.out \cap Outlets(C) = {})

\* Nor does the heater, though commands are lost.
HeaterCloses == []<>(Requested \/ w.storage \/ ~hot)

\* Storage comes to an end once the machine is quiet and the tanks are empty.
Drained == in.quiet /\ {"S_L", "D_L"} \cap in.level = {}
StorageEnds == <>[]Drained => []<>(~w.storage)

\* Circulation comes to an end, although the door and an empty tank interrupt
\* it, unless cold water, storage or another source does so for good.  The
\* counter has to reach the limit: README.md shows the limits it cannot reach.
CirculationEnds ==
  []<>(~in.e4 /\ "D_L" \in in.level)
    => []<>(\/ ~w.ster \/ w.storing \/ w.source # "AIR" \/ w.flag = "COLD")

\* With the door open nothing pumps water to an outlet, once a period has
\* passed (the comment in WaterOut_req_exe: door open, close the outlet).
DoorStopsWater ==
  in.e4 => "HWP" \notin w.out

\* Pump 1 does not run dry either, outside the stage of storage that empties
\* the source tank.
PurifierDry ==
  "PWP" \in w.out => {"S_L", "S_M"} \cap in.level # {} \/ w.fsm = "STROGE_1"
=============================================================================
