---------------------------- MODULE ReqExecution ----------------------------
(***************************************************************************)
(* The periods of core in which WaterMaking and DisplayRestart run, with   *)
(* bkg, the pad and the receive interrupt.  req_execution calls the        *)
(* handlers one after another; the pad, the sampling of the inputs and the *)
(* interrupt may come between two of them, bkg only when core rests.       *)
(***************************************************************************)
EXTENDS WaterMaking, DisplayRestart

CONSTANT Scenes   \* by name: the inputs, the settings that the pad chooses
                  \* from, and the limits of the display

\* What is sampled and what is set stay within their ranges.
ASSUME ScenesAssumption ==
  \A n \in DOMAIN Scenes :
    /\ Scenes[n].settings \subseteq Settings
    /\ \A i \in Scenes[n].inputs : i.icy \subseteq {1, 2} /\ i.off \in BOOLEAN
    /\ {Scenes[n].hold, Scenes[n].rest, Scenes[n].max} \subseteq Nat

VARIABLES
  scene,    \* the name of the scene
  in,       \* the inputs as last sampled
  at,       \* core: the handler that comes next, or "rest"
  due       \* core has run since bkg last woke: bkg sleeps twice as long

S == Scenes[scene]
vars == <<scene, in, at, due, makingVars, displayVars>>

Init ==
  /\ scene \in DOMAIN Scenes
  /\ in \in S.inputs /\ set \in S.settings
  /\ at = "rest" /\ due = FALSE
  /\ MakingInit /\ DisplayInit

\* A handler reads the inputs and hands over to the next.
Handler(here, next) ==
  /\ at = here /\ at' = next
  /\ in' \in S.inputs
  /\ UNCHANGED scene

Decide ==
  /\ Handler("rest", "cool")
  /\ Sys_Fan_CP_WL(in')
  /\ due' = TRUE
  /\ UNCHANGED displayVars

Cool ==
  /\ Handler("cool", "defrost")
  /\ Cold_Water_exe(in')
  /\ UNCHANGED <<due, displayVars>>

Defrost ==
  /\ Handler("defrost", "display")
  /\ Defrost_req_exe(in')
  /\ UNCHANGED <<due, displayVars>>

Display ==
  /\ Handler("display", "rest")
  /\ Restart_DIS_exe(S, in'.enabled)
  /\ UNCHANGED <<due, makingVars>>

Core == Decide \/ Cool \/ Defrost \/ Display

\* bkg runs when core rests.
Background ==
  /\ at = "rest"
  /\ pc = "sleep" => due
  /\ due' = (due /\ pc # "sleep")
  /\ Bkg
  /\ UNCHANGED <<scene, in, at, displayVars>>

Pad ==
  /\ PadSet(S.settings)
  /\ UNCHANGED <<scene, in, at, due, displayVars>>

Screen ==
  /\ S.screen
  /\ Received \/ PadNetErr \/ ScreenOff \/ ScreenOn
  /\ UNCHANGED <<scene, in, at, due, makingVars>>

Next == Core \/ Background \/ Pad \/ Screen

Spec == Init /\ [][Next]_vars

\* Core goes round every 500 ms and leaves time to bkg in between; the pad
\* wakes from its sleep.
FairSpec ==
  /\ Spec
  /\ WF_at(Core) /\ SF_bkgVars(Background)
  /\ WF_command(Screen /\ ScreenOn)

----------------------------------------------------------------------------
\* The types.
TypeOK ==
  /\ set \in Settings
  /\ closed \subseteq {"WL", "TH", "WS", "AL"}
  /\ {full, making, started, cold, chill} \subseteq BOOLEAN
  /\ offset \in 0..CfDelay /\ delay \in 0..CheckDelay /\ fv \in 0..ColdFv
  /\ cd.interval \in 0..Wrap - 1 /\ cd.cold \in 0..ColdStart
  /\ valves \subseteq {"CV", "WV"} /\ frost \subseteq {1, 2}
  /\ owed \in 0..ColdStart
  /\ timeout \in 0..S.hold /\ errors \in 0..S.hold
  /\ closing \in 0..CloseTime /\ times \in 0..U8 - 1
  /\ resting \in 0..S.rest

\* The fan and the compressors are not left running on a judgement that frost
\* has withdrawn: without an accepted start either the humidity holds them or
\* it is looked at in the next period, unless bkg's countdown has overwritten
\* what Sys_Fan_CP_WL wrote to TH_Check_Interval.
Judged ==
  offset = CfDelay /\ "TH" \notin closed /\ ~started => cd.interval = 0 \/ spoilt

\* Whatever the settings, levels and temperatures do, the refrigerant valve WV
\* of Cold_Water_exe is never open without the ice water valve CV.
ValvesNested == "WV" \in valves => "CV" \in valves

\* In ice water mode a valve moves only when the delay that the last change of
\* mind started has lasted COLD_START_DELAY passes of bkg; an arming that
\* bkg overwrites owes nothing.
ValveDelay == [][valves' # valves /\ set.ice => owed' = 0]_vars

\* A tank cannot stay full and the machine run on once no ice water is wanted,
\* though Sys_Fan_CP_WL knows that only from an earlier period (Cold_Water).
Settled(ice_) == set.ice = ice_ /\ set.air /\ set.float
FullRests ==
  \A i \in BOOLEAN :
    []<>(Brim(in.level) /\ in.temp = "COOL" /\ Settled(i) => "WL" \in closed)

\* The valves follow a lasting water temperature, however often bkg is
\* interrupted while it counts the delay.
Follow(temp, open) ==
  Settled(TRUE) /\ {"D_L", "D_ML"} \subseteq in.level /\ in.temp = temp => valves = open
IceFollows == []<>Follow("WARM", {"CV", "WV"}) /\ []<>Follow("COOL", {})

\* The machine comes to obey a lasting temperature and humidity once there is no
\* more frost, however far bkg has put the next look off.
HumidityObeyed ==
  /\ []<>(in.th = {"start"} /\ frost = {} => "TH" \notin closed)
  /\ []<>(in.th = {"stop"} /\ frost = {} => "TH" \in closed)

\* Restart_DIS_exe restarts the display no more often than Restart_Enable says
\* before it rests.
RestartsLimited == done <= S.max

\* The display does not stay dark, whoever switches it off.
DisplayReturns == []<>~dark

----------------------------------------------------------------------------
\* Statements of comments that do not hold, see README.md.

\* "After defrosting, temperature and humidity must be checked."
LookAfterFrost ==
  offset = CfDelay /\ "TH" \notin closed /\ ~started => cd.interval = 0

\* "Delay 1 s": WV opens COLD_FV_DELAY periods after CV.
OneAfterAnother == [][~(valves = {} /\ valves' = {"CV", "WV"})]_vars

\* "Off for XX seconds": a restart that is counted has switched the display off.
RestartDarkens == [][done' > done => dark]_vars
=============================================================================
