----------------------------- MODULE ModeStatus -----------------------------
(***************************************************************************)
(* The status word WORK_MODE_STS_REG_NO and the four threads that write    *)
(* it through sys_set_remap_status, each with the calls it really makes:   *)
(*                                                                         *)
(*   bkg   rewrites all of its bits in every pass (sys_running_mode_update); *)
(*   core  writes ALARM and BEEP when an alarm joins or leaves the chain   *)
(*         (calc_alrarm_cnt), and the frost bits in every period in which  *)
(*         a coil is outside the band of the two thresholds               *)
(*         (Defrost_req_exe);                                              *)
(*   cpad  clears BEEP on command (obcmd_clear_alarm_beep);                *)
(*   mqtt  writes NET when the connection comes up or goes down.           *)
(***************************************************************************)
EXTENDS StatusWord, Integers, Sequences

CONSTANTS
  BkgOrder,     \* the bits of bkg in the order it writes them: PWR, FAN,
                \* COOLING, OUTWATER, EXITWATER
  FrostOrder,   \* the bits of the coils: DEFROST1, DEFROST2
  MaxAlarms     \* bound on the chain of alarms

ASSUME AlarmsAssumption == MaxAlarms \in Nat

Threads == {"mqtt", "core", "cpad", "bkg"}

\* The priorities of application.c and of paho_mqtt_start.
Priority == [t \in Threads |->
  CASE t = "mqtt" -> 10 [] t = "core" -> 17 [] t = "cpad" -> 19 [] t = "bkg" -> 20]

BkgBits == {BkgOrder[i] : i \in DOMAIN BkgOrder}
Frost == {FrostOrder[i] : i \in DOMAIN FrostOrder}
Bits == BkgBits \cup Frost \cup {"ALARM", "BEEP", "NET"}

WritesOf == [t \in Threads |->
  CASE t = "mqtt" -> {"NET"}
    [] t = "core" -> {"ALARM", "BEEP"} \cup Frost
    [] t = "cpad" -> {"BEEP"}
    [] t = "bkg" -> BkgBits]

\* The word is that of these threads, and no two of the names are one bit.
ASSUME ModeAssumption ==
  /\ Thread = Threads /\ Prio = Priority /\ Bit = Bits /\ Writes = WritesOf
  /\ BkgOrder \in Seq(BkgBits) /\ FrostOrder \in Seq(Frost)
  /\ \A i, j \in DOMAIN FrostOrder : FrostOrder[i] = FrostOrder[j] => i = j
  /\ BkgBits \cap Frost = {}
  /\ (BkgBits \cup Frost) \cap {"ALARM", "BEEP", "NET"} = {}

VARIABLES
  bkgAt,   \* how many of its bits bkg has written in this pass; all: it sleeps
  todo,    \* the calls that calc_alrarm_cnt has still to make
  phase,   \* where core is: asleep, with the alarms, or with the frost
  total,   \* alarm_status_cnt.total_cnt
  grave,   \* major_cnt + critical_cnt
  look,    \* how many coils core has looked at in this period
  coil     \* what core last found of each coil, against the thresholds; with
           \* an external water source it does not look: "within"

coreVars == <<todo, phase, total, grave, look, coil>>
vars == <<wordVars, bkgAt, coreVars>>

Call(b, v) == [bit |-> b, on |-> v]
Temps == {"below", "within", "above"}

----------------------------------------------------------------------------
\* sys_running_mode_update: the signals are read one after the other, each
\* right before its bit is written.
BkgWake ==
  /\ bkgAt = Len(BkgOrder) /\ ~busy["bkg"]
  /\ bkgAt' = 0
  /\ UNCHANGED <<wordVars, coreVars>>

BkgLoad(v) ==
  /\ bkgAt < Len(BkgOrder)
  /\ Load("bkg", BkgOrder[bkgAt + 1], v)
  /\ bkgAt' = bkgAt + 1
  /\ UNCHANGED coreVars

BkgStore == Store("bkg") /\ UNCHANGED <<bkgAt, coreVars>>

\* The core thread's period: first the alarms, then the frost.
CoreWake ==
  /\ phase = "sleep"
  /\ phase' = "alarms"
  /\ UNCHANGED <<wordVars, bkgAt, todo, total, grave, look, coil>>

AlarmCalls(t, g) ==
  <<Call("ALARM", t > 0)>>
  \o (IF g > grave THEN <<Call("BEEP", TRUE)>> ELSE <<>>)
  \o (IF g = 0 THEN <<Call("BEEP", FALSE)>> ELSE <<>>)

\* calc_alrarm_cnt after an alarm has joined or left the chain.
CalcAlarmCnt(t, g) ==
  /\ phase = "alarms" /\ todo = <<>> /\ ~busy["core"]
  /\ g <= t /\ <<t - total, g - grave>> \in {<<1, 0>>, <<1, 1>>, <<-1, 0>>, <<-1, -1>>}
  /\ todo' = AlarmCalls(t, g)
  /\ total' = t /\ grave' = g
  /\ UNCHANGED <<wordVars, bkgAt, phase, look, coil>>

CoreLoad ==
  /\ todo # <<>>
  /\ Load("core", Head(todo).bit, Head(todo).on)
  /\ todo' = Tail(todo)
  /\ UNCHANGED <<bkgAt, phase, total, grave, look, coil>>

\* Defrost_req_exe reads both temperatures; with an external water source it
\* does nothing.
Defrost(temps, fromAir) ==
  /\ phase = "alarms" /\ todo = <<>> /\ ~busy["core"]
  /\ phase' = "frost"
  /\ ~fromAir => temps = [b \in Frost |-> "within"]
  /\ coil' = temps
  /\ look' = 0
  /\ UNCHANGED <<wordVars, bkgAt, todo, total, grave>>

\* Faulty variant: the bit is set but never cleared.
FrostDueBelow(b) == coil[b] = "below"

FrostDue(b) == coil[b] # "within"

\* Then it writes the bits of the coils outside the band.
FrostLook ==
  LET b == FrostOrder[look + 1] IN
  /\ phase = "frost" /\ look < Len(FrostOrder) /\ ~busy["core"]
  /\ IF FrostDue(b) THEN Load("core", b, coil[b] = "below") ELSE UNCHANGED wordVars
  /\ look' = look + 1
  /\ UNCHANGED <<bkgAt, todo, phase, total, grave, coil>>

CoreStore == Store("core") /\ UNCHANGED <<bkgAt, coreVars>>

CoreSleep ==
  /\ phase = "frost" /\ look = Len(FrostOrder) /\ ~busy["core"]
  /\ phase' = "sleep"
  /\ UNCHANGED <<wordVars, bkgAt, todo, total, grave, look, coil>>

\* obcmd_clear_alarm_beep: cpad runs only while core sleeps.
CpadLoad ==
  /\ phase = "sleep"
  /\ Load("cpad", "BEEP", FALSE)
  /\ UNCHANGED <<bkgAt, coreVars>>

CpadStore ==
  /\ phase = "sleep"
  /\ Store("cpad")
  /\ UNCHANGED <<bkgAt, coreVars>>

\* mqtt_online_callback and mqtt_offline_callback.
MqttLoad(v) == Load("mqtt", "NET", v) /\ UNCHANGED <<bkgAt, coreVars>>

MqttStore == Store("mqtt") /\ UNCHANGED <<bkgAt, coreVars>>

----------------------------------------------------------------------------
Init ==
  /\ WordInit
  /\ bkgAt = Len(BkgOrder)
  /\ todo = <<>> /\ phase = "sleep"
  /\ total = 0 /\ grave = 0
  /\ look = 0 /\ coil = [b \in Frost |-> "above"]

Bkg == phase = "sleep" /\ (BkgWake \/ BkgStore \/ \E v \in BOOLEAN : BkgLoad(v))

Core ==
  \/ CoreWake \/ CoreLoad \/ FrostLook \/ CoreStore \/ CoreSleep
  \/ \E t, g \in 0..MaxAlarms : CalcAlarmCnt(t, g)
  \/ \E temps \in [Frost -> Temps], fromAir \in BOOLEAN : Defrost(temps, fromAir)

Cpad == CpadLoad \/ CpadStore

Mqtt == MqttStore \/ \E v \in BOOLEAN : MqttLoad(v)

Next == Bkg \/ Core \/ Cpad \/ Mqtt

Spec == Init /\ [][Next]_vars

----------------------------------------------------------------------------
\* At the end of every period of core the frost bits are right about the coils
\* it found outside the band, also when a store of bkg or cpad has undone
\* them since the last period (Defrost_req_exe writes its bits in every
\* period, not only on a change).
FrostRefreshed ==
  phase = "frost" /\ look = Len(FrostOrder) /\ ~busy["core"] =>
    \A b \in Frost :
      /\ coil[b] = "below" => b \in word
      /\ coil[b] = "above" => b \notin word

\* What the word is read for: while no thread is writing, ALARM says whether
\* there are alarms.  It does not hold, see README.md.
AlarmShown ==
  (phase = "sleep" /\ \A t \in Thread : ~busy[t]) => ("ALARM" \in word <=> total > 0)
=============================================================================
