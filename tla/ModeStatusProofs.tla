-------------------------- MODULE ModeStatusProofs --------------------------
(***************************************************************************)
(* First of StatusWord, for any threads, priorities and bits: which bits   *)
(* of the status word the unlocked sys_set_remap_status keeps intact.      *)
(* FirmBits is not inductive: a store writes back a whole loaded word, so  *)
(* one has to know that the loaded word is right about the firm bits.      *)
(* LoadedStillTrue says so, and is itself inductive because a store by u   *)
(* changes only bits whose writers are u or above u, hence above every     *)
(* thread that u has interrupted.                                          *)
(*                                                                         *)
(* Then of ModeStatus: the calls that the threads really make implement    *)
(* StatusWord, so what is shown of any threads holds of them; and core's   *)
(* frost bits are right at the end of every period.                        *)
(*                                                                         *)
(* FrostInv is what makes the latter inductive: of the coils that core has *)
(* looked at in this period, all bits are right but the one it is about to *)
(* store.  A store of mqtt cannot undo them, since mqtt is above core and  *)
(* finishes what it has begun; bkg and cpad wait until core sleeps.        *)
(***************************************************************************)
EXTENDS ModeStatus, TLAPS

----------------------------------------------------------------------------
(* The word.                                                               *)

WordInv == WordTypeOK /\ LoadedStillTrue /\ FirmBits

USE PrioAssumption, WritesAssumption

\* What a store does to a bit other than the one it is about: it puts back
\* what was loaded.
LEMMA ModifiedBit ==
  ASSUME NEW w, NEW b, NEW v \in BOOLEAN, NEW c
  PROVE  /\ c # b => (c \in Modified(w, b, v) <=> c \in w)
         /\ b \in Modified(w, b, v) <=> v
  BY Zenon DEF Modified

\* A store leaves alone every bit that is out of reach of a thread it has
\* interrupted, or of its own thread unless it is the bit it is about.
LEMMA StoreKeeps ==
  ASSUME WordTypeOK, LoadedStillTrue, NEW t \in Thread, Store(t), NEW b \in Bit,
         b # bit[t], OutOfReach(t, b)
  PROVE  b \in word' <=> b \in word
  <1>1. b \in word' <=> b \in reg[t]
    BY ModifiedBit, Zenon DEF Store, WordTypeOK
  <1>2. b \in reg[t] <=> b \in word
    BY Zenon DEF LoadedStillTrue, Store
  <1> QED BY <1>1, <1>2, Zenon

\* The variables keep their types.
LEMMA TypeStep == WordTypeOK /\ [WordNext]_wordVars => WordTypeOK'
  <1> SUFFICES ASSUME WordTypeOK, [WordNext]_wordVars PROVE WordTypeOK'
    OBVIOUS
  <1> USE DEF WordTypeOK
  <1>1. CASE \E t \in Thread : Store(t)
    BY <1>1 DEF Store, Modified, Note, AnyBit
  <1>2. CASE \E t \in Thread, b \in Bit, v \in BOOLEAN : Load(t, b, v)
    BY <1>2 DEF Load
  <1>3. CASE UNCHANGED wordVars
    BY <1>3, Zenon DEF wordVars
  <1> QED BY <1>1, <1>2, <1>3, Zenon DEF WordNext

\* What a busy thread has loaded stays right.
LEMMA LoadedStep ==
  WordTypeOK /\ LoadedStillTrue /\ [WordNext]_wordVars => LoadedStillTrue'
  <1> SUFFICES ASSUME WordTypeOK, LoadedStillTrue, [WordNext]_wordVars,
                      NEW u \in Thread, NEW b \in Bit,
                      busy'[u], OutOfReach(u, b)
               PROVE  b \in reg'[u] <=> b \in word'
    BY Zenon DEF LoadedStillTrue, OutOfReach, Above
  <1>1. ASSUME NEW t \in Thread, Store(t) PROVE b \in reg'[u] <=> b \in word'
    <2>1. u # t /\ busy[u] /\ Above(t, u) /\ reg'[u] = reg[u]
      BY <1>1, Zenon DEF Store, WordTypeOK
    <2>2. b # bit[t]
      BY <1>1, <2>1, Zenon DEF Store, WordTypeOK, OutOfReach
    <2>3. OutOfReach(t, b)
      BY <2>1 DEF OutOfReach, Above
    <2>4. b \in word' <=> b \in word
      BY <1>1, <2>2, <2>3, StoreKeeps, Zenon
    <2> QED BY <2>1, <2>4, Zenon DEF LoadedStillTrue
  <1>2. ASSUME NEW t \in Thread, NEW c \in Bit, NEW v \in BOOLEAN, Load(t, c, v)
        PROVE  b \in reg'[u] <=> b \in word'
    <2>1. CASE u = t
      BY <1>2, <2>1, Zenon DEF Load, WordTypeOK
    <2>2. CASE u # t
      BY <1>2, <2>2, Zenon DEF Load, WordTypeOK, LoadedStillTrue
    <2> QED BY <2>1, <2>2, Zenon
  <1>3. CASE UNCHANGED wordVars
    BY <1>3, Zenon DEF wordVars, LoadedStillTrue
  <1> QED BY <1>1, <1>2, <1>3 DEF WordNext

\* The firm bits stay what was asked of them.
LEMMA FirmStep ==
  WordTypeOK /\ LoadedStillTrue /\ FirmBits /\ [WordNext]_wordVars => FirmBits'
  <1> SUFFICES ASSUME WordTypeOK, LoadedStillTrue, FirmBits, [WordNext]_wordVars,
                      NEW b \in Bit, Firm(b)
               PROVE  b \in word' <=> last'[b]
    BY Zenon DEF FirmBits, Firm, OutOfReach, Above
  <1>1. ASSUME NEW t \in Thread, Store(t) PROVE b \in word' <=> last'[b]
    <2>1. CASE b = bit[t]
      <3>1. b \in word' <=> on[t]
        BY <1>1, <2>1, ModifiedBit DEF Store, WordTypeOK
      <3>2. last'[b] = on[t]
        BY <1>1, <2>1, Zenon DEF Store, WordTypeOK, Note
      <3> QED BY <3>1, <3>2, Zenon
    <2>2. CASE b # bit[t]
      <3>1. b \in word' <=> b \in word
        BY <1>1, <2>2, StoreKeeps, Zenon DEF Firm
      <3>2. last'[b] = last[b]
        BY <1>1, <2>2, Zenon DEF Store, WordTypeOK, Note
      <3> QED BY <3>1, <3>2, Zenon DEF FirmBits
    <2> QED BY <2>1, <2>2, Zenon
  <1>2. ASSUME NEW t \in Thread, NEW c \in Bit, NEW v \in BOOLEAN, Load(t, c, v)
        PROVE  b \in word' <=> last'[b]
    BY <1>2, Zenon DEF Load, FirmBits
  <1>3. CASE UNCHANGED wordVars
    BY <1>3, Zenon DEF wordVars, FirmBits
  <1> QED BY <1>1, <1>2, <1>3, Zenon DEF WordNext

\* WordInv is inductive.
LEMMA WordInductive == WordSpec => []WordInv
  <1>1. WordInit => WordInv
    BY DEF WordInit, WordInv, WordTypeOK, LoadedStillTrue, FirmBits, AnyBit
  <1>2. WordInv /\ [WordNext]_wordVars => WordInv'
    BY TypeStep, LoadedStep, FirmStep, Zenon DEF WordInv
  <1> QED BY <1>1, <1>2, PTL DEF WordSpec

\* The bits that only the lowest thread writes are never lost
\* (sys_set_remap_status under the priorities of application.c).
THEOREM FirmBitsKept == WordSpec => []FirmBits
  <1>1. WordInv => FirmBits
    BY Zenon DEF WordInv
  <1> QED BY <1>1, WordInductive, PTL

\* Bits change only by their writers, or by a thread below one of them
\* (sys_set_remap_status).
THEOREM ChangesOnlyFromBelow == WordSpec => ChangesFromBelow
  <1>1. WordInv /\ [WordNext]_wordVars => [ChangeStep]_wordVars
    <2> SUFFICES ASSUME WordInv, WordNext, NEW b \in Bit, (b \in word) # (b \in word')
                 PROVE  \E t \in Thread :
                          /\ busy[t] /\ ~busy'[t]
                          /\ b = bit[t] \/ \E w \in Thread : b \in Writes[w] /\ Above(w, t)
      BY Zenon DEF ChangeStep
    <2>1. PICK t \in Thread : Store(t)
      BY Zenon DEF WordNext, Load
    <2>2. busy[t] /\ ~busy'[t]
      BY <2>1, Zenon DEF Store, WordInv, WordTypeOK
    <2>3. b = bit[t] \/ ~OutOfReach(t, b)
      BY <2>1, StoreKeeps DEF WordInv
    <2> QED BY <2>2, <2>3, Zenon DEF OutOfReach
  <1> QED BY <1>1, WordInductive, PTL DEF WordSpec, ChangesFromBelow

----------------------------------------------------------------------------
(* The threads.                                                            *)

ModeTypeOK ==
  /\ bkgAt \in 0..Len(BkgOrder)
  /\ todo \in Seq([bit : {"ALARM", "BEEP"}, on : BOOLEAN])
  /\ phase \in {"sleep", "alarms", "frost"}
  /\ look \in 0..Len(FrostOrder)
  /\ coil \in [Frost -> Temps]
  /\ phase = "frost" => todo = <<>>

\* The bit of a coil is right.
Right(b) ==
  /\ coil[b] = "below" => b \in word
  /\ coil[b] = "above" => b \notin word

\* core is about to store the bit of a coil outside the band.
Writing ==
  /\ bit["core"] \in Frost /\ coil[bit["core"]] # "within"
  /\ coil[bit["core"]] = "below" <=> on["core"]

FrostInv ==
  phase = "frost" =>
    /\ busy["core"] => Writing
    /\ \A i \in 1..look :
         Right(FrostOrder[i]) \/ (busy["core"] /\ bit["core"] = FrostOrder[i])

USE ModeAssumption

----------------------------------------------------------------------------
LEMMA BkgBit ==
  ASSUME NEW i \in 0..Len(BkgOrder), i < Len(BkgOrder)
  PROVE  i + 1 \in DOMAIN BkgOrder /\ BkgOrder[i + 1] \in BkgBits
  BY DEF BkgBits

LEMMA FrostBit ==
  ASSUME NEW i \in 0..Len(FrostOrder), i < Len(FrostOrder)
  PROVE  i + 1 \in DOMAIN FrostOrder /\ FrostOrder[i + 1] \in Frost
  BY DEF Frost

LEMMA HeadIn ==
  ASSUME NEW C, NEW q \in Seq(C), q # <<>>
  PROVE  Head(q) \in C
  OBVIOUS

\* Every step is a step of the word, or leaves it alone.
LEMMA WordSteps == ModeTypeOK /\ [Next]_vars => [WordNext]_wordVars
  <1> SUFFICES ASSUME ModeTypeOK, [Next]_vars PROVE WordNext \/ UNCHANGED wordVars
    OBVIOUS
  <1>1. ASSUME NEW t \in Threads, NEW b \in Bits, NEW v \in BOOLEAN, Load(t, b, v)
        PROVE  WordNext
    BY <1>1 DEF WordNext
  <1>2. ASSUME NEW t \in Threads, Store(t) PROVE WordNext
    BY <1>2, Zenon DEF WordNext
  <1>3. CASE Bkg
    <2>1. ASSUME NEW v \in BOOLEAN, BkgLoad(v) PROVE WordNext
      <3>1. BkgOrder[bkgAt + 1] \in Bits
        BY <2>1, BkgBit, Zenon DEF BkgLoad, ModeTypeOK, Bits
      <3> QED BY <1>1, <2>1, <3>1 DEF BkgLoad, Threads
    <2> QED BY <1>2, <1>3, <2>1, Zenon DEF Bkg, BkgWake, BkgStore, Threads
  <1>4. CASE Core
    <2>1. CASE CoreLoad
      <3>1. Head(todo).bit \in Bits /\ Head(todo).on \in BOOLEAN
        <4>1. Head(todo) \in [bit : {"ALARM", "BEEP"}, on : BOOLEAN]
          BY <2>1, HeadIn, Zenon DEF CoreLoad, ModeTypeOK
        <4> QED BY <4>1, Zenon DEF Bits
      <3> QED BY <1>1, <2>1, <3>1 DEF CoreLoad, Threads
    <2>2. CASE FrostLook
      <3>1. FrostOrder[look + 1] \in Bits
        BY <2>2, FrostBit, Zenon DEF FrostLook, ModeTypeOK, Bits
      <3> QED BY <1>1, <2>2, <3>1, Zenon DEF FrostLook, Threads
    <2>3. CASE CoreStore
      BY <1>2, <2>3, Zenon DEF CoreStore, Threads
    <2> QED BY <1>4, <2>1, <2>2, <2>3, Zenon DEF Core, CoreWake, CoreSleep, CalcAlarmCnt, Defrost
  <1>5. CASE Cpad
    <2>1. "BEEP" \in Bits /\ FALSE \in BOOLEAN
      BY Zenon DEF Bits
    <2> QED BY <1>1, <1>2, <1>5, <2>1, Zenon DEF Cpad, CpadLoad, CpadStore, Threads
  <1>6. CASE Mqtt
    <2>1. "NET" \in Bits
      BY Zenon DEF Bits
    <2> QED BY <1>1, <1>2, <1>6, <2>1 DEF Mqtt, MqttLoad, MqttStore, Threads
  <1>7. CASE UNCHANGED vars
    BY <1>7, Zenon DEF vars
  <1> QED BY <1>3, <1>4, <1>5, <1>6, <1>7, Zenon DEF Next

LEMMA AlarmCallsType ==
  ASSUME NEW t \in Nat, NEW g \in Nat
  PROVE  AlarmCalls(t, g) \in Seq([bit : {"ALARM", "BEEP"}, on : BOOLEAN])
  <1> DEFINE C == [bit : {"ALARM", "BEEP"}, on : BOOLEAN]
  <1>1. \A b \in {"ALARM", "BEEP"}, v \in BOOLEAN : Call(b, v) \in C
    BY Zenon DEF Call
  <1> HIDE DEF C
  <1>2. <<>> \in Seq(C) /\ \A c \in C : <<c>> \in Seq(C)
    OBVIOUS
  <1>3. Call("ALARM", t > 0) \in C /\ Call("BEEP", TRUE) \in C /\ Call("BEEP", FALSE) \in C
    <2>1. (t > 0) \in BOOLEAN
      OBVIOUS
    <2>2. \A v \in BOOLEAN : Call("ALARM", v) \in C /\ Call("BEEP", v) \in C
      BY <1>1, Zenon
    <2> QED BY <2>1, <2>2, Zenon
  <1>4. /\ <<Call("ALARM", t > 0)>> \in Seq(C)
        /\ (IF g > grave THEN <<Call("BEEP", TRUE)>> ELSE <<>>) \in Seq(C)
        /\ (IF g = 0 THEN <<Call("BEEP", FALSE)>> ELSE <<>>) \in Seq(C)
    BY <1>2, <1>3, Zenon
  <1>5. \A p, q \in Seq(C) : p \o q \in Seq(C)
    OBVIOUS
  <1> QED BY <1>4, <1>5, Zenon DEF AlarmCalls, C

LEMMA ModeTypeStep == ModeTypeOK /\ [Next]_vars => ModeTypeOK'
  <1> SUFFICES ASSUME ModeTypeOK, [Next]_vars PROVE ModeTypeOK'
    OBVIOUS
  <1> DEFINE C == [bit : {"ALARM", "BEEP"}, on : BOOLEAN]
  <1> USE DEF coreVars
  <1>1. CASE Bkg
    BY <1>1 DEF Bkg, BkgWake, BkgLoad, BkgStore, ModeTypeOK
  <1>2. CASE Cpad \/ Mqtt \/ CoreStore
    BY <1>2, Zenon DEF Cpad, CpadLoad, CpadStore, Mqtt, MqttLoad, MqttStore, CoreStore, ModeTypeOK
  <1>3. CASE CoreWake \/ CoreSleep
    BY <1>3, Zenon DEF CoreWake, CoreSleep, ModeTypeOK
  <1>4. CASE CoreLoad
    <2>1. Tail(todo) \in Seq(C) /\ phase # "frost"
      BY <1>4 DEF CoreLoad, ModeTypeOK
    <2> QED BY <1>4, <2>1, Zenon DEF CoreLoad, ModeTypeOK
  <1>5. CASE FrostLook
    BY <1>5 DEF FrostLook, ModeTypeOK
  <1>6. ASSUME NEW t \in 0..MaxAlarms, NEW g \in 0..MaxAlarms, CalcAlarmCnt(t, g)
        PROVE  ModeTypeOK'
    <2>1. AlarmCalls(t, g) \in Seq(C)
      BY AlarmsAssumption, AlarmCallsType
    <2> QED BY <1>6, <2>1, Zenon DEF CalcAlarmCnt, ModeTypeOK
  <1>7. ASSUME NEW temps \in [Frost -> Temps], NEW fromAir \in BOOLEAN, Defrost(temps, fromAir)
        PROVE  ModeTypeOK'
    BY <1>7 DEF Defrost, ModeTypeOK
  <1>8. CASE UNCHANGED vars
    BY <1>8, Zenon DEF vars, ModeTypeOK
  <1> QED BY <1>1, <1>2, <1>3, <1>4, <1>5, <1>6, <1>7, <1>8 DEF Next, Core

LEMMA ModeInitially == Init => ModeTypeOK /\ FrostInv
  BY DEF Init, ModeTypeOK, FrostInv, Temps

----------------------------------------------------------------------------
\* A frost bit is core's own: no thread above core writes it, and none is
\* above mqtt.
LEMMA FrostFacts ==
  ASSUME NEW b \in Frost
  PROVE  /\ b \in Bit /\ b \notin Writes["mqtt"]
         /\ OutOfReach("core", b) /\ OutOfReach("mqtt", b)
  <1>1. b \in Bits /\ b # "NET"
    BY Zenon DEF Bits
  <1>2. Writes["mqtt"] = {"NET"}
    BY Zenon DEF WritesOf, Threads
  <1>3. \A w \in Threads : Above(w, "core") => w = "mqtt"
    BY DEF Above, Priority, Threads
  <1>4. \A w \in Threads : ~Above(w, "mqtt")
    BY DEF Above, Priority, Threads
  <1> QED BY <1>1, <1>2, <1>3, <1>4, Zenon DEF OutOfReach

\* A store of core or mqtt during the period leaves the bits right.
LEMMA StoreRight ==
  ASSUME WordInv, ModeTypeOK, FrostInv, phase = "frost", UNCHANGED <<phase, look, coil>>,
         NEW t \in {"core", "mqtt"}, Store(t)
  PROVE  FrostInv'
  <1>1. t \in Thread /\ bit[t] \in Writes[t] /\ on[t] \in BOOLEAN /\ {"core", "mqtt"} \subseteq Thread
    BY Zenon DEF Threads, Store, WordInv, WordTypeOK
  <1>2. IF t = "core" THEN ~busy'["core"]
        ELSE busy'["core"] = busy["core"] /\ bit'["core"] = bit["core"] /\ on'["core"] = on["core"]
    BY <1>1, Zenon DEF Store, WordInv, WordTypeOK
  <1>3. busy'["core"] => Writing'
    BY <1>2, Zenon DEF FrostInv, Writing
  <1>4. ASSUME NEW b \in Frost, b # bit[t]
        PROVE  b \in word' <=> b \in word
    BY <1>1, <1>4, FrostFacts, StoreKeeps DEF WordInv
  <1>5. ASSUME t = "core"
        PROVE  bit[t] \in word' <=> coil[bit[t]] = "below"
    <2>1. Writing
      BY <1>5, Zenon DEF FrostInv, Store
    <2>2. bit[t] \in word' <=> on[t]
      BY <1>1, ModifiedBit, Zenon DEF Store
    <2> QED BY <1>5, <2>1, <2>2, Zenon DEF Writing
  <1>6. ASSUME NEW i \in 1..look
        PROVE  \/ Right(FrostOrder[i])'
               \/ busy'["core"] /\ bit'["core"] = FrostOrder[i]
    <2>1. PICK b \in Frost : b = FrostOrder[i]
      BY DEF ModeTypeOK, Frost
    <2>2. Right(b) \/ (busy["core"] /\ bit["core"] = b)
      BY <2>1, Zenon DEF FrostInv
    <2>3. CASE t = "mqtt"
      <3>1. b # bit[t]
        BY <1>1, <2>3, FrostFacts
      <3> QED BY <1>2, <1>4, <2>1, <2>2, <2>3, <3>1, Zenon DEF Right
    <2>4. CASE t = "core" /\ b = bit[t]
      BY <1>5, <2>1, <2>4, Zenon DEF Right
    <2>5. CASE t = "core" /\ b # bit[t]
      BY <1>4, <2>1, <2>2, <2>5, Zenon DEF Right
    <2> QED BY <2>3, <2>4, <2>5, Zenon
  <1> QED BY <1>3, <1>6, Zenon DEF FrostInv

\* So does a load of one of them.
LEMMA LoadRight ==
  ASSUME WordInv, ModeTypeOK, FrostInv, phase = "frost", UNCHANGED <<phase, look, coil>>,
         NEW v \in BOOLEAN, Load("mqtt", "NET", v)
  PROVE  FrostInv'
  <1>1. /\ UNCHANGED word /\ {"core", "mqtt"} \subseteq Thread
        /\ busy'["core"] = busy["core"] /\ bit'["core"] = bit["core"] /\ on'["core"] = on["core"]
    BY Zenon DEF Load, WordInv, WordTypeOK, Threads
  <1> QED BY <1>1, Zenon DEF FrostInv, Writing, Right

LEMMA LookRight ==
  ASSUME WordInv, ModeTypeOK, FrostInv, FrostLook
  PROVE  FrostInv'
  <1>1. /\ phase = "frost" /\ look < Len(FrostOrder) /\ look' = look + 1 /\ ~busy["core"]
        /\ UNCHANGED <<phase, coil>> /\ look \in Nat
    BY DEF FrostLook, ModeTypeOK
  <1>2. PICK b \in Frost : b = FrostOrder[look + 1]
    BY <1>1, FrostBit, Zenon DEF ModeTypeOK
  <1>3. \A i \in 1..look : Right(FrostOrder[i])
    BY <1>1, Zenon DEF FrostInv
  <1>4. UNCHANGED word
    BY Zenon DEF FrostLook, Load, wordVars
  <1>5. \A i \in 1..look : Right(FrostOrder[i])'
    BY <1>1, <1>3, <1>4, Zenon DEF Right
  <1>6. CASE FrostDue(b)
    <2>1. Load("core", b, coil[b] = "below")
      BY <1>2, <1>6, Zenon DEF FrostLook
    <2>2. busy'["core"] /\ bit'["core"] = b /\ on'["core"] = (coil[b] = "below")
      BY <2>1, Zenon DEF Load, WordInv, WordTypeOK, Threads
    <2>3. Writing'
      BY <1>1, <1>6, <2>2, Zenon DEF Writing, FrostDue
    <2> QED BY <1>1, <1>2, <1>5, <2>2, <2>3 DEF FrostInv
  <1>7. CASE ~FrostDue(b)
    <2>1. UNCHANGED busy /\ Right(b)'
      BY <1>1, <1>2, <1>7, Zenon DEF FrostLook, FrostDue, Right, wordVars
    <2> QED BY <1>1, <1>2, <1>5, <2>1 DEF FrostInv
  <1> QED BY <1>6, <1>7, Zenon

LEMMA FrostStep == WordInv /\ ModeTypeOK /\ FrostInv /\ [Next]_vars => FrostInv'
  <1> SUFFICES ASSUME WordInv, ModeTypeOK, FrostInv, [Next]_vars, phase' = "frost"
               PROVE  FrostInv'
    BY Zenon DEF FrostInv
  <1> USE DEF coreVars
  <1>1. CASE Bkg \/ Cpad \/ CoreWake \/ CoreSleep
    BY <1>1, Zenon DEF Bkg, BkgWake, BkgLoad, BkgStore, Cpad, CpadLoad, CpadStore, CoreWake, CoreSleep
  <1>2. CASE CoreLoad \/ \E t, g \in 0..MaxAlarms : CalcAlarmCnt(t, g)
    BY <1>2, Zenon DEF CoreLoad, CalcAlarmCnt, ModeTypeOK
  <1>3. CASE \E temps \in [Frost -> Temps], fromAir \in BOOLEAN : Defrost(temps, fromAir)
    BY <1>3 DEF Defrost, wordVars, FrostInv
  <1>4. CASE FrostLook
    BY <1>4, LookRight, Zenon
  <1>5. CASE CoreStore
    BY <1>5, StoreRight, Zenon DEF CoreStore
  <1>6. CASE MqttStore
    BY <1>6, StoreRight, Zenon DEF MqttStore
  <1>7. ASSUME NEW v \in BOOLEAN, MqttLoad(v) PROVE FrostInv'
    BY <1>7, LoadRight, Zenon DEF MqttLoad
  <1>8. CASE UNCHANGED vars
    BY <1>8, Zenon DEF vars, wordVars, FrostInv, Writing, Right
  <1> QED BY <1>1, <1>2, <1>3, <1>4, <1>5, <1>6, <1>7, <1>8, Zenon DEF Next, Core, Mqtt

----------------------------------------------------------------------------
\* The threads with their real calls implement the word that any threads may
\* write: every step of ModeStatus is one load or store of
\* sys_set_remap_status by a thread for one of its bits, or none.
THEOREM ImplementsWord == Spec => WordSpec
  <1>1. Init => WordInit /\ ModeTypeOK
    BY ModeInitially, Zenon DEF Init
  <1> QED BY <1>1, ModeTypeStep, WordSteps, PTL DEF Spec, WordSpec

\* FirmBits: whatever core, cpad and mqtt do, PWR, FAN, COOLING, OUTWATER and
\* EXITWATER are what bkg last asked for (sys_running_mode_update).
THEOREM BkgBitsFirm == Spec => []FirmBits
  BY ImplementsWord, FirmBitsKept, PTL

\* FrostRefreshed: at the end of every period of core the frost bits are
\* right about the coils outside the band, whatever the stores of bkg and
\* cpad have done to them before (Defrost_req_exe).
THEOREM FrostBitsRefreshed == Spec => []FrostRefreshed
  <1>1. ModeTypeOK /\ FrostInv => FrostRefreshed
    <2> SUFFICES ASSUME ModeTypeOK, FrostInv, phase = "frost", look = Len(FrostOrder),
                        ~busy["core"], NEW b \in Frost
                 PROVE  Right(b)
      BY Zenon DEF FrostRefreshed, Right
    <2>1. PICK i \in 1..Len(FrostOrder) : b = FrostOrder[i]
      BY DEF Frost
    <2> QED BY <2>1, Zenon DEF FrostInv
  <1> QED BY <1>1, ModeInitially, ModeTypeStep, FrostStep, ImplementsWord, WordInductive, PTL
         DEF Spec
=============================================================================
