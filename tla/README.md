# TQ01M1 verification

TLA+ models of the firmware under `src/bsp/stm32f10x` (paths below are relative
to it; `RQ` is `usr/modules/req_execution.c`): a dispenser that makes drinking
water from air, on an STM32F10x with RT-Thread. The modules are model-checked
with TLC on small instances, and their main properties are proved with TLAPS for
every value of the constants.

`tlc -workers 2 -config X.cfg M` repeats a run and `tlapm M.tla` a proof.
`PROJECT.json` lists the runs, the theorems, the hazards with their lines, and
the source lines of every definition.

## 1. The system

Threads of fixed priority preempt each other and share `g_sys` and `l_sys`
without locks. The priorities are the enum in `applications/application.c:36-56`
(smaller runs first): modbus slave 8, pad (monitor slave) 9, modbus master 10,
net 11, module control 12, mbm_fsm 13, tds 14, di 15, daq 16, **core 17**, surv
18, cpad 19, **bkg 20**; the MQTT client runs at 10. Core executes a period every
500 ms, bkg a pass every second. The build is -O0 and the shared variables are
not volatile, so every access is a load or a store where the source has it. At
this revision the code that starts the threads (`application.c:123-228`) is
commented out; the models are of the thread functions with these priorities.

| Part | Code | Modules |
|---|---|---|
| Fan and compressors | `RQ`, `output_ctrl.c`, `bkg_thread.c` | `Refrigeration`, `RefrigerationTiming` |
| Alarm engine, list, log | `alarm_calc.c`, `event_record.c`, `fifo.c` | `AlarmAcl` |
| Configuration store | `global_var.c`, `i2c_bsp.c` | `ConfRegisters`, `ConfStore`, `ConfStoreShared` |
| Commands of pad and cpad | `user_mb_app_cpad.c`, `cpad_bsp.c` | in `ConfStore`, `AlarmAcl`, `DisplayRestart` |
| Work mode status word | `sys_status.c` and its callers | `StatusWord`, `ModeStatus` |
| Dispensing, pumps, storage, lamps | `RQ` | `WaterHandlers`, `WaterCircuit` |
| Water making, ice water, frost | `RQ` | `WaterMaking`, `ReqExecution` |
| Restart of the display | `RQ`, `user_mb_app_cpad.c` | `DisplayRestart`, `ReqExecution` |

How the parts meet: core's period calls the alarm engine, then the handlers of
`req_execution`, which set requests, and then `oc_arbitration`, which drives the
outputs under the alarm mask. Bkg counts all delays down. The pad and the network
change registers, which the configuration store keeps. In the models a part takes
what another part decides as an input that may change in every period, which
allows at least what the other part does.

Conventions. A handler of core is one action wherever only lower threads share
its data, because core preempts them; the accesses of bkg are then separate
actions (`BkgTest`, `BkgLoad`, `BkgStore`, `BkgClear`), since core may run between
any two of them. A countdown keeps its width (`TimerMod`, `Wrap`, `U16`, `U8`), so
that decrementing a zero wraps. Settings that differ between machines are scenes
(`scene`, `conf`): a record chosen in `Init` that never changes, so one run covers
several machines and a theorem every one.

A definition whose name ends in what it does wrong, under a comment "Faulty
variant", is a plausible bug used to test that a property would notice it.

Statements of the code's comments that do not hold, and have no run of their own,
are listed in each section. To see a counterexample, copy the named `.cfg`,
replace its INVARIANTS and PROPERTIES by the named definition, and change the
constants given.

## 2. Fan and compressors

`Refrigeration`: `CoreTick` is one whole period of core: alarm mask,
`fan_signal_gen`, `fan_fsm_exe`, `compressor_signal_gen`,
`compressor_alarm_signal_gen`, `compressor_fsm` of both compressors,
`oc_arbitration`. `Bkg` is `sys_comp_cooldown`, five countdowns access by access,
and `sys_running_mode_update`. `RefrigerationTiming` adds history: `age`, the
passes of bkg since a countdown was armed, `raced`, the countdowns that bkg has
stored over since, and `stale`, that core wrote between bkg's load and store.

Inputs of a tick: active alarms, `closed` (the verdict of `Sys_Fan_CP_WL`), frost
bits. The alarm engine changes alarms only in every second tick, so this allows
more than the code. `BkgModeUpdate` makes one step of the stores of PWR and FAN_STS
in `sys_running_mode_update`; their accesses are apart in `ModeStatus`. Left out:
manual and test mode, `dev_mask.dout`, fan speed, the configuration with one
compressor.

| Run | Shows |
|---|---|
| `refrigeration` | state machines, requests and outputs agree; no driven compressor without air but in STOP; starts are safe and alone, stops one interval apart; power off brings all to rest, power on starts both, lost air flow is resolved |
| `refrigeration_timing` | every delay lasts as configured, counted in passes of bkg, unless bkg stored over its countdown |
| `restart_delay_lost` (violation) | bkg finds 0, core arms the restart delay, bkg stores 0 |

Bounds: delays of 0 to 2 passes and counters modulo 4 give armed, expiring,
expired and wrapped countdowns; E7 is the alarm that masks the fan, and every
other alarm only adds to the mask. Fairness: both threads are endless loops around
a delay and neither keeps the processor for ever, so each goes round infinitely
often. It is written `[]<>`, as the actions are always enabled. Nothing is assumed
of inputs but in the premises of the properties.

Not true:

- `FanOffCompsOff` (invariant, `MCRefrigeration.cfg`). `RQ:482` says "fan
  disabled, emergency shutdown". After E7 one compressor waits in STOP with its
  request set until `comp_stop_interval` is 0. When the alarm ends within that
  interval (10 to 600 s) the mask is lifted and the compressor is driven before
  the fan.
- `BkgOnlyCountsDown` (property, `MCRefrigerationTiming.cfg`). `RQ:222` zeroes a
  countdown with the comment "reset timeout counter". Between bkg's load and
  store, bkg brings the old value back less one; between its test and its load, it
  stores 0 - 1 in the width of the counter. For the fan it does not last: the next
  tick zeroes or arms the countdown again. The same reset of a compressor at
  `RQ:749` is on the way back to NORMAL, which ignores OFF until the countdown is
  over.

**Proofs** (`RefrigerationProofs`), for all delays, any width of the counters, any
alarms and either setting of the bypass, from the named assumptions: delays fit
their counter, and `CompInterval` is not 0, which its register range 10..600
guarantees.

- `TypeCorrect`, `MachineAgreement`, `AirflowSafety`, `StartSafety`, `StopSafety`.
  The inductive invariant is `IInv == TypeOK /\ MachinesAgree /\
  NoAirflowOnlyInStop`. `NoAirflowOnlyInStop` is not inductive alone: that a
  running compressor keeps its fan depends on requests following states and on the
  fan shutting down only when no compressor runs. Lemmas say what `CompStep` does
  to a well-formed record, `CoreTickFacts` collects them for a tick.
- `CompDelaysLast`, `IntervalsLast`, `FanDelaysLast`. `TimedInv` adds that the
  passes made since a delay began and what is left of its countdown together make
  up the delay that the present state calls for (`Kept`), and that what bkg is
  about to store is what core left there, unless `stale` says otherwise (`Fresh`).

## 3. Alarms

`AlarmAcl`: a period of core makes a pass when `u8CNT` is even; a pass visits each
alarm. Every access to `alarm_remove_bitmap` is a step (`AlarmLock`,
`AclClearTest`, `AclClearLoad`, `AclClearStore`), because `clear_alarm` runs in
threads that preempt core (`ClearAlarm`, `CpadClearFirst`, `CpadClearSecond`).
`Judge` is the rest of a visit: verdict, state machine, list, counters, log.
Verdicts are inputs but for E12's, which follows the exhaust lock; the checks in
`CanHold` may also answer HOLD (`acl07`, `acl11`, `alarm_calc.c:1434`, `1533`). At
most one period of core falls between the two words of cpad's command. Left out: tick
arithmetic of the lock, `WORK_LIMIT_CATION`, beeper bits. The node pool has as
many blocks as alarms, so appending does not fail.

Run `alarms`: bitmap, list, counters and the published copy agree between two
visits; a hand-reset alarm leaves only on a command; a command that hits no
read-modify-write stays pending until its alarm is judged; the log alternates
until it is full. `ConditionReported`: a condition that comes again and again and is
never seen gone is reported over and over, although commands end its alarm and HOLD
comes in between; `seen` is what the check found when it last looked, which it does
not do in the visit that takes a command. `ConditionGone`: one that is seen gone
again and again and does not come back ends, and no command stays unanswered.

Bounds: three alarms in words of two (two share a word, and there are two words),
one with a delay and HOLD, `u8CNT` modulo 2, a log of two. Fairness: core keeps
beginning and ending passes.

Not true (`MCAlarmAcl.cfg`):

- `PassSpacing` (property, `CntMax = 3`): `alarm_calc.c:456` says that passes are at
  least 1 s apart, but `u8CNT` goes from 254 to 0, both even, and two periods in a
  row make a pass.
- `CommandKept` (invariant): the pad answers a clear command with MB_ENOERR, but
  one between the load and the store of `clear_alarm_remove_bitmap`
  (`alarm_calc.c:383`) is overwritten for the other active alarms of the word; stated
  for hand-reset alarms, which only a command ends.
  `CommandPending` is what remains.
- `LockReleased` (invariant): `alarm_calc.c:1024` says "release the lock alarm", but
  `acl12` looks at E12's bit in `alarm_lock` and again in `acl_clear`; a command in
  between ends the alarm while `lock_flag` stays set.

**Proofs** (`AlarmAclProofs`), for any number of alarms, words, kinds and delays:
`CommandsKept`, `OnlyCommandsReset`, `RecordsKept`, `LogTellsTheStory`,
`AlarmTypeCorrect`. `CommandInv` follows a command
through the accesses: what is loaded still holds the commands of the other alarms
of the word that came outside the window (`Loaded`, `Kept`), what `acl_clear` has taken is
judged in the same visit (`Taken`), and a bit that a raised hand-reset alarm
will find, and its POSTACTIVE, come from a command on record (`Recorded`).
`RecordInv` adds that the list has each raised alarm once; its lemmas say what
`node_append` and `node_delete` do to a sequence without duplicates. `LogInv` is
`LogAlternates` with the type of the log: a record is pushed when its alarm changes
sides, and what the log said of the alarms before is unchanged (`LoggedOneMore`).
The two liveness properties are model-checked only.

## 4. Configuration store

`ConfRegisters` is the promise: one word per register, which only changes to the
value in use, and comes back at a start. `ConfStore` has three voting copies with
checksums, a factory area and a flag byte. An operation of a thread is a list of
instructions, one per EEPROM write (`Step`), with power failures (`PowerFail`,
`PowerOn`) and writes that fail unnoticed (`Drop`) between them. `PadWrite`,
`CoreWrite`, `MultiWrite`, `FactoryCommand`, `CpadCommand` begin operations;
`eeprom_compare_read` (`CompareRead`) votes and repairs. Operations take turns
here, so that the reads of one are taken together. `ConfStoreShared` makes each
read a step and lets two threads take turns as `iic_mutex` and the priorities
allow; a third thread on the bus is left out.

Words are sets of bits, so that a checksum is a symmetric difference. Left out:
failing reads, permissions, writes of several registers in one `reg_map_write`
(callers pass 1), event log.

| Run | Shows |
|---|---|
| `conf_kept` | `ConfStore` implements `ConfRegisters`, the word being the vote: with a power failure at any EEPROM write of single and multiple writes, of dispensing and of the load and save commands, and on a new board without power failures |
| `conf_durable` | what is in use comes back at a start, after single writes with power failures, after a failed write, and on a new board with factory commands; no write finds three different checksums |
| `conf_two_writers` (violation) | core votes over checksums of different writes of the pad and repairs wrongly; a later write of the pad is dropped |

Bounds: two registers of two bits, so that three copies can all differ and a
value can be out of range; one register that core writes, one identity register
that also switches the WiFi module.

Not true:

- `ChecksumsVote` without its conjunct on `S.images` (invariant,
  `MCConfStoreDurable.cfg`, `Scenarios <- MultipleScenes`): a power failure in a
  single write, another in a multiple write and the repairs of the two starts
  leave three different checksums. `eeprom_tripple_write` then drops single
  writes, which `reg_map_write` reports as successful (`global_var.c:1291` says
  "data is written to the EEPROM"): `Durable` fails with the same scenes.
- `FlagMeansValid` (invariant, `MCConfStoreDurable.cfg`, `FreshFailing`):
  `global_var.c:551` says that the flag means "configuration data valid in
  eeprom", but `save_conf_reg` sets it after the first of the three copies.
- `Durable` (same, `FreshFailing`): when the power fails while the factory area is
  saved, a later restore finds its checksum wrong, loads the defaults and leaves
  the flag at FACT, so that settings made afterwards are lost at each start.
- `KeptAtomically` (`MCConfStoreKept.cfg`, `FailingScenes`): interrupted restores
  can make all three copies of a word differ.

**Proofs**, for any number of registers, width of a word, ranges and defaults
within them, from `RegsAssumption`, `WordAssumption`, `RangeAssumption` and
`ScenarioAssumption`. The four statements above show that the properties are false
for some machines, so the theorems name the ones they are about: `Quiet`, a
provisioned EEPROM that answers, without jumper and factory commands, and
`OneByOne`, also without multiple writes. Power failures, any number of them at
any write and also during the repairs of a start, are in both.

- `QuietKeptAtomically == Spec /\ Quiet => KeptAtomically` (`ConfStoreProofs`, with
  the operators and the beginnings of operations in `ConfStoreLemmas`): a
  refinement, every step of the store being a step of `ConfRegisters` or none of it.
  `KeptInv` says how far the one operation under way has got. While the system is
  up, the copies of a register that differ from the value in use are equal to each
  other, and either all of them are still to be written, or all three copies are
  equal and the operation leaves them alone (`Doing`); so two of
  three agree at any moment, and a write moves the vote from the old value to the
  new one once. At a start (`Booting`) the first `n` registers are loaded from the
  vote and repaired, but for the writes left of the last repair, and these carry
  the vote. That a range check is idempotent, because the default is in range, makes
  loading twice harmless.
- `SingleWritesDurable`, `SingleWritesVote` (`ConfStoreSingleProofs`): `SingleInv`
  adds that a register and the checksums are never torn together.
  `eeprom_tripple_write` is eight writes at most (`Plan`): the repair of a
  checksum, three copies, three checksums; a power failure leaves either a torn
  register with equal checksums, or whole registers with a torn checksum. A start
  thus finds one thing to repair; the repair of a register writes its copy and the
  checksum of that area as `(sum xor old) xor new`, which `Repairing` relates to the
  other areas.

## 5. Work mode status word

`sys_set_remap_status` sets or clears a bit of a word with an unlocked load and
store. `StatusWord` is this for any threads, priorities and bits: a thread begins
only above all that are between their two accesses. `ModeStatus` has the calls
the four threads make: `Bkg` rewrites all its bits in each pass, `Core` writes
ALARM and BEEP on a change (`CalcAlarmCnt`) and the frost bits of the coils that
are outside the band of the thresholds (`Defrost`), `Cpad` clears BEEP, `Mqtt`
writes NET.

Run `mode_status`: the bits of bkg are what bkg last asked for; a bit changes only
by its writer or by a thread below one; at the end of a period the frost bits are
right. Bounds: one bit of bkg, one coil, one alarm, all four threads: every pair
of accesses can interleave as the priorities allow, and bits of the same thread
are written by the same calls.

Not true: `AlarmShown` (invariant, `MCModeStatus.cfg`), that ALARM shows whether
there are alarms while nobody writes. `calc_alrarm_cnt` (`event_record.c:544`)
writes it only on a change, bkg or cpad may store an older word over it, and it
stays wrong until the next change.

**Proofs** (`ModeStatusProofs`). For any threads with distinct priorities:
`FirmBitsKept` and `ChangesOnlyFromBelow`. `FirmBits` is not inductive, since a
store writes back a whole loaded word: `LoadedStillTrue` says that a loaded word is
right about every bit that no thread above writes, and is inductive because a store
changes only bits of the storing thread and of those above it. For the real calls
with any number of bits, coils and alarms: `ImplementsWord` (`Spec => WordSpec`, a
refinement step by step), from it `BkgBitsFirm`, and `FrostBitsRefreshed`, whose
invariant `FrostInv` says that of the coils looked at in this period all bits are
right but the one about to be stored.

## 6. Water circuit

`WaterHandlers` has the handlers `Pwp_req_exe`, `Sterilize_req_exe`,
`WaterOut_req_exe` and `Storage_exe` with what they call, as operators on a record
`w` of the shared state. `WaterCircuit` runs them: `CoreTick` (a period, in their
order, with new inputs), `Bkg` (counts timers access by access and books portions),
`Answer` (the heater on a line that loses commands, external), `PadRequest`,
`PadStorage`, `PadSource`. With `c.split` false the booking of a portion is one step;
with `c.turns` false the user asks for the other kind of water only when the last
portion is over. Valve 3 and the 24 V lamp are one
output, DO_RSV2 (`sys_conf.h:68`, `77`), and so one name (`EV3`, `UV24`).

| Run | Shows |
|---|---|
| `water_safety` | pump 2 does not run dry, no lamp with the door open, storage leaves pumps off and valves closed, with bkg split |
| `water_live` | valve 2, valve 3, the hot pump and the heater close without a request, storage and circulation end, with each booking in one step |
| `water_outlet_stuck` (violation) | bkg sees the portion booked, core starts the next one, bkg stores IDLE over it; when the tank then reads low, `WaterOut_Close` takes the idle branch and the valve stays open until the door opens, water circulates or somebody takes some |

`water_outlet_stuck` is why `water_live` does not split the booking: what it shows
holds outside the window of `bkg_thread.c:535-537`. The finding quotes the comment
"关闭出水" (close the outlet), `RQ:1313`.

Bounds: configurations with buttons, portions, hot water from the serial heater and
from the pot, storage and an outer source; the safety run has an ice machine whose
valve 3 shares its output with the lamp, the live run one without the 24 V lamp.
`MaxTime` 3 for the 5 minutes of `WATER_MAXTIME`, 16-bit timers modulo 6, one lost
command in a row, `AlwaysLit` 9 for the delay 999. Circulation takes 1, 2, 3 or, as
the longest the counter can reach, 5 periods (`U16 - 1`). Flow rate and heat are the
code's. The first conversion of the heater's time is of a negative number; the live
run has both results (`cast`). Fairness: core's and bkg's loops go on, and the
heater's line does not lose every command (`MaxLoss`).

Not true, with `MCWaterLive.cfg`:

- `OutletCloses` (`Configs <- WholeTurned`): a request for hot water from the pot that
  is changed to cold half-way ends as cold and is booked, and nothing switches the hot
  pump off any more (`RQ:1377` does it only when the
  portion ends as hot). With the serial heater
  (`Configs <- WholeHotCold`) it holds.
- `OutletCloses` (`Configs <- WholeShared`): an ice machine with the 24 V lamp
  (`u16Sterilize_Mode` 2 or 3). `RQ:1814` and `1999` close valve 3, and `UV_req_exe`
  (`RQ:1835`, `2051`) sets the same output again. When the tank reads empty during
  circulation, `RQ:1934-1970` returns with the lamps on, and the output stays set.
- `CirculationEnds` (`Configs <- WholeEndless`): the limit is `u16Sterilize_Time` * 60 * 2
  periods, the counter a `uint16_t` (`RQ:1930`, `2021`). The register allows 1 to 600
  minutes (`global_var.c:91`); 547 and more need 65640 periods, which the counter never
  reaches, and circulation goes on for ever.

Not true, with `MCWaterSafety.cfg`:

- `PurifierDry` (invariant, `Configs <- RacedWaiting`). `RQ:1170` says "到低水位退出"
  (leave at the low level). When storage is asked for while the compressors still
  run, `Pwp_req_exe` returns early with pump 1 on (`RQ:1091`) and does not look at the
  level until `Storage_exe` takes over.
- `DoorStopsWater` (invariant, `Configs <- WholeDoor`): the comment at `RQ:1563`
  closes the outlet with the door open. It does not stop the hot pump left on as
  under `WholeTurned`.
- `CoverDark` (`Configs <- RacedLit`): `RQ:1934` says "外壳打开时，关闭紫外灯" (with
  the case open, the ultraviolet lamp is off); with `u16UV_Delay` = 999 it burns.

**Proofs** (`WaterProofs`), for every set of configurations, input, request, loss
and interleaving with bkg: `PumpNotDry`, `StorageLeavesDry`, and `DoorDarkens` for
configurations whose `uvDelay` is not `AlwaysLit`, without which it is false. Only
core writes the outputs, so the argument follows one period through the handlers:
`Sterilize_req_exe` switches the pump off when the tank reads empty and the lamps off
with the door open, and `Moves` bounds what each later handler may switch on.
`WaterInv` carries what depends on earlier periods: storage reaches its end with
everything off (`Emptied`). `CoverDark` is about the lamps the configuration names:
without the 24 V lamp its output is valve 3.

## 7. Water making and display

`WaterMaking`: `Sys_Fan_CP_WL` (why the fan and compressors rest), `Cold_Water_exe`
(two valves of the ice water and their delays), `Defrost_req_exe`, and bkg's
countdowns access by access. `DisplayRestart`: `Restart_DIS_exe`, the receive
interrupt, the pad's commands. `ReqExecution` composes them: `Core` is `Decide`,
`Cool`, `Defrost`, `Display` in turn, `Pad` and `Screen` may come between two of
them, `Background` only when core rests.

Run `req_execution`: no running on a judgement that frost has withdrawn, the
refrigerant valve is open only with the ice water valve, a valve moves only after
its delay (unless bkg stores over the arming, which then owes nothing), restarts are
limited, a full tank rests, valves follow the temperature, humidity is obeyed, and the
display comes back.

Bounds: scenes `weather`, `tank`, `ice`, `screens` and `hasty` (no silence, no rest)
each vary what they are about; delays of 1 and 2, counters modulo 4. Fairness:
core's loop goes on; bkg, which core preempts in every period, still gets the
processor infinitely often while core sleeps (strong fairness, because it is
enabled again and again but not always); and the pad,
which restarts the display as off, a sleep of a second, on, wakes from its sleep
(`ScreenOn`).

Two accesses of core are whole in the model. `req_bitmap_op` (`RQ:69-75`) is a
read-modify-write of the request word that the pad preempts, and core's store then
undoes the pad's; every period but the last of a restart writes the bit again. The
increment of `u16Uart_Timeout[1]` (`RQ:2608`) may undo a clear of the receive
interrupt, and the silence is counted as if that byte had not come.

Not true (`MCReqExecution.cfg`):

- `LookAfterFrost` (invariant): `RQ:1054` says "除霜后，需要检测温湿度" (after
  defrosting, look at temperature and humidity); bkg may store over the 0 that asks
  for it (`bkg_thread.c:611`); a decrement of that 0 wraps to 65535, 18 hours. `Judged` is what
  remains.
- `OneAfterAnother` (property): `RQ:2132-2133` has two delays "延时1M" and "延时1S"
  (1 min, 1 s), but ice water mode switched off and on opens both valves at once,
  since only a change of mind arms them.
- `RestartDarkens` (property): `RQ:2633` says "关闭XX秒" (off for XX s), but the
  pad's own restart may switch the display on before the time is up, and the time
  counted so far stays when restarts are disabled meanwhile (`RQ:2630`), so that a
  later one is shorter or counted without the display having been off.
- `RestartsLimited` (`Scenes <- Countless`): `RQ:2587` says "超过次数" (limit
  exceeded), but the count is 8 bits wide and passes no limit of 256 or more. With a
  hold time of 0 as well, `DisplayReturns` fails: each period asks for a restart, the
  last period of one (`RQ:2639`) does not switch the display on, and no rest ever does.

**Proofs** (`ReqExecutionProofs`), for every set of scenes and all delays:
`ReqTypeCorrect`, `JudgedKept`, `ValvesStayNested`, `DelayHonoured`, and
`RestartsCounted` for limits below 256, as the last item above demands. The
properties depend on what bkg has loaded when core interrupts it. `ReqInv` adds
that a countdown found running still runs when it is stored (`Counting`; core only
arms `Cold_Delay`), that what is owed to the valves is at most what is left of the
countdown (`Owed`), that nothing counts before the first look (`Unlooked`), and
bounds on the restarts (`Counted`).

## 8. Proved and only model-checked

Twenty-nine theorems are listed in `PROJECT.json`; their lemmas are not. The
assumptions are the named ASSUMEs of the modules, which TLC evaluates on each run,
and the premises named above. These stay with TLC:

- Liveness (`PowerOffStops`, `PowerOnRuns`, `AirflowRestored`, `ConditionReported`,
  `ConditionGone`, `OutletCloses`, `HeaterCloses`, `StorageEnds`, `CirculationEnds`,
  `FullRests`, `IceFollows`, `HumidityObeyed`, `DisplayReturns`): fairness and
  ENABLED are outside what the installed prover handles.
- `KeptAtomically`, `Durable` and `ChecksumsVote` with factory commands, a new board
  or failing writes: proved for `Quiet` and `OneByOne` only. The general case is
  false with power failures, and the checksum of a whole area is a fold over its
  registers, which needs an induction over data that the prover cannot do.

## 9. Not modelled

- The repository contains all of RT-Thread with its board ports, FreeModbus, lwIP
  and the STM32 libraries, some 632,000 lines. The firmware's own code is a small
  part of it, and what is modelled is a part of that: below 1 % of the whole tree.
  The libraries enter as priorities, delays and a heater that may not answer.
- Digital inputs: a debouncing counter per input; the models take debounced inputs.
- Manual and test mode: a technician's outputs replace the computed ones.
- Event and run-time records: the calls that fill the ring are commented out
  (`bkg_thread.c:68-73`).
- The MQTT session and the Modbus master: a library drives them; what they write
  into the shared state is in `ModeStatus` or an input.
- Demand and PID: `req_update` is not called. Team control and CAN: not built.
- Passwords: digests and a permission countdown, not part of the models' properties.
- Board drivers: register access without state of its own.
- Within modelled parts: comparisons of analog values with limits, the clock, run-time
  totals; each section says what it leaves out.
