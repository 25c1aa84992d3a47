------------------------------ MODULE AlarmAcl ------------------------------
(***************************************************************************)
(* The alarm engine: alarm_acl_exe of the core thread and clear_alarm of   *)
(* the threads that take commands.                                         *)
(*                                                                         *)
(* In every second period the core thread visits the alarms in order.  A   *)
(* visit runs the alarm's check acl00 .. acl22 and then one step of its    *)
(* state machine, which records what it decides in the alarm bitmap, in    *)
(* the chain of active alarms with its counters, and in the log FIFO.      *)
(*                                                                         *)
(* A clear command sets every bit of alarm_remove_bitmap; each check takes *)
(* its own bit back with a read-modify-write of the 16 bit word.  The      *)
(* Modbus threads that call clear_alarm preempt core anywhere, so a visit  *)
(* is split at each access to that bitmap.  The cpad thread also calls it, *)
(* but below core's priority: it runs only while core sleeps, and one      *)
(* period, after which core sleeps again, may fall between its two words.  *)
(*                                                                         *)
(* The verdict of a check is an input, except for the exhaust lock E12,    *)
(* which is computed from the activations of E11.                          *)
(***************************************************************************)
EXTENDS Integers, Sequences, SequencesExt, FiniteSetsExt

CONSTANTS
  N,          \* ACL_TOTAL_NUM
  WordBits,   \* 16: the alarms of a word of the remove bitmap
  CntMax,     \* 0xFF: where u8CNT returns to 0
  Delay,      \* Alarm_acl_delay
  HandReset,  \* the alarms ACL_CONF gives ACL_ENMODE_HAND_RESET_ALARM
  Critical,   \* the alarms ACL_CONF gives CRITICAL_ALARM_lEVEL
  CanHold,    \* the alarms whose check may answer ALARM_ACL_HOLD
  NoClear,    \* the alarms whose check only answers CLEARED (acl17 .. 19, 22)
  E11,        \* exhaust temperature
  E12,        \* exhaust temperature lock
  LogDepth    \* depth of alarmlog_fifo

Ids == 0..(N - 1)

ASSUME CountAssumption == N \in Nat \ {0} /\ WordBits \in Nat \ {0} /\ CntMax \in Nat \ {0}
ASSUME AlarmDelayAssumption == Delay \in [Ids -> Nat]
ASSUME KindAssumption ==
  /\ HandReset \subseteq Ids /\ Critical \subseteq Ids
  /\ CanHold \subseteq Ids /\ NoClear \subseteq Ids
ASSUME LockAssumption == E11 # E12 /\ E12 \notin NoClear /\ E11 \notin NoClear
ASSUME LogAssumption == LogDepth \in Nat

InWord(w) == {k \in Ids : k \div WordBits = w}
WordOf(k) == InWord(k \div WordBits)

States == {"INACTIVE", "PREACTIVE", "ACTIVE", "POSTACTIVE"}
Verdicts == {"TRIGGERED", "CLEARED", "HOLD"}
Steps == {"lock", "test", "load", "store", "judge"}

VARIABLES
  cnt,        \* u8CNT
  ran,        \* whether the previous period executed a pass
  at,         \* the alarm being visited; N: core sleeps
  step,       \* where in the visit core is
  hit,        \* acl_clear found a command for an active alarm
  word,       \* the word of the remove bitmap that core has loaded
  locked,     \* what alarm_lock has answered in this visit
  state,      \* alarm_sts[].state
  timeout,    \* alarm_sts[].timeout
  seen,       \* what each check found when it last looked
  lock,       \* alarm_lock[4]: lock_flag, lock_time and last_state
  remove,     \* alarm_remove_bitmap
  half,       \* where cpad is in a clear command: 0 not in one, 1 its first
              \* word is written, 2 and core has run since
  raised,     \* status.alarm_bitmap
  published,  \* ComSta.u16Alarm_bitmap
  chain,      \* the list of active alarms, newest first
  counts,     \* alarm_status_cnt
  log,        \* alarmlog_fifo
  owed,       \* the alarms with a command, outside a read-modify-write, that
              \* they have not answered yet
  told        \* the hand-reset alarms with a command since their last idle visit

coreVars == <<cnt, ran, at, step, hit, word, locked>>
fsmVars == <<state, timeout, seen, lock>>
outVars == <<raised, published, chain, counts, log>>
cmdVars == <<remove, half, owed, told>>
vars == <<coreVars, fsmVars, outVars, cmdVars>>

----------------------------------------------------------------------------
(* The command side.                                                       *)

Live(k) == state[k] \in {"ACTIVE", "POSTACTIVE"}

\* A command for k is written while core is between testing k's bit and
\* storing its word, or between loading and storing the word k lies in.
InWindow(k) ==
  \/ step = "load" /\ k = at
  \/ step = "store" /\ at \in Ids /\ k \in WordOf(at)

\* The bits ks of the remove bitmap are set; the rest is bookkeeping.
SetRemove(ks) ==
  /\ remove' = remove \cup ks
  /\ told' = told \cup (ks \cap HandReset)
  /\ owed' = owed \cup {k \in ks \ NoClear : Live(k) /\ ~InWindow(k)}

\* clear_alarm in a Modbus thread, which core cannot interrupt.
ClearAlarm ==
  /\ SetRemove(Ids)
  /\ UNCHANGED <<coreVars, fsmVars, outVars, half>>

\* clear_alarm in the cpad thread, one word at a time.
CpadClearFirst ==
  /\ at = N
  /\ half = 0
  /\ half' = 1
  /\ SetRemove(InWord(0))
  /\ UNCHANGED <<coreVars, fsmVars, outVars>>

CpadClearSecond ==
  /\ at = N
  /\ half # 0
  /\ half' = 0
  /\ SetRemove(InWord(1))
  /\ UNCHANGED <<coreVars, fsmVars, outVars>>

----------------------------------------------------------------------------
(* The start of a pass and the checks.                                     *)

FirstStep(k) ==
  CASE k = N -> "judge"
    [] k # N /\ k = E12 -> "lock"
    [] k # N /\ k # E12 /\ k \in NoClear -> "judge"
    [] k # N /\ k # E12 /\ k \notin NoClear -> "test"

\* Faulty variant: u8CNT returns to 0 one period late.
NextCntLate == IF cnt + 1 > CntMax THEN 0 ELSE cnt + 1

NextCnt == IF cnt + 1 >= CntMax THEN 0 ELSE cnt + 1

\* One period of the core thread: u8CNT decides whether there is a pass.
Period ==
  /\ at = N
  /\ half # 2
  /\ half' = IF half = 0 THEN 0 ELSE 2
  /\ cnt' = NextCnt
  /\ ran' = (cnt' % 2 = 0)
  /\ at' = IF ran' THEN 0 ELSE N
  /\ step' = FirstStep(at')
  /\ UNCHANGED <<hit, word, locked, fsmVars, outVars, remove, owed, told>>

\* A visit that finds its alarm idle forgets the commands before it.
Forget(k) == told' = IF Live(k) THEN told ELSE told \ {k}

Unlocked(l) == [l EXCEPT !.flag = FALSE, !.count = 0, !.near = FALSE]

\* alarm_lock: the flag latches once three activations of E11 lie within an
\* hour, and a command for E12 takes the flag and the activations back.
AlarmLock ==
  /\ at \in Ids /\ step = "lock"
  /\ \E l \in {IF E12 \in remove THEN Unlocked(lock) ELSE lock} :
       /\ locked' = (l.flag \/ (l.count = 3 /\ l.near))
       /\ lock' = [l EXCEPT !.flag = locked']
  /\ step' = "test"
  /\ Forget(at)
  /\ UNCHANGED <<cnt, ran, at, hit, word, state, timeout, seen, outVars, remove, half, owed>>

\* acl_clear tests the alarm's bit; a command ends an active alarm.
AclClearTest ==
  /\ at \in Ids /\ step = "test"
  /\ hit' = (at \in remove /\ Live(at))
  /\ state' = IF hit' THEN [state EXCEPT ![at] = "POSTACTIVE"] ELSE state
  /\ timeout' = IF hit' THEN [timeout EXCEPT ![at] = 0] ELSE timeout
  /\ IF at = E12 THEN UNCHANGED told ELSE Forget(at)
  /\ step' = "load"
  /\ UNCHANGED <<cnt, ran, at, word, locked, seen, lock, outVars, remove, half, owed>>

\* clear_alarm_remove_bitmap loads the word ...
AclClearLoad ==
  /\ at \in Ids /\ step = "load"
  /\ word' = remove \cap WordOf(at)
  /\ step' = "store"
  /\ UNCHANGED <<cnt, ran, at, hit, locked, fsmVars, outVars, cmdVars>>

\* Faulty variant: the store takes every bit of the word.
StoredWordEmpty(w, k) == {}

StoredWord(w, k) == w \ {k}

\* ... and stores it without the alarm's bit, over whatever is there now.
AclClearStore ==
  /\ at \in Ids /\ step = "store"
  /\ remove' = (remove \ WordOf(at)) \cup StoredWord(word, at)
  /\ word' = {}
  /\ step' = "judge"
  /\ UNCHANGED <<cnt, ran, at, hit, locked, fsmVars, outVars, half, owed, told>>

\* What the check of k may answer; on a command it does not look.
Answers(k) ==
  IF hit \/ k \in NoClear THEN {"CLEARED"}
  ELSE IF k = E12 THEN {IF locked THEN "TRIGGERED" ELSE "CLEARED"}
  ELSE {"TRIGGERED", "CLEARED"} \cup (IF k \in CanHold THEN {"HOLD"} ELSE {})

\* acl11 notices by last_state that E11 has become active since it was last
\* here and puts the time into lock_time; near says whether the oldest of
\* the three times is at most an hour before it.  A command or an abnormal
\* sensor value returns from acl11 before this.
LockTime(near) ==
  IF lock.last = "PREACTIVE" /\ state[E11] = "ACTIVE"
    THEN [lock EXCEPT !.last = "ACTIVE",
                      !.count = IF lock.count < 3 THEN lock.count + 1 ELSE 3,
                      !.near = near /\ lock.count >= 2]
    ELSE [lock EXCEPT !.last = state[E11]]

----------------------------------------------------------------------------
(* The state machine of an alarm and the records it keeps.                 *)

\* The cases of the switch in alarm_acl_exe: the next state and time out of
\* alarm k on verdict v, and what the step records.  enable_mode is forced to
\* AUTO_RESET_ALARM before, so no alarm is ever disabled.
Go(st, t, ev) == [st |-> st, t |-> t, ev |-> ev]
Stay(k) == Go(state[k], timeout[k], "NONE")

Inactive(k, v) == IF v = "TRIGGERED" THEN Go("PREACTIVE", Delay[k], "NONE") ELSE Stay(k)

\* Faulty variant: HOLD starts the countdown before an alarm is reported again.
PreactiveHoldRestarts(k, v) ==
  IF v = "TRIGGERED" THEN IF timeout[k] > 0 THEN Go("PREACTIVE", timeout[k] - 1, "NONE")
                          ELSE Go("ACTIVE", 0, "TRIGER")
  ELSE IF v = "CLEARED" THEN Go("INACTIVE", 0, "NONE") ELSE Go("PREACTIVE", Delay[k], "NONE")

Preactive(k, v) ==
  CASE v = "TRIGGERED" /\ timeout[k] > 0 -> Go("PREACTIVE", timeout[k] - 1, "NONE")
    [] v = "TRIGGERED" /\ timeout[k] = 0 -> Go("ACTIVE", 0, "TRIGER")
    [] v = "CLEARED" -> Go("INACTIVE", 0, "NONE")
    [] v = "HOLD" -> Stay(k)

\* Faulty variant: reset_mask is not looked at.
ActiveAutoReset(k, v) ==
  IF v = "CLEARED" THEN Go("POSTACTIVE", Delay[k], "NONE") ELSE Stay(k)

Active(k, v) ==
  CASE v = "TRIGGERED" -> Go("ACTIVE", 0, "NONE")
    [] v = "CLEARED" /\ k \notin HandReset -> Go("POSTACTIVE", Delay[k], "NONE")
    [] v = "CLEARED" /\ k \in HandReset -> Stay(k)
    [] v = "HOLD" -> Stay(k)

\* Faulty variant: an alarm that comes back is recorded a second time.
PostactiveRepeats(k, v) ==
  IF v = "TRIGGERED" THEN Go("ACTIVE", 0, "TRIGER")
  ELSE IF v = "CLEARED" /\ timeout[k] = 0 THEN Go("INACTIVE", 0, "END")
  ELSE IF v = "CLEARED" THEN Go("POSTACTIVE", timeout[k] - 1, "NONE") ELSE Stay(k)

\* Faulty variant: the countdown before an alarm ends stands still.
PostactiveStuck(k, v) ==
  IF v = "TRIGGERED" THEN Go("ACTIVE", 0, "NONE")
  ELSE IF v = "CLEARED" /\ timeout[k] = 0 THEN Go("INACTIVE", 0, "END") ELSE Stay(k)

Postactive(k, v) ==
  CASE v = "CLEARED" /\ timeout[k] > 0 -> Go("POSTACTIVE", timeout[k] - 1, "NONE")
    [] v = "CLEARED" /\ timeout[k] = 0 -> Go("INACTIVE", 0, "END")
    [] v = "TRIGGERED" -> Go("ACTIVE", 0, "NONE")
    [] v = "HOLD" -> Stay(k)

FsmStep(k, v) ==
  CASE state[k] = "INACTIVE" -> Inactive(k, v)
    [] state[k] = "PREACTIVE" -> Preactive(k, v)
    [] state[k] = "ACTIVE" -> Active(k, v)
    [] state[k] = "POSTACTIVE" -> Postactive(k, v)

\* calc_alrarm_cnt, of the levels in use.
Count(ch) ==
  LET crit == Len(SelectSeq(ch, LAMBDA k : k \in Critical)) IN
  [total |-> Len(ch), critical |-> crit, mioor |-> Len(ch) - crit]

\* node_append.
NodeAppend(k) == <<k>> \o chain

\* node_delete looks for the node among the first total_cnt.
NodeDelete(k) ==
  LET hits == {p \in 1..Len(chain) : p <= counts.total /\ chain[p] = k} IN
  IF hits = {} THEN chain ELSE RemoveAt(chain, Min(hits))

\* add_alarmlog_fifo: a full FIFO drops the record.
LogPush(k, ev) == IF Len(log) < LogDepth THEN Append(log, [id |-> k, ev |-> ev]) ELSE log

Record(k, ev) ==
  CASE ev = "NONE" -> UNCHANGED <<raised, chain, counts, log>>
    [] ev = "TRIGER" ->
         /\ log' = LogPush(k, ev)
         /\ raised' = raised \cup {k}
         /\ chain' = NodeAppend(k)
         /\ counts' = Count(chain')
    [] ev = "END" ->
         /\ log' = LogPush(k, ev)
         /\ raised' = raised \ {k}
         /\ chain' = NodeDelete(k)
         /\ counts' = IF chain' = chain THEN counts ELSE Count(chain')

\* The rest of the visit, and after the last one the copy of the bitmap.
Judge ==
  /\ at \in Ids /\ step = "judge"
  /\ \E v \in Answers(at), near, normal \in BOOLEAN :
       /\ at = E11 /\ ~normal => v = "CLEARED"
       /\ at # E11 => ~near /\ ~normal
       /\ seen' = [seen EXCEPT ![at] = IF hit THEN @ ELSE v]
       /\ lock' = IF at = E11 /\ ~hit /\ normal THEN LockTime(near) ELSE lock
       /\ \E r \in {FsmStep(at, v)} :
            /\ state' = [state EXCEPT ![at] = r.st]
            /\ timeout' = [timeout EXCEPT ![at] = r.t]
            /\ Record(at, r.ev)
            /\ owed' = IF r.ev = "END" THEN owed \ {at} ELSE owed
  /\ published' = IF at = N - 1 THEN raised' ELSE published
  /\ at' = at + 1
  /\ step' = FirstStep(at')
  /\ hit' = FALSE
  /\ locked' = FALSE
  /\ UNCHANGED <<cnt, ran, word, remove, half, told>>

----------------------------------------------------------------------------
\* alarm_acl_init.
Init ==
  /\ cnt = 0 /\ ran = FALSE
  /\ at = N /\ step = "judge"
  /\ hit = FALSE /\ word = {} /\ locked = FALSE
  /\ state = [k \in Ids |-> "INACTIVE"]
  /\ timeout = [k \in Ids |-> 0]
  /\ seen = [k \in Ids |-> "CLEARED"]
  /\ lock = [flag |-> FALSE, count |-> 0, near |-> FALSE, last |-> "INACTIVE"]
  /\ remove = {} /\ half = 0
  /\ raised = {} /\ published = {}
  /\ chain = <<>> /\ counts = Count(<<>>)
  /\ log = <<>>
  /\ owed = {} /\ told = {}

Core == Period \/ AlarmLock \/ AclClearTest \/ AclClearLoad \/ AclClearStore \/ Judge

Next == Core \/ ClearAlarm \/ CpadClearFirst \/ CpadClearSecond

Spec == Init /\ [][Next]_vars

\* The core thread is an endless loop around a delay, and the threads above
\* it sleep between two commands: passes begin and end for ever.  Core is
\* always enabled, so this is its weak fairness.
FairSpec == Spec /\ []<>(at = N) /\ []<>(at = 0)

----------------------------------------------------------------------------
(* Properties.                                                             *)

\* Every variable stays within its type.
TypeOK ==
  /\ cnt \in 0..(CntMax - 1) /\ ran \in BOOLEAN
  /\ at \in 0..N /\ step \in Steps
  /\ hit \in BOOLEAN /\ locked \in BOOLEAN
  /\ word \subseteq Ids /\ remove \subseteq Ids /\ half \in 0..2
  /\ state \in [Ids -> States]
  /\ timeout \in [Ids -> Nat]
  /\ \A k \in Ids : timeout[k] <= Delay[k]
  /\ seen \in [Ids -> Verdicts]
  /\ lock \in [flag : BOOLEAN, count : 0..3, near : BOOLEAN, last : States]
  /\ raised \subseteq Ids /\ published \subseteq Ids
  /\ chain \in Seq(Ids) /\ Len(log) <= LogDepth
  /\ owed \subseteq Ids /\ told \subseteq HandReset

\* The alarm bitmap, the chain and its counters, and what is published after
\* a pass always name the same alarms: those in ACTIVE or POSTACTIVE, each
\* once (node_append, node_delete, alarm_status_bitmap_op in alarm_acl_exe).
RecordsAgree ==
  /\ raised = {k \in Ids : Live(k)}
  /\ ToSet(chain) = raised /\ IsInjective(chain)
  /\ counts = Count(chain)
  /\ at = N => published = raised

\* The last of the first n records of l about alarm k says that it is raised.
LoggedRaised(l, k, n) ==
  \E p \in 1..n : /\ l[p].id = k /\ l[p].ev = "TRIGER"
                  /\ \A q \in (p + 1)..n : l[q].id # k

\* The log tells the story of each alarm in order: its TRIGER and END records
\* alternate, and unless the FIFO has filled up the last one says whether it
\* is raised (add_alarmlog_fifo in alarm_acl_exe).
LogAlternates ==
  /\ \A p \in 1..Len(log) :
       log[p].ev = IF LoggedRaised(log, log[p].id, p - 1) THEN "END" ELSE "TRIGER"
  /\ Len(log) < LogDepth => \A k \in Ids : k \in raised <=> LoggedRaised(log, k, Len(log))

\* A raised hand-reset alarm only ends by a clear command given after the
\* visit that raised it has begun (ACL_ENMODE_HAND_RESET_ALARM, acl_clear).
HandResetStep ==
  \A k \in HandReset : k \in raised /\ k \notin raised' => k \in told

HandResetLatched == [][HandResetStep]_vars

\* A clear command that does not fall into a read-modify-write stays pending
\* for each active alarm until the visit that ends the alarm (acl_clear).
CommandPending ==
  \A k \in owed : k \in remove \/ (at = k /\ hit)

\* A condition that comes again and again and is never seen gone is reported
\* over and over, although clear commands end the alarm and its check answers
\* HOLD in between, for as long as it likes (the PREACTIVE countdown in
\* alarm_acl_exe, acl_clear).
ConditionReported ==
  \A k \in Ids :
    <>[](seen[k] # "CLEARED") /\ []<>(seen[k] = "TRIGGERED") => []<>(k \in published)

\* An auto-reset alarm whose condition is seen gone again and again and does
\* not come back disappears, HOLD or not, and no alarm stays for ever with a
\* command it has not answered (the POSTACTIVE countdown, acl_clear).
ConditionGone ==
  \A k \in Ids :
    /\ k \notin HandReset =>
         (<>[](seen[k] # "TRIGGERED") /\ []<>(seen[k] = "CLEARED") => <>[](k \notin published))
    /\ []<>(k \notin owed)

\* What the comment "a pass at least 1 s after the last one" in alarm_acl_exe
\* promises: two periods in a row never both execute a pass.  It does not
\* hold, see README.md.
PassSpacing == [][at = N /\ at' = 0 => ~ran]_vars

\* What a clear command answered with MB_ENOERR promises: between two passes it
\* is pending for every hand-reset alarm still active.  It does not hold, see
\* README.md.
CommandKept == at = N => \A k \in told : Live(k) => k \in remove

\* What "release the lock alarm" in alarm_lock promises: E12 is idle exactly
\* when the lock is open.  It does not hold, see README.md.
LockReleased == at = N => (state[E12] = "INACTIVE" <=> ~lock.flag)
=============================================================================
