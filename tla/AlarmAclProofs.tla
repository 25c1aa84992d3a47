--------------------------- MODULE AlarmAclProofs ---------------------------
(***************************************************************************)
(* The alarm engine for any number of alarms, word size, delays and kinds  *)
(* of alarms: its records and its log agree with the states, a clear       *)
(* command stays pending unless it falls into a read-modify-write, and a   *)
(* hand-reset alarm ends only by command.                                  *)
(*                                                                         *)
(* A command is lost only through the unlocked word of the remove bitmap.  *)
(* So the invariant follows the word through the steps of a visit: what    *)
(* core has loaded is part of what is there (Loaded), it holds every       *)
(* command that must not get lost (Kept), and the visited alarm has taken  *)
(* its own command before the word is stored without it (Taken).           *)
(***************************************************************************)
EXTENDS AlarmAcl, SequenceTheorems, TLAPS

USE CountAssumption, AlarmDelayAssumption, KindAssumption, LockAssumption

\* The types that the arguments below rest on.
Typed ==
  /\ at \in 0..N /\ step \in Steps /\ hit \in BOOLEAN
  /\ state \in [Ids -> States] /\ timeout \in [Ids -> Nat]
  /\ word \subseteq Ids /\ remove \subseteq Ids
  /\ raised \subseteq Ids /\ told \subseteq HandReset /\ owed \subseteq Ids

\* Only raised alarms owe an answer, and the checks acl17 .. 19 and 22, which
\* never trigger, are never raised.
Owing ==
  /\ raised = {k \in Ids : Live(k)}
  /\ owed \subseteq raised
  /\ \A k \in NoClear : state[k] = "INACTIVE"

\* An alarm that has taken its command ends in this visit.
Ends ==
  hit => /\ at \in Ids /\ step \in {"load", "store", "judge"}
         /\ state[at] = "POSTACTIVE" /\ timeout[at] = 0

Taken == at \in owed /\ step \in {"load", "store"} => hit

Loaded == step = "store" => at \in Ids /\ word \subseteq remove \cap WordOf(at)

Kept == step = "store" => owed \cap WordOf(at) \subseteq word \cup {at}

\* A bit of the remove bitmap that a raised hand-reset alarm will find, and the
\* state it then takes, come from a command that is on record.
Recorded ==
  /\ \A k \in remove \cap raised \cap HandReset : k \in told
  /\ step = "judge" /\ at \in (remove \cap HandReset) \ NoClear => at \in told
  /\ \A k \in HandReset : state[k] = "POSTACTIVE" => k \in told

CommandInv ==
  Typed /\ Owing /\ Ends /\ Taken /\ Loaded /\ Kept /\ Recorded /\ CommandPending

----------------------------------------------------------------------------
\* Every alarm lies in its own word.
LEMMA OwnWord == \A k \in Ids : k \in WordOf(k)
  BY Zenon DEF WordOf, InWord, Ids

\* A visit begins with the lock, with the test or, for an alarm without a
\* command, with the verdict.
LEMMA FirstSteps ==
  \A k \in 0..N : /\ FirstStep(k) \in {"lock", "test", "judge"}
                  /\ k \in Ids \ NoClear => FirstStep(k) # "judge"
  BY DEF FirstStep, Ids

\* What a step of the state machine does to an alarm: it begins and ends with
\* a record, and a hand-reset alarm is not let go by the verdict.
LEMMA FsmSteps ==
  ASSUME Typed, NEW k \in Ids, NEW v \in Verdicts
  PROVE  LET r == FsmStep(k, v) IN
         /\ r.st \in States /\ r.t \in Nat /\ r.ev \in {"NONE", "TRIGER", "END"}
         /\ r.ev = "NONE" => (r.st \in {"ACTIVE", "POSTACTIVE"} <=> Live(k))
         /\ r.ev = "TRIGER" => ~Live(k) /\ r.st = "ACTIVE" /\ v = "TRIGGERED"
         /\ r.ev = "END" => state[k] = "POSTACTIVE" /\ r.st = "INACTIVE"
         /\ state[k] = "POSTACTIVE" /\ timeout[k] = 0 /\ v = "CLEARED" => r.ev = "END"
         /\ state[k] = "INACTIVE" /\ v = "CLEARED" => r.st = "INACTIVE"
         /\ r.st = "POSTACTIVE" /\ k \in HandReset => state[k] = "POSTACTIVE"
  <1> USE DEF Typed, Go, Stay, Live, States, Verdicts
  <1>1. CASE state[k] = "INACTIVE"
    BY <1>1, Zenon DEF FsmStep, Inactive
  <1>2. CASE state[k] = "PREACTIVE"
    BY <1>2 DEF FsmStep, Preactive
  <1>3. CASE state[k] = "ACTIVE"
    BY <1>3, Zenon DEF FsmStep, Active
  <1>4. CASE state[k] = "POSTACTIVE"
    BY <1>4 DEF FsmStep, Postactive
  <1> QED BY <1>1, <1>2, <1>3, <1>4, Zenon

\* The invariant holds after alarm_acl_init.
LEMMA CommandInit == Init => CommandInv
  <1> SUFFICES ASSUME Init PROVE CommandInv
    OBVIOUS
  <1> USE DEF Init
  <1>1. Typed
    <2>1. at \in 0..N OBVIOUS
    <2>2. state \in [Ids -> States] /\ timeout \in [Ids -> Nat] BY Zenon DEF States
    <2> QED BY <2>1, <2>2, Zenon DEF Typed, Steps
  <1>2. Owing BY Zenon DEF Owing, Live
  <1>3. Recorded BY Zenon DEF Recorded
  <1>4. Ends /\ Taken /\ Loaded /\ Kept /\ CommandPending
    BY Zenon DEF Ends, Taken, Loaded, Kept, CommandPending
  <1> QED BY <1>1, <1>2, <1>3, <1>4, Zenon DEF CommandInv

\* clear_alarm, whole or one word of it.
LEMMA CommandSet ==
  ASSUME CommandInv, NEW ks \in SUBSET Ids, SetRemove(ks),
         UNCHANGED <<coreVars, fsmVars, outVars>>
  PROVE  CommandInv'
  <1> USE DEF CommandInv, SetRemove, coreVars, fsmVars, outVars
  <1>1. Typed' BY Zenon DEF Typed, Live
  <1>2. Owing' BY Zenon DEF Owing, Typed, Live
  <1>3. Ends' BY Zenon DEF Ends
  <1>4. Taken' BY OwnWord, Zenon DEF Taken, InWindow
  <1>5. Loaded' BY Zenon DEF Loaded
  <1>6. Kept'
    <2> SUFFICES ASSUME step = "store", NEW k \in owed', k \in WordOf(at)
                 PROVE  k \in word \cup {at}
      BY Zenon DEF Kept, WordOf, InWord
    <2>1. at \in Ids BY Zenon DEF Loaded
    <2>2. CASE k \in owed BY <2>2, Zenon DEF Kept
    <2>3. CASE k \notin owed BY <2>1, <2>3, Zenon DEF InWindow
    <2> QED BY <2>2, <2>3, Zenon
  <1>7. Recorded' BY Zenon DEF Recorded
  <1>8. CommandPending' BY Zenon DEF CommandPending
  <1> QED BY <1>1, <1>2, <1>3, <1>4, <1>5, <1>6, <1>7, <1>8, Zenon

\* A period begins, with a pass or without.
LEMMA CommandPeriod == CommandInv /\ Period => CommandInv'
  <1> SUFFICES ASSUME CommandInv, Period PROVE CommandInv'
    OBVIOUS
  <1> USE DEF CommandInv, Period, fsmVars, outVars, cmdVars
  <1>1. /\ at = N /\ at' \in 0..N
        /\ step' \in {"lock", "test", "judge"}
        /\ at' \in Ids \ NoClear => step' # "judge"
        /\ ~hit
    BY FirstSteps DEF Ends, Ids
  <1>2. Typed' BY <1>1, Zenon DEF Typed, Steps
  <1>3. Owing' BY Zenon DEF Owing, Live
  <1>4. (Ends /\ Taken /\ Loaded /\ Kept)' BY <1>1, Zenon DEF Ends, Taken, Loaded, Kept
  <1>5. Recorded' BY <1>1, <1>2, Zenon DEF Recorded, Typed
  <1>6. CommandPending' BY <1>1, Zenon DEF CommandPending
  <1> QED BY <1>2, <1>3, <1>4, <1>5, <1>6, Zenon

\* alarm_lock.
LEMMA CommandLock == CommandInv /\ AlarmLock => CommandInv'
  <1> SUFFICES ASSUME CommandInv, AlarmLock PROVE CommandInv'
    OBVIOUS
  <1> USE DEF CommandInv, AlarmLock, outVars
  <1>1. /\ UNCHANGED <<at, hit, word, state, timeout, raised, remove, owed>>
        /\ step = "lock" /\ step' = "test" /\ ~hit
        /\ told' = IF Live(at) THEN told ELSE told \ {at}
    BY Zenon DEF Ends, Forget
  <1>2. Typed' BY <1>1, Zenon DEF Typed, Steps
  <1>3. Owing' BY <1>1, Zenon DEF Owing, Live
  <1>4. (Ends /\ Taken /\ Loaded /\ Kept)' BY <1>1 DEF Ends, Taken, Loaded, Kept
  <1>5. Recorded' BY <1>1, Zenon DEF Recorded, Owing, Live
  <1>6. CommandPending' BY <1>1, Zenon DEF CommandPending
  <1> QED BY <1>2, <1>3, <1>4, <1>5, <1>6, Zenon

\* acl_clear tests the bit: a raised alarm takes its command.
LEMMA CommandTest == CommandInv /\ AclClearTest => CommandInv'
  <1> SUFFICES ASSUME CommandInv, AclClearTest PROVE CommandInv'
    OBVIOUS
  <1> USE DEF CommandInv, AclClearTest, outVars
  <1>1. /\ UNCHANGED <<at, word, raised, remove, owed>>
        /\ at \in Ids /\ step = "test" /\ step' = "load" /\ ~hit
        /\ hit' = (at \in remove /\ Live(at))
        /\ state' = IF hit' THEN [state EXCEPT ![at] = "POSTACTIVE"] ELSE state
        /\ timeout' = IF hit' THEN [timeout EXCEPT ![at] = 0] ELSE timeout
        /\ told \ {at} \subseteq told' /\ told' \subseteq told
        /\ Live(at) => told' = told
    BY Zenon DEF Ends, Forget
  <1>2. \A k \in Ids : Live(k)' <=> Live(k)
    BY <1>1, Zenon DEF Typed, Live
  <1>3. Typed' BY <1>1 DEF Typed, Steps, States
  <1>4. Owing'
    <2>1. \A k \in NoClear : state'[k] = state[k]
      BY <1>1, Zenon DEF Owing, Live, Typed
    <2> QED BY <1>1, <1>2, <2>1, Zenon DEF Owing
  <1>5. Ends' BY <1>1, Zenon DEF Ends, Typed
  <1>6. Taken' BY <1>1, Zenon DEF Taken, CommandPending, Owing
  <1>7. (Loaded /\ Kept)' BY <1>1, Zenon DEF Loaded, Kept
  <1>8. Recorded'
    <2>1. \A k \in remove \cap raised \cap HandReset : k \in told'
      BY <1>1, Zenon DEF Recorded, Owing
    <2>2. ASSUME NEW k \in HandReset, state'[k] = "POSTACTIVE" PROVE k \in told'
      <3>1. k \in Ids BY Zenon
      <3>2. CASE hit' /\ k = at
        BY <1>1, <2>1, <3>2, Zenon DEF Owing
      <3>3. CASE ~(hit' /\ k = at)
        <4>1. state[k] = "POSTACTIVE" BY <1>1, <2>2, <3>1, <3>3, Zenon DEF Typed
        <4>2. k \in told /\ Live(k) BY <4>1, Zenon DEF Recorded, Live
        <4> QED BY <1>1, <4>2, Zenon
      <3> QED BY <3>2, <3>3, Zenon
    <2> QED BY <1>1, <2>1, <2>2, Zenon DEF Recorded
  <1>9. CommandPending' BY <1>1, Zenon DEF CommandPending
  <1> QED BY <1>3, <1>4, <1>5, <1>6, <1>7, <1>8, <1>9, Zenon

\* clear_alarm_remove_bitmap loads the word.
LEMMA CommandLoad == CommandInv /\ AclClearLoad => CommandInv'
  <1> SUFFICES ASSUME CommandInv, AclClearLoad PROVE CommandInv'
    OBVIOUS
  <1> USE DEF CommandInv, AclClearLoad, fsmVars, outVars, cmdVars
  <1>1. Typed' BY Zenon DEF Typed, Steps
  <1>2. Owing' BY Zenon DEF Owing, Live
  <1>3. Ends' BY Zenon DEF Ends
  <1>4. Taken' BY Zenon DEF Taken
  <1>5. Loaded' BY Zenon DEF Loaded, WordOf, InWord
  <1>6. Kept'
    <2>1. ASSUME NEW k \in owed, k # at PROVE k \in remove
      BY <2>1, Zenon DEF CommandPending
    <2> QED BY <2>1, Zenon DEF Kept, WordOf, InWord
  <1>7. Recorded' BY Zenon DEF Recorded
  <1>8. CommandPending' BY Zenon DEF CommandPending
  <1> QED BY <1>1, <1>2, <1>3, <1>4, <1>5, <1>6, <1>7, <1>8, Zenon

\* It stores the word: nothing but the visited alarm's bit changes, and that
\* alarm has taken its command.
LEMMA CommandStore == CommandInv /\ AclClearStore => CommandInv'
  <1> SUFFICES ASSUME CommandInv, AclClearStore PROVE CommandInv'
    OBVIOUS
  <1> USE DEF CommandInv, AclClearStore, fsmVars, outVars
  <1>1. /\ at \in Ids /\ step = "store" /\ step' = "judge" /\ word' = {}
        /\ UNCHANGED <<at, hit, state, timeout, raised, owed, told>>
        /\ remove' = (remove \ WordOf(at)) \cup (word \ {at})
        /\ word \subseteq remove
    BY Zenon DEF StoredWord, Loaded
  <1>2. at \notin remove' /\ remove' \subseteq remove
    BY <1>1, OwnWord, Zenon
  <1>3. Typed' BY <1>1, <1>2, Zenon DEF Typed, Steps
  <1>4. Owing' BY <1>1, Zenon DEF Owing, Live
  <1>5. Ends' BY <1>1 DEF Ends
  <1>6. (Taken /\ Loaded /\ Kept)' BY <1>1, Zenon DEF Taken, Loaded, Kept
  <1>7. Recorded' BY <1>1, <1>2, Zenon DEF Recorded
  <1>8. CommandPending'
    <2> SUFFICES ASSUME NEW k \in owed PROVE k \in remove' \/ (at = k /\ hit)
      BY <1>1 DEF CommandPending
    <2>1. CASE k = at BY <1>1, <2>1, Zenon DEF Taken
    <2>2. CASE k # at BY <1>1, <2>2, Zenon DEF CommandPending, Kept
    <2> QED BY <2>1, <2>2, Zenon
  <1> QED BY <1>3, <1>4, <1>5, <1>6, <1>7, <1>8, Zenon

\* The verdict and what it does to the visited alarm.
LEMMA Judgement ==
  ASSUME CommandInv, Judge
  PROVE  \E v \in Verdicts : \E r \in {FsmStep(at, v)} :
           /\ hit \/ at \in NoClear => v = "CLEARED"
           /\ state' = [state EXCEPT ![at] = r.st]
           /\ timeout' = [timeout EXCEPT ![at] = r.t]
           /\ Record(at, r.ev)
           /\ owed' = IF r.ev = "END" THEN owed \ {at} ELSE owed
  <1>1. \A v \in Answers(at) : v \in Verdicts /\ (hit \/ at \in NoClear => v = "CLEARED")
    BY Zenon DEF Answers, Verdicts
  <1>2. PICK v \in Answers(at) : \E r \in {FsmStep(at, v)} :
           /\ state' = [state EXCEPT ![at] = r.st]
           /\ timeout' = [timeout EXCEPT ![at] = r.t]
           /\ Record(at, r.ev)
           /\ owed' = IF r.ev = "END" THEN owed \ {at} ELSE owed
    BY Zenon DEF Judge
  <1> QED BY <1>1, <1>2, Zenon

LEMMA CommandJudge == CommandInv /\ Judge => CommandInv'
  <1> SUFFICES ASSUME CommandInv, Judge PROVE CommandInv'
    OBVIOUS
  <1> USE DEF CommandInv
  <1>1. PICK v \in Verdicts : \E r \in {FsmStep(at, v)} :
           /\ hit \/ at \in NoClear => v = "CLEARED"
           /\ state' = [state EXCEPT ![at] = r.st]
           /\ timeout' = [timeout EXCEPT ![at] = r.t]
           /\ Record(at, r.ev)
           /\ owed' = IF r.ev = "END" THEN owed \ {at} ELSE owed
    BY Judgement, Zenon
  <1> DEFINE r == FsmStep(at, v)
  <1>2. /\ at \in Ids /\ step = "judge" /\ at' = at + 1 /\ ~hit'
        /\ UNCHANGED <<word, remove, told>>
    BY Zenon DEF Judge
  <1>3. /\ at' \in 0..N
        /\ step' \in {"lock", "test", "judge"}
        /\ at' \in Ids \ NoClear => step' # "judge"
    BY <1>2, FirstSteps DEF Judge, Ids
  <1>4. /\ r.st \in States /\ r.t \in Nat /\ r.ev \in {"NONE", "TRIGER", "END"}
        /\ r.ev = "NONE" => (r.st \in {"ACTIVE", "POSTACTIVE"} <=> Live(at))
        /\ r.ev = "TRIGER" => ~Live(at) /\ r.st = "ACTIVE" /\ v = "TRIGGERED"
        /\ r.ev = "END" => state[at] = "POSTACTIVE" /\ r.st = "INACTIVE"
        /\ state[at] = "POSTACTIVE" /\ timeout[at] = 0 /\ v = "CLEARED" => r.ev = "END"
        /\ state[at] = "INACTIVE" /\ v = "CLEARED" => r.st = "INACTIVE"
        /\ r.st = "POSTACTIVE" /\ at \in HandReset => state[at] = "POSTACTIVE"
    BY <1>2, FsmSteps, Zenon
  <1>5. /\ hit \/ at \in NoClear => v = "CLEARED"
        /\ state' = [state EXCEPT ![at] = r.st]
        /\ timeout' = [timeout EXCEPT ![at] = r.t]
        /\ Record(at, r.ev)
        /\ owed' = IF r.ev = "END" THEN owed \ {at} ELSE owed
    BY <1>1, Zenon
  <1> HIDE DEF r
  <1>6. raised' = IF r.ev = "TRIGER" THEN raised \cup {at}
                  ELSE IF r.ev = "END" THEN raised \ {at} ELSE raised
    BY <1>4, <1>5, Zenon DEF Record
  <1>7. Typed'
    <2>1. state' \in [Ids -> States] /\ timeout' \in [Ids -> Nat]
      BY <1>4, <1>5, Zenon DEF Typed
    <2>2. raised' \subseteq Ids /\ owed' \subseteq Ids
      BY <1>2, <1>5, <1>6, Zenon DEF Typed
    <2>3. step' \in Steps /\ hit' \in BOOLEAN
      BY <1>2, <1>3, Zenon DEF Judge, Steps
    <2> QED BY <1>2, <1>3, <2>1, <2>2, <2>3, Zenon DEF Typed
  <1>8. Owing'
    <2>1. \A k \in Ids : k \in raised' <=> Live(k)'
      BY <1>2, <1>4, <1>5, <1>6, Zenon DEF Owing, Typed, Live
    <2>2. owed' \subseteq raised'
      BY <1>4, <1>5, <1>6, Zenon DEF Owing
    <2>3. \A k \in NoClear : state'[k] = "INACTIVE"
      BY <1>2, <1>4, <1>5, Zenon DEF Owing, Typed
    <2> QED BY <1>7, <2>1, <2>2, <2>3, Zenon DEF Owing, Typed
  <1>9. (Ends /\ Taken /\ Loaded /\ Kept)'
    BY <1>2, <1>3, Zenon DEF Ends, Taken, Loaded, Kept
  <1>10. Recorded'
    <2>1. \A k \in remove \cap raised' \cap HandReset : k \in told
      BY <1>2, <1>4, <1>5, <1>6, Zenon DEF Recorded
    <2>2. \A k \in HandReset : state'[k] = "POSTACTIVE" => k \in told
      BY <1>2, <1>4, <1>5, Zenon DEF Recorded, Typed
    <2> QED BY <1>2, <1>3, <1>7, <2>1, <2>2, Zenon DEF Recorded, Typed
  <1>11. CommandPending'
    <2> SUFFICES ASSUME NEW k \in owed' PROVE k \in remove
      BY <1>2, Zenon DEF CommandPending
    <2>1. k \in owed /\ (k = at => r.ev # "END")
      BY <1>5, Zenon
    <2>2. hit => r.ev = "END"
      BY <1>4, <1>5, Zenon DEF Ends
    <2> QED BY <2>1, <2>2, Zenon DEF CommandPending
  <1> QED BY <1>7, <1>8, <1>9, <1>10, <1>11, Zenon

\* Every step keeps the invariant.
LEMMA CommandStep == CommandInv /\ [Next]_vars => CommandInv'
  <1> SUFFICES ASSUME CommandInv, [Next]_vars PROVE CommandInv'
    OBVIOUS
  <1>1. CASE ClearAlarm
    BY <1>1, CommandSet, Zenon DEF ClearAlarm
  <1>2. CASE CpadClearFirst \/ CpadClearSecond
    <2>1. InWord(0) \in SUBSET Ids /\ InWord(1) \in SUBSET Ids
      BY Zenon DEF InWord
    <2> QED BY <1>2, <2>1, CommandSet, Zenon DEF CpadClearFirst, CpadClearSecond
  <1>3. CASE UNCHANGED vars
    BY <1>3, Zenon DEF CommandInv, Typed, Owing, Ends, Taken, Loaded, Kept, Recorded,
                CommandPending, Live, WordOf, InWord,
                vars, coreVars, fsmVars, outVars, cmdVars
  <1> QED BY <1>1, <1>2, <1>3, CommandPeriod, CommandLock, CommandTest,
             CommandLoad, CommandStore, CommandJudge, Zenon DEF Next, Core

\* CommandPending for any alarms: outside a read-modify-write of its word, a
\* clear command is not lost before it has ended the alarm (acl_clear,
\* clear_alarm_remove_bitmap).
THEOREM CommandsKept == Spec => []CommandPending
  <1>1. CommandInv => CommandPending
    BY Zenon DEF CommandInv
  <1> QED BY CommandInit, CommandStep, <1>1, PTL DEF Spec

\* HandResetLatched for any alarms: an alarm with reset_mask set ends only
\* after a command (alarm_acl_exe, acl_clear).
THEOREM OnlyCommandsReset == Spec => HandResetLatched
  <1>1. CommandInv /\ [Next]_vars => [HandResetStep]_vars
    <2> SUFFICES ASSUME CommandInv, Next, NEW k \in HandReset,
                        k \in raised, k \notin raised'
                 PROVE  k \in told
      BY Zenon DEF HandResetStep
    <2>1. Judge
      BY Zenon DEF Next, Core, ClearAlarm, CpadClearFirst, CpadClearSecond, Period,
             AlarmLock, AclClearTest, AclClearLoad, AclClearStore, outVars
    <2>2. at \in Ids /\ Typed
      BY <2>1, Zenon DEF Judge, CommandInv
    <2>3. PICK v \in Verdicts : \E r \in {FsmStep(at, v)} : Record(at, r.ev)
      BY <2>1, Judgement, Zenon
    <2> DEFINE r == FsmStep(at, v)
    <2>4. /\ r.ev \in {"NONE", "TRIGER", "END"}
          /\ r.ev = "END" => state[at] = "POSTACTIVE"
      BY <2>2, FsmSteps, Zenon
    <2>5. Record(at, r.ev)
      BY <2>3, Zenon
    <2> HIDE DEF r
    <2>6. r.ev = "END" /\ k = at
      BY <2>4, <2>5, Zenon DEF Record
    <2> QED BY <2>4, <2>6, Zenon DEF CommandInv, Recorded
  <1> QED BY CommandInit, CommandStep, <1>1, PTL DEF Spec, HandResetLatched

----------------------------------------------------------------------------
\* A sequence without its i-th element.
LEMMA Without ==
  ASSUME NEW S, NEW s \in Seq(S), NEW i \in 1..Len(s)
  PROVE  /\ RemoveAt(s, i) \in Seq(S)
         /\ Len(RemoveAt(s, i)) = Len(s) - 1
         /\ \A q \in 1..(Len(s) - 1) :
              RemoveAt(s, i)[q] = IF q < i THEN s[q] ELSE s[q + 1]
  <1> DEFINE a == SubSeq(s, 1, i - 1)
             b == SubSeq(s, i + 1, Len(s))
  <1>1. /\ a \in Seq(S) /\ Len(a) = i - 1
        /\ \A q \in 1..(i - 1) : a[q] = s[q]
    OBVIOUS
  <1>2. /\ b \in Seq(S) /\ Len(b) = Len(s) - i
        /\ \A q \in 1..(Len(s) - i) : b[q] = s[i + q]
    OBVIOUS
  <1> HIDE DEF a, b
  <1>3. /\ a \o b \in Seq(S) /\ Len(a \o b) = Len(s) - 1
        /\ \A q \in 1..(Len(s) - 1) :
             (a \o b)[q] = IF q <= i - 1 THEN a[q] ELSE b[q - (i - 1)]
    <2>1. /\ a \o b \in Seq(S) /\ Len(a \o b) = Len(a) + Len(b)
          /\ \A q \in 1..(Len(a) + Len(b)) :
               (a \o b)[q] = IF q <= Len(a) THEN a[q] ELSE b[q - Len(a)]
      BY <1>1, <1>2, ConcatProperties, ZenonT(30)
    <2>2. Len(a) + Len(b) = Len(s) - 1 BY <1>1, <1>2
    <2> QED BY <1>1, <2>1, <2>2, Zenon
  <1>4. \A q \in 1..(Len(s) - 1) :
          (a \o b)[q] = IF q < i THEN s[q] ELSE s[q + 1]
    <2> TAKE q \in 1..(Len(s) - 1)
    <2>1. CASE q < i
      <3>1. q <= i - 1 /\ q \in 1..(i - 1) BY <2>1
      <3> QED BY <1>1, <1>3, <2>1, <3>1, Zenon
    <2>2. CASE ~(q < i)
      <3>0. ~(q <= i - 1) BY <2>2
      <3>1. (a \o b)[q] = b[q - (i - 1)] BY <1>3, <3>0, Zenon
      <3>2. q - (i - 1) \in 1..(Len(s) - i) /\ i + (q - (i - 1)) = q + 1 BY <2>2
      <3> QED BY <1>2, <2>2, <3>1, <3>2, Zenon
    <2> QED BY <2>1, <2>2, Zenon
  <1>5. RemoveAt(s, i) = a \o b
    BY Zenon DEF RemoveAt, a, b
  <1> QED BY <1>3, <1>4, <1>5, Zenon

\* The records of AlarmAcl, with the type of the chain.
RecordInv == chain \in Seq(Ids) /\ RecordsAgree

\* node_append puts the alarm in front.
LEMMA Appended ==
  ASSUME RecordInv, NEW k \in Ids, k \notin raised
  PROVE  /\ NodeAppend(k) \in Seq(Ids) /\ IsInjective(NodeAppend(k))
         /\ ToSet(NodeAppend(k)) = raised \cup {k}
  <1> DEFINE c == NodeAppend(k)
  <1>1. /\ c \in Seq(Ids) /\ Len(c) = Len(chain) + 1
        /\ c[1] = k /\ \A q \in 1..Len(chain) : c[q + 1] = chain[q]
    BY DEF RecordInv, NodeAppend
  <1> HIDE DEF c
  <1>0. /\ Len(chain) \in Nat /\ DOMAIN chain = 1..Len(chain)
        /\ DOMAIN c = 1..(Len(chain) + 1)
    BY <1>1 DEF RecordInv
  <1>2. \A p \in DOMAIN c : p = 1 \/ (p - 1 \in DOMAIN chain /\ c[p] = chain[p - 1])
    <2> TAKE p \in DOMAIN c
    <2>1. p = 1 \/ (p - 1 \in 1..Len(chain) /\ (p - 1) + 1 = p) BY <1>0
    <2> QED BY <1>0, <1>1, <2>1, Zenon
  <1>3. 1 \in DOMAIN c /\ \A q \in DOMAIN chain : q + 1 \in DOMAIN c /\ c[q + 1] = chain[q]
    BY <1>0, <1>1
  <1>4. raised = {chain[q] : q \in DOMAIN chain} /\ IsInjective(chain)
    BY Zenon DEF RecordInv, RecordsAgree, ToSet
  <1>5. {c[p] : p \in DOMAIN c} = raised \cup {k}
    <2>1. \A p \in DOMAIN c : c[p] \in raised \cup {k} BY <1>1, <1>2, <1>4
    <2>2. \A x \in raised : \E p \in DOMAIN c : c[p] = x BY <1>3, <1>4, Zenon
    <2>3. \E p \in DOMAIN c : c[p] = k BY <1>1, <1>3, Zenon
    <2> QED BY <2>1, <2>2, <2>3, Zenon
  <1>6. \A p, q \in DOMAIN c : c[p] = c[q] => p = q
    <2> SUFFICES ASSUME NEW p \in DOMAIN c, NEW q \in DOMAIN c, c[p] = c[q] PROVE p = q
      OBVIOUS
    <2>1. p \in Int /\ q \in Int BY <1>1
    <2>2. p # 1 => c[p] \in raised /\ c[p] # k BY <1>2, <1>4, Zenon
    <2>3. q # 1 => c[q] \in raised /\ c[q] # k BY <1>2, <1>4, Zenon
    <2>4. CASE p = 1 \/ q = 1 BY <1>1, <2>2, <2>3, <2>4, Zenon
    <2>5. CASE p # 1 /\ q # 1
      <3>1. chain[p - 1] = chain[q - 1] /\ p - 1 \in DOMAIN chain /\ q - 1 \in DOMAIN chain
        BY <1>2, <2>5, Zenon
      <3>2. p - 1 = q - 1 BY <1>4, <3>1, Zenon DEF IsInjective
      <3> QED BY <2>1, <3>2
    <2> QED BY <2>4, <2>5, Zenon
  <1> QED BY <1>1, <1>5, <1>6, Zenon DEF c, ToSet, IsInjective

\* alarm_status_cnt counts the nodes of the chain.
LEMMA Counted ==
  ASSUME NEW ch PROVE Count(ch).total = Len(ch)
  <1> DEFINE crit == Len(SelectSeq(ch, LAMBDA k : k \in Critical))
  <1>1. Count(ch) = [total |-> Len(ch), critical |-> crit, mioor |-> Len(ch) - crit]
    BY Zenon DEF Count
  <1> HIDE DEF crit
  <1> QED BY <1>1

\* node_delete takes out the only node of the alarm.
LEMMA Deleted ==
  ASSUME RecordInv, NEW k \in raised
  PROVE  /\ NodeDelete(k) \in Seq(Ids) /\ IsInjective(NodeDelete(k))
         /\ ToSet(NodeDelete(k)) = raised \ {k}
         /\ NodeDelete(k) # chain
  <1>1. /\ raised = {chain[q] : q \in 1..Len(chain)} /\ counts.total = Len(chain)
        /\ \A p, q \in 1..Len(chain) : chain[p] = chain[q] => p = q
        /\ chain \in Seq(Ids) /\ Len(chain) \in Nat /\ DOMAIN chain = 1..Len(chain)
    <2>1. /\ chain \in Seq(Ids) /\ Len(chain) \in Nat /\ DOMAIN chain = 1..Len(chain)
      BY DEF RecordInv
    <2>2. counts.total = Len(chain)
      BY Zenon, Counted DEF RecordInv, RecordsAgree
    <2>3. raised = {chain[q] : q \in DOMAIN chain}
      BY Zenon DEF RecordInv, RecordsAgree, ToSet
    <2>4. \A p, q \in DOMAIN chain : chain[p] = chain[q] => p = q
      BY Zenon DEF RecordInv, RecordsAgree, IsInjective
    <2> QED BY <2>1, <2>2, <2>3, <2>4, Zenon
  <1>2. PICK i \in 1..Len(chain) : chain[i] = k
    BY <1>1, Zenon
  <1>3. {p \in 1..Len(chain) : p <= counts.total /\ chain[p] = k} = {i}
    BY <1>1, <1>2
  <1>4. Min({i}) = i
    BY DEF Min
  <1>5. NodeDelete(k) = RemoveAt(chain, i)
    BY <1>3, <1>4, Zenon DEF NodeDelete
  <1> DEFINE c == RemoveAt(chain, i)
             n == Len(chain) - 1
  <1>6. /\ c \in Seq(Ids) /\ Len(c) = n /\ DOMAIN c = 1..n /\ n \in Nat
        /\ \A q \in 1..n : c[q] = IF q < i THEN chain[q] ELSE chain[q + 1]
    <2>1. /\ c \in Seq(Ids) /\ Len(c) = Len(chain) - 1
          /\ \A q \in 1..(Len(chain) - 1) : c[q] = IF q < i THEN chain[q] ELSE chain[q + 1]
      BY ONLY <1>1, Without, i \in 1..Len(chain), Zenon
    <2>2. n \in Nat BY <1>1
    <2> HIDE DEF c
    <2> QED BY <2>1, <2>2
  <1> HIDE DEF c
  <1>7. {c[p] : p \in 1..n} = raised \ {k}
    <2>1. ASSUME NEW p \in 1..n PROVE c[p] \in raised \ {k}
      <3>1. PICK q \in 1..Len(chain) : q # i /\ c[p] = chain[q]
        <4>1. CASE p < i
          <5>1. p \in 1..Len(chain) /\ p # i BY <1>1, <4>1
          <5> QED BY <1>6, <4>1, <5>1, Zenon
        <4>2. CASE ~(p < i)
          <5>1. p + 1 \in 1..Len(chain) /\ p + 1 # i BY <1>1, <4>2
          <5> QED BY <1>6, <4>2, <5>1, Zenon
        <4> QED BY <4>1, <4>2, Zenon
      <3> QED BY <1>1, <1>2, <3>1, Zenon
    <2>2. ASSUME NEW x \in raised \ {k} PROVE \E p \in 1..n : c[p] = x
      <3>1. PICK q \in 1..Len(chain) : chain[q] = x BY <1>1, Zenon
      <3>2. CASE q < i
        <4>1. q \in 1..n BY <1>1, <3>2
        <4> QED BY <1>6, <3>1, <3>2, <4>1, Zenon
      <3>3. CASE q > i
        <4>1. q - 1 \in 1..n /\ ~(q - 1 < i) /\ (q - 1) + 1 = q BY <1>1, <3>3
        <4> QED BY <1>6, <3>1, <4>1, Zenon
      <3> QED BY <1>1, <1>2, <3>1, <3>2, <3>3
    <2> QED BY <2>1, <2>2, Zenon
  <1>8. ASSUME NEW p \in 1..n, NEW q \in 1..n, c[p] = c[q] PROVE p = q
    <2>1. ASSUME NEW x \in 1..n
          PROVE  \E y \in 1..Len(chain) : c[x] = chain[y] /\ y = IF x < i THEN x ELSE x + 1
      <3>1. x \in 1..Len(chain) /\ x + 1 \in 1..Len(chain) BY <1>1
      <3>2. c[x] = IF x < i THEN chain[x] ELSE chain[x + 1] BY <1>6, Zenon
      <3> QED BY <3>1, <3>2, Zenon
    <2>2. PICK y \in 1..Len(chain) : c[p] = chain[y] /\ y = IF p < i THEN p ELSE p + 1 BY <2>1, Zenon
    <2>3. PICK z \in 1..Len(chain) : c[q] = chain[z] /\ z = IF q < i THEN q ELSE q + 1 BY <2>1, Zenon
    <2>4. y = z BY <1>1, <1>8, <2>2, <2>3, Zenon
    <2> QED BY <1>1, <2>2, <2>3, <2>4
  <1>9. c # chain
    BY <1>1, <1>6
  <1>10. ToSet(c) = raised \ {k} BY <1>6, <1>7, Zenon DEF ToSet
  <1>11. IsInjective(c) BY <1>6, <1>8, Zenon DEF IsInjective
  <1> QED BY <1>5, <1>6, <1>9, <1>10, <1>11, Zenon DEF c

\* The records hold after alarm_acl_init.
LEMMA RecordInit == Init => RecordInv
  <1> SUFFICES ASSUME Init PROVE RecordInv
    OBVIOUS
  <1>1. chain = <<>> /\ chain \in Seq(Ids) /\ DOMAIN chain = {}
    BY DEF Init
  <1>2. ToSet(chain) = {} /\ IsInjective(chain)
    BY <1>1, Zenon DEF ToSet, IsInjective
  <1>3. raised = {} /\ published = {} /\ counts = Count(chain)
    BY Zenon DEF Init
  <1>4. raised = {k \in Ids : Live(k)}
    BY <1>3, Zenon DEF Init, Live
  <1> QED BY <1>1, <1>2, <1>3, <1>4, Zenon DEF RecordInv, RecordsAgree

\* A verdict writes the bitmap, the chain and the counters together, and the
\* last one of the pass copies the bitmap.
LEMMA RecordJudge ==
  ASSUME CommandInv, CommandInv', RecordInv, Judge
  PROVE  RecordInv'
  <1>1. /\ at \in Ids /\ Typed /\ at' = at + 1
        /\ published' = IF at = N - 1 THEN raised' ELSE published
    BY Zenon DEF Judge, CommandInv
  <1>2. PICK v \in Verdicts : \E r \in {FsmStep(at, v)} : Record(at, r.ev)
    BY Judgement, Zenon
  <1> DEFINE r == FsmStep(at, v)
  <1>3. /\ r.ev \in {"NONE", "TRIGER", "END"}
        /\ r.ev = "TRIGER" => ~Live(at)
        /\ r.ev = "END" => state[at] = "POSTACTIVE"
    BY <1>1, FsmSteps, Zenon
  <1>4. Record(at, r.ev)
    BY <1>2, Zenon
  <1> HIDE DEF r
  <1>5. raised = {k \in Ids : Live(k)} /\ counts = Count(chain)
    BY Zenon DEF RecordInv, RecordsAgree
  <1>6. /\ chain' \in Seq(Ids) /\ ToSet(chain') = raised' /\ IsInjective(chain')
        /\ counts' = Count(chain')
    <2>1. CASE r.ev = "NONE"
      BY <1>4, <2>1, Zenon DEF Record, RecordInv, RecordsAgree
    <2>2. CASE r.ev = "TRIGER"
      <3>1. at \notin raised BY <1>3, <1>5, <2>2, Zenon
      <3>2. raised' = raised \cup {at} /\ chain' = NodeAppend(at) /\ counts' = Count(chain')
        BY <1>4, <2>2, Zenon DEF Record
      <3> QED BY <1>1, <3>1, <3>2, Appended, Zenon
    <2>3. CASE r.ev = "END"
      <3>1. at \in raised BY <1>1, <1>3, <1>5, <2>3, Zenon DEF Live
      <3>2. /\ raised' = raised \ {at} /\ chain' = NodeDelete(at)
            /\ counts' = IF chain' = chain THEN counts ELSE Count(chain')
        BY <1>4, <2>3, Zenon DEF Record
      <3> QED BY <3>1, <3>2, Deleted, Zenon
    <2> QED BY <1>3, <2>1, <2>2, <2>3, Zenon
  <1>7. (raised = {k \in Ids : Live(k)})'
    BY Zenon DEF CommandInv, Owing
  <1>8. at' = N => published' = raised'
    BY <1>1 DEF Ids
  <1> QED BY <1>6, <1>7, <1>8, Zenon DEF RecordInv, RecordsAgree

\* Every step keeps the records.
LEMMA RecordStep == CommandInv /\ RecordInv /\ [Next]_vars => RecordInv'
  <1> SUFFICES ASSUME CommandInv, RecordInv, [Next]_vars PROVE RecordInv'
    OBVIOUS
  <1>1. CommandInv'
    BY CommandStep, Zenon
  <1>2. CASE Judge
    BY <1>1, <1>2, RecordJudge, Zenon
  <1>3. CASE ~Judge
    <2>1. UNCHANGED outVars /\ (at' = at \/ at = N)
      BY <1>3, Zenon DEF Next, Core, ClearAlarm, CpadClearFirst, CpadClearSecond, Period,
                  AlarmLock, AclClearTest, AclClearLoad, AclClearStore, vars, coreVars, outVars
    <2>2. UNCHANGED <<raised, published, chain, counts>>
      BY <2>1, Zenon DEF outVars
    <2>3. (raised = {k \in Ids : Live(k)})'
      BY <1>1, Zenon DEF CommandInv, Owing
    <2> QED BY <2>1, <2>2, <2>3, Zenon DEF RecordInv, RecordsAgree
  <1> QED BY <1>2, <1>3, Zenon

\* RecordsAgree for any alarms: the bitmap, the chain, the counters and, after
\* a pass, the published word tell of the same alarms (alarm_acl_exe,
\* node_append, node_delete, calc_alrarm_cnt).
THEOREM RecordsKept == Spec => []RecordsAgree
  <1>1. RecordInv => RecordsAgree
    BY Zenon DEF RecordInv
  <1> QED BY CommandInit, CommandStep, RecordInit, RecordStep, <1>1, PTL DEF Spec

----------------------------------------------------------------------------
(* The log.                                                                *)

Entry == [id : Ids, ev : {"TRIGER", "END"}]

\* The log holds records, no more than there is room for, and alternates.
LogInv == log \in Seq(Entry) /\ Len(log) <= LogDepth /\ LogAlternates

\* What a longer log says of its first records is what it said before.
LEMMA LoggedBefore ==
  ASSUME NEW m \in Nat, NEW l, NEW n, \A p \in 1..m : n[p] = l[p], NEW k
  PROVE  LoggedRaised(n, k, m) <=> LoggedRaised(l, k, m)
  <1>1. \A p \in 1..m : \A q \in (p + 1)..m : q \in 1..m
    OBVIOUS
  <1>2. ASSUME LoggedRaised(n, k, m) PROVE LoggedRaised(l, k, m)
    <2>1. PICK p \in 1..m : /\ n[p].id = k /\ n[p].ev = "TRIGER"
                            /\ \A q \in (p + 1)..m : n[q].id # k
      BY <1>2, Zenon DEF LoggedRaised
    <2>2. \A q \in (p + 1)..m : l[q].id # k
      BY <1>1, <2>1, Zenon
    <2> QED BY <2>1, <2>2, Zenon DEF LoggedRaised
  <1>3. ASSUME LoggedRaised(l, k, m) PROVE LoggedRaised(n, k, m)
    <2>1. PICK p \in 1..m : /\ l[p].id = k /\ l[p].ev = "TRIGER"
                            /\ \A q \in (p + 1)..m : l[q].id # k
      BY <1>3, Zenon DEF LoggedRaised
    <2>2. \A q \in (p + 1)..m : n[q].id # k
      BY <1>1, <2>1, Zenon
    <2> QED BY <2>1, <2>2, Zenon DEF LoggedRaised
  <1> QED BY <1>2, <1>3, Zenon

\* One record more tells of its own alarm and leaves the others alone.
LEMMA LoggedOneMore ==
  ASSUME NEW m \in Nat, NEW l, NEW k
  PROVE  LoggedRaised(l, k, m + 1) <=> IF l[m + 1].id = k THEN l[m + 1].ev = "TRIGER"
                                       ELSE LoggedRaised(l, k, m)
  <1>1. /\ m + 1 \in 1..(m + 1) /\ \A q : q \notin ((m + 1) + 1)..(m + 1)
        /\ \A p \in 1..(m + 1) : p = m + 1 \/ (p \in 1..m /\ m + 1 \in (p + 1)..(m + 1))
        /\ \A p \in 1..m : p \in 1..(m + 1)
        /\ \A p \in 1..m : \A q \in (p + 1)..(m + 1) : q = m + 1 \/ q \in (p + 1)..m
        /\ \A p \in 1..m : \A q \in (p + 1)..m : q \in (p + 1)..(m + 1)
    OBVIOUS
  <1>2. CASE l[m + 1].id = k
    <2>1. LoggedRaised(l, k, m + 1) => l[m + 1].ev = "TRIGER"
      BY <1>1, <1>2, Zenon DEF LoggedRaised
    <2>2. l[m + 1].ev = "TRIGER" => LoggedRaised(l, k, m + 1)
      BY <1>1, <1>2, Zenon DEF LoggedRaised
    <2> QED BY <1>2, <2>1, <2>2, Zenon
  <1>3. CASE l[m + 1].id # k
    <2>1. ASSUME LoggedRaised(l, k, m + 1) PROVE LoggedRaised(l, k, m)
      <3>1. PICK p \in 1..(m + 1) : /\ l[p].id = k /\ l[p].ev = "TRIGER"
                                    /\ \A q \in (p + 1)..(m + 1) : l[q].id # k
        BY <2>1, Zenon DEF LoggedRaised
      <3>2. p \in 1..m /\ \A q \in (p + 1)..m : l[q].id # k
        BY <1>1, <1>3, <3>1, Zenon
      <3> QED BY <3>1, <3>2, Zenon DEF LoggedRaised
    <2>2. ASSUME LoggedRaised(l, k, m) PROVE LoggedRaised(l, k, m + 1)
      <3>1. PICK p \in 1..m : /\ l[p].id = k /\ l[p].ev = "TRIGER"
                              /\ \A q \in (p + 1)..m : l[q].id # k
        BY <2>2, Zenon DEF LoggedRaised
      <3>2. \A q \in (p + 1)..(m + 1) : l[q].id # k
        BY <1>1, <1>3, <3>1, Zenon
      <3> QED BY <1>1, <3>1, <3>2, Zenon DEF LoggedRaised
    <2> QED BY <1>3, <2>1, <2>2, Zenon
  <1> QED BY <1>2, <1>3, Zenon

\* add_alarmlog_fifo: the record of an alarm that changes sides.
LEMMA LogPushed ==
  ASSUME LogInv, NEW k \in Ids, NEW ev \in {"TRIGER", "END"},
         raised \subseteq Ids,
         ev = "TRIGER" => k \notin raised /\ raised' = raised \cup {k},
         ev = "END" => k \in raised /\ raised' = raised \ {k},
         log' = LogPush(k, ev)
  PROVE  LogInv'
  <1> DEFINE n == Len(log)
  <1>0. log \in Seq(Entry) /\ n \in Nat /\ n <= LogDepth
    BY LenProperties DEF LogInv
  <1>1. CASE ~(n < LogDepth)
    <2>1. log' = log BY <1>1, Zenon DEF LogPush
    <2> QED BY <1>1, <2>1, Zenon DEF LogInv, LogAlternates
  <1>2. CASE n < LogDepth
    <2> DEFINE e == [id |-> k, ev |-> ev]
    <2>1. e \in Entry /\ e.id = k /\ e.ev = ev BY DEF Entry
    <2>2. log' = Append(log, e) BY <1>2, Zenon DEF LogPush
    <2> HIDE DEF e
    <2>3. /\ log' \in Seq(Entry) /\ Len(log') = n + 1 /\ log'[n + 1] = e
          /\ \A p \in 1..n : log'[p] = log[p]
      BY <1>0, <2>1, <2>2, SMTT(30)
    <2>4. n + 1 <= LogDepth /\ n + 1 \in Nat BY <1>0, <1>2, LogAssumption
    <2> HIDE DEF n
    <2>5. \A m \in 0..n : \A j : LoggedRaised(log', j, m) <=> LoggedRaised(log, j, m)
      <3> TAKE m \in 0..n
      <3>1. m \in Nat /\ 1..m \subseteq 1..n BY <1>0
      <3> QED BY <2>3, <3>1, LoggedBefore, Zenon
    <2>6. \A j \in Ids : j \in raised <=> LoggedRaised(log, j, n)
      BY <1>2, Zenon DEF LogInv, LogAlternates, n
    <2>7. ASSUME NEW p \in 1..(n + 1)
          PROVE  log'[p].ev = IF LoggedRaised(log', log'[p].id, p - 1) THEN "END" ELSE "TRIGER"
      <3>1. CASE p = n + 1
        <4>1. p - 1 = n /\ n \in 0..n BY <1>0, <3>1
        <4>2. LoggedRaised(log', k, p - 1) <=> k \in raised BY <2>5, <2>6, <4>1, Zenon
        <4>3. log'[p].id = k /\ log'[p].ev = ev BY <2>1, <2>3, <3>1, Zenon
        <4> QED BY <4>2, <4>3, Zenon
      <3>2. CASE p # n + 1
        <4>1. p \in 1..n /\ p - 1 \in 0..n BY <1>0, <3>2
        <4>2. log[p].ev = IF LoggedRaised(log, log[p].id, p - 1) THEN "END" ELSE "TRIGER"
          BY <4>1, Zenon DEF LogInv, LogAlternates, n
        <4> QED BY <2>3, <2>5, <4>1, <4>2, Zenon
      <3> QED BY <3>1, <3>2, Zenon
    <2>8. ASSUME NEW j \in Ids PROVE j \in raised' <=> LoggedRaised(log', j, n + 1)
      <3>1. LoggedRaised(log', j, n + 1) <=> IF k = j THEN ev = "TRIGER" ELSE LoggedRaised(log, j, n)
        <4>1. LoggedRaised(log', j, n + 1) <=> IF log'[n + 1].id = j THEN log'[n + 1].ev = "TRIGER"
                                          ELSE LoggedRaised(log', j, n)
          BY <1>0, LoggedOneMore, Zenon
        <4>2. n \in 0..n BY <1>0
        <4> QED BY <2>1, <2>3, <2>5, <4>1, <4>2, Zenon
      <3> QED BY <2>6, <3>1, Zenon
    <2> QED BY <2>3, <2>4, <2>7, <2>8, Zenon DEF LogInv, LogAlternates
  <1> QED BY <1>1, <1>2, Zenon

LEMMA LogInit == Init => LogInv
  <1> SUFFICES ASSUME Init PROVE LogInv
    OBVIOUS
  <1>1. log = <<>> /\ log \in Seq(Entry) /\ Len(log) = 0 /\ 0 <= LogDepth
    BY LogAssumption DEF Init
  <1>2. \A p : p \notin 1..0
    OBVIOUS
  <1>3. raised = {} BY Zenon DEF Init
  <1>4. \A k : ~LoggedRaised(log, k, 0) BY <1>2, Zenon DEF LoggedRaised
  <1> QED BY <1>1, <1>2, <1>3, <1>4, Zenon DEF LogInv, LogAlternates

\* Every step keeps the log.
LEMMA LogStep == CommandInv /\ LogInv /\ [Next]_vars => LogInv'
  <1> SUFFICES ASSUME CommandInv, LogInv, [Next]_vars PROVE LogInv'
    OBVIOUS
  <1>1. CASE Judge
    <2>1. at \in Ids /\ Typed /\ raised = {k \in Ids : Live(k)}
      BY <1>1, Zenon DEF Judge, CommandInv, Owing
    <2>2. PICK v \in Verdicts : \E r \in {FsmStep(at, v)} : Record(at, r.ev)
      BY <1>1, Judgement, Zenon
    <2> DEFINE r == FsmStep(at, v)
    <2>3. /\ r.ev \in {"NONE", "TRIGER", "END"}
          /\ r.ev = "TRIGER" => ~Live(at)
          /\ r.ev = "END" => state[at] = "POSTACTIVE"
      BY <2>1, FsmSteps, Zenon
    <2>4. Record(at, r.ev)
      BY <2>2, Zenon
    <2> HIDE DEF r
    <2>5. CASE r.ev = "NONE"
      BY <2>4, <2>5, Zenon DEF Record, LogInv, LogAlternates
    <2>6. CASE r.ev = "TRIGER"
      <3>1. at \notin raised /\ raised \subseteq Ids BY <2>1, <2>3, <2>6, Zenon
      <3>2. raised' = raised \cup {at} /\ log' = LogPush(at, r.ev)
        BY <2>4, <2>6, Zenon DEF Record
      <3> QED BY <2>1, <2>6, <3>1, <3>2, LogPushed, Zenon
    <2>7. CASE r.ev = "END"
      <3>1. at \in raised /\ raised \subseteq Ids BY <2>1, <2>3, <2>7, Zenon DEF Live
      <3>2. raised' = raised \ {at} /\ log' = LogPush(at, r.ev)
        BY <2>4, <2>7, Zenon DEF Record
      <3> QED BY <2>1, <2>7, <3>1, <3>2, LogPushed, Zenon
    <2> QED BY <2>3, <2>5, <2>6, <2>7, Zenon
  <1>2. CASE ~Judge
    <2>1. UNCHANGED outVars
      BY <1>2, Zenon DEF Next, Core, ClearAlarm, CpadClearFirst, CpadClearSecond, Period,
                  AlarmLock, AclClearTest, AclClearLoad, AclClearStore, vars, coreVars, outVars
    <2>2. UNCHANGED <<raised, log>>
      BY <2>1, Zenon DEF outVars
    <2> QED BY <2>2, Zenon DEF LogInv, LogAlternates
  <1> QED BY <1>1, <1>2, Zenon

\* LogAlternates for any alarms and depth: the records of an alarm alternate,
\* and a log with room left tells which alarms are raised (add_alarmlog_fifo,
\* alarm_acl_exe).
THEOREM LogTellsTheStory == Spec => []LogAlternates
  <1>1. LogInv => LogAlternates
    BY Zenon DEF LogInv
  <1> QED BY CommandInit, CommandStep, LogInit, LogStep, <1>1, PTL DEF Spec

----------------------------------------------------------------------------
(* The types.                                                              *)

\* The time out of an alarm never exceeds its delay.
LEMMA FsmBound ==
  ASSUME Typed, NEW k \in Ids, NEW v \in Verdicts, timeout[k] <= Delay[k]
  PROVE  FsmStep(k, v).t <= Delay[k]
  <1>0. timeout[k] \in Nat /\ Delay[k] \in Nat /\ state[k] \in States
    BY Zenon DEF Typed
  <1>1. Delay[k] <= Delay[k]
    BY <1>0
  <1>2. \A st, t, ev : Go(st, t, ev).t = t
    BY Zenon DEF Go
  <1>4. Inactive(k, v).t <= Delay[k]
    BY <1>1, <1>2, Zenon DEF Inactive, Stay
  <1>5. Preactive(k, v).t <= Delay[k]
    BY <1>0 DEF Preactive, Stay, Go, Verdicts
  <1>6. Active(k, v).t <= Delay[k]
    BY <1>0 DEF Active, Stay, Go, Verdicts
  <1>7. Postactive(k, v).t <= Delay[k]
    BY <1>0 DEF Postactive, Stay, Go, Verdicts
  <1> QED BY <1>0, <1>4, <1>5, <1>6, <1>7, Zenon DEF FsmStep, States

Lock == [flag : BOOLEAN, count : 0..3, near : BOOLEAN, last : States]

\* The types that no other argument needs.
Bounded ==
  /\ cnt \in 0..(CntMax - 1) /\ ran \in BOOLEAN /\ locked \in BOOLEAN /\ half \in 0..2
  /\ \A k \in Ids : timeout[k] <= Delay[k]
  /\ seen \in [Ids -> Verdicts] /\ lock \in Lock
  /\ published \subseteq Ids

\* The three places of cpad in a clear command.
LEMMA HalfSteps == 0 \in 0..2 /\ 1 \in 0..2 /\ 2 \in 0..2
  OBVIOUS

LEMMA BoundedInit == Init => Bounded
  <1> SUFFICES ASSUME Init PROVE Bounded
    OBVIOUS
  <1>1. cnt \in 0..(CntMax - 1) BY DEF Init
  <1>2. \A k \in Ids : timeout[k] <= Delay[k] BY DEF Init
  <1>3. seen \in [Ids -> Verdicts] BY Zenon DEF Init, Verdicts
  <1>4. lock \in Lock BY DEF Init, Lock, States
  <1> QED BY <1>1, <1>2, <1>3, <1>4, HalfSteps, Zenon DEF Init, Bounded

\* alarm_lock and acl11 keep the lock's record.
LEMMA LockTyped ==
  ASSUME NEW l \in Lock, NEW f \in BOOLEAN
  PROVE  /\ Unlocked(l) \in Lock /\ [l EXCEPT !.flag = f] \in Lock
         /\ l.flag \in BOOLEAN /\ l.near \in BOOLEAN
  <1>1. 0 \in 0..3
    OBVIOUS
  <1>2. Unlocked(l) \in Lock
    BY <1>1, Zenon DEF Lock, Unlocked
  <1>3. [l EXCEPT !.flag = f] \in Lock
    BY Zenon DEF Lock
  <1>4. l.flag \in BOOLEAN /\ l.near \in BOOLEAN
    BY Zenon DEF Lock
  <1> QED BY <1>2, <1>3, <1>4, Zenon

LEMMA LockTimeTyped ==
  ASSUME lock \in Lock, state[E11] \in States, NEW near \in BOOLEAN
  PROVE  LockTime(near) \in Lock
  <1> DEFINE c == IF lock.count < 3 THEN lock.count + 1 ELSE 3
             b == near /\ lock.count >= 2
  <1>1. lock.count \in 0..3 BY Zenon DEF Lock
  <1>2. c \in 0..3 BY <1>1
  <1>3. b \in BOOLEAN BY Zenon
  <1>4. LockTime(near) = IF lock.last = "PREACTIVE" /\ state[E11] = "ACTIVE"
                         THEN [lock EXCEPT !.last = "ACTIVE", !.count = c, !.near = b]
                         ELSE [lock EXCEPT !.last = state[E11]]
    BY Zenon DEF LockTime
  <1> HIDE DEF c, b
  <1>5. [lock EXCEPT !.last = "ACTIVE", !.count = c, !.near = b] \in Lock
    <2>1. "ACTIVE" \in States BY Zenon DEF States
    <2> QED BY <1>2, <1>3, <2>1, Zenon DEF Lock
  <1>6. [lock EXCEPT !.last = state[E11]] \in Lock
    BY Zenon DEF Lock
  <1> QED BY <1>4, <1>5, <1>6, Zenon

LEMMA BoundedJudge == CommandInv /\ CommandInv' /\ Bounded /\ Judge => Bounded'
  <1> SUFFICES ASSUME CommandInv, CommandInv', Bounded, Judge PROVE Bounded'
    OBVIOUS
  <1>1. /\ at \in Ids /\ Typed /\ raised' \subseteq Ids
        /\ UNCHANGED <<cnt, ran, half>> /\ locked' = FALSE
        /\ published' = IF at = N - 1 THEN raised' ELSE published
    BY Zenon DEF Judge, CommandInv, Typed
  <1>2. PICK v \in Answers(at), near \in BOOLEAN, normal \in BOOLEAN :
          /\ seen' = [seen EXCEPT ![at] = IF hit THEN @ ELSE v]
          /\ lock' = IF at = E11 /\ ~hit /\ normal THEN LockTime(near) ELSE lock
          /\ timeout' = [timeout EXCEPT ![at] = FsmStep(at, v).t]
    BY Zenon DEF Judge
  <1>3. v \in Verdicts
    BY Zenon DEF Answers, Verdicts
  <1>4. seen' \in [Ids -> Verdicts]
    BY <1>2, <1>3, Zenon DEF Bounded
  <1>5. lock' \in Lock
    <2>1. at = E11 => state[E11] \in States BY <1>1, Zenon DEF Typed
    <2> QED BY <1>2, <2>1, LockTimeTyped, Zenon DEF Bounded
  <1>6. \A k \in Ids : timeout'[k] <= Delay[k]
    <2>1. FsmStep(at, v).t <= Delay[at]
      BY <1>1, <1>3, FsmBound, Zenon DEF Bounded
    <2> QED BY <1>1, <1>2, <2>1, Zenon DEF Bounded, Typed
  <1> QED BY <1>1, <1>4, <1>5, <1>6, Zenon DEF Bounded

\* Every step keeps these types.
LEMMA BoundedStep == CommandInv /\ Bounded /\ [Next]_vars => Bounded'
  <1> SUFFICES ASSUME CommandInv, Bounded, [Next]_vars PROVE Bounded'
    OBVIOUS
  <1>1. CASE ClearAlarm \/ CpadClearFirst \/ CpadClearSecond \/ AclClearLoad \/ AclClearStore
             \/ UNCHANGED vars
    <2>1. UNCHANGED <<cnt, ran, locked, timeout, seen, lock, published>> /\ half' \in 0..2
      BY <1>1, HalfSteps, Zenon DEF ClearAlarm, CpadClearFirst, CpadClearSecond, AclClearLoad, AclClearStore,
             vars, coreVars, fsmVars, outVars, cmdVars, Bounded
    <2> QED BY <2>1, Zenon DEF Bounded
  <1>2. CASE Period
    <2>1. cnt' \in 0..(CntMax - 1)
      BY <1>2 DEF Period, NextCnt, Bounded
    <2>2. /\ UNCHANGED <<locked, timeout, seen, lock, published>>
          /\ ran' \in BOOLEAN /\ half' \in 0..2
      BY <1>2, HalfSteps, Zenon DEF Period, fsmVars, outVars, cmdVars
    <2> QED BY <2>1, <2>2, Zenon DEF Bounded
  <1>3. CASE AlarmLock
    <2>1. UNCHANGED <<cnt, ran, timeout, seen, published, half>>
      BY <1>3, Zenon DEF AlarmLock, outVars
    <2>2. PICK l \in {IF E12 \in remove THEN Unlocked(lock) ELSE lock} :
            /\ locked' = (l.flag \/ (l.count = 3 /\ l.near))
            /\ lock' = [l EXCEPT !.flag = locked']
      BY <1>3, Zenon DEF AlarmLock
    <2>3. l \in Lock
      BY <2>2, LockTyped, Zenon DEF Bounded
    <2>4. locked' \in BOOLEAN
      BY <2>2, <2>3, LockTyped, Zenon
    <2>5. lock' \in Lock
      BY <2>2, <2>3, <2>4, LockTyped, Zenon
    <2> QED BY <2>1, <2>4, <2>5, Zenon DEF Bounded
  <1>4. CASE AclClearTest
    <2>1. /\ UNCHANGED <<cnt, ran, locked, seen, lock, published, half>>
          /\ timeout' = timeout \/ timeout' = [timeout EXCEPT ![at] = 0]
      BY <1>4, Zenon DEF AclClearTest, outVars
    <2>2. \A k \in Ids : 0 <= Delay[k]
      OBVIOUS
    <2>3. \A k \in Ids : timeout'[k] <= Delay[k]
      BY <2>1, <2>2, Zenon DEF Bounded, CommandInv, Typed
    <2> QED BY <2>1, <2>3, Zenon DEF Bounded
  <1> QED BY <1>1, <1>2, <1>3, <1>4, CommandStep, BoundedJudge, Zenon DEF Next, Core

\* TypeOK for any alarms: every variable of the alarm engine keeps its type,
\* u8CNT stays below its limit, no time out exceeds the delay of its alarm,
\* and the log no more than its depth (alarm_acl_exe, alarm_lock,
\* add_alarmlog_fifo).
THEOREM AlarmTypeCorrect == Spec => []TypeOK
  <1>1. CommandInv /\ RecordInv /\ LogInv /\ Bounded => TypeOK
    BY Zenon DEF CommandInv, Typed, RecordInv, LogInv, Bounded, Lock, TypeOK
  <1> QED BY CommandInit, CommandStep, RecordInit, RecordStep, LogInit, LogStep,
             BoundedInit, BoundedStep, <1>1, PTL DEF Spec
=============================================================================
