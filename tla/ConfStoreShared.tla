-------------------------- MODULE ConfStoreShared --------------------------
(***************************************************************************)
(* Two threads in eeprom_tripple_write at once: the callback of the pad    *)
(* (priority 9) and core (priority 17).  ConfStore takes the reads of an   *)
(* operation together; here every I2C_EE_BufRead is a step of its own, and *)
(* the steps follow the turns that iic_mutex and the priorities allow.     *)
(*                                                                         *)
(* A write sleeps with the mutex held, a read does not.  So core runs      *)
(* while the pad is in an operation only when the pad sleeps in a write,   *)
(* and a released mutex goes to the thread that waits for it: core gets at *)
(* most one access between two of the pad.  The pad may get any number     *)
(* between two of core, which threads of priority 10 to 16 hold up.        *)
(***************************************************************************)
EXTENDS ConfStore

VARIABLES
  want,  \* the arguments of the eeprom_tripple_write each thread is reading for
  got,   \* the checksums that it has read
  gap    \* what core may do before the next access of the pad

svars == <<vars, want, got, gap>>

Nothing == [reg |-> NumRegs, old |-> {}, new |-> {}]

Busy(t) == want[t] # Nothing \/ todo[t] # <<>>

\* reg_map_write of thread t: RAM, and then the call of eeprom_tripple_write.
Begin(t, r, old, v) ==
  /\ t \in S.threads /\ stage = "up" /\ ~Busy(t) /\ r \notin S.ramOnly
  /\ ram' = [ram EXCEPT ![r] = v]
  /\ want' = [want EXCEPT ![t] = [reg |-> r, old |-> old, new |-> v]]
  /\ got' = [got EXCEPT ![t] = <<>>]
  /\ UNCHANGED <<scene, mem, flag, stage, source, todo, req, drops>>

\* The area that the vote over the checksums g finds wrong.
Odd(g) == CASE g[1] = g[2] -> 3 [] g[1] = g[3] -> 2 [] g[2] = g[3] -> 1

Differ(g) == Cardinality({g[a] : a \in User}) = 3

\* A vote with one wrong copy goes on with the read of eeprom_singel_write.
Reads(g) == IF Len(g) >= 3 /\ Cardinality({g[a] : a \in User}) = 2 THEN 4 ELSE 3

\* The writes that follow the reads g: the repair of a wrong checksum, and
\* the register with its new checksum; nothing when the three differ.
Writes(w, g) ==
  LET sum(x) == {Xor(Xor(y, w.old), w.new) : y \in IF x = {} /\ Len(g) = 3 THEN Word ELSE {x}} IN
  IF Differ(g) THEN {<<>>}
  ELSE IF Len(g) = 3 THEN {TripleWrite(w.reg, w.new, s) : s \in sum(g[1])}
  ELSE LET a == Odd(g)
           x == g[IF a = 1 THEN 2 ELSE 1] IN
       {<<Put(a, Sum, x), Put(a, Sum, Xor(Xor(g[4], g[a]), x))>>
          \o TripleWrite(w.reg, w.new, s) : s \in sum(x)}

\* One I2C_EE_BufRead of a checksum, and after the last one the decision.
ReadSum(t) ==
  /\ want[t] # Nothing
  /\ \E a \in {IF Len(got[t]) = 3 THEN Odd(got[t]) ELSE Len(got[t]) + 1} :
     \E g \in {Append(got[t], mem[a][Sum])} :
       IF Len(g) < Reads(g)
       THEN got' = [got EXCEPT ![t] = g] /\ UNCHANGED <<todo, want>>
       ELSE /\ \E ws \in Writes(want[t], g) : todo' = [todo EXCEPT ![t] = ws]
            /\ want' = [want EXCEPT ![t] = Nothing]
            /\ got' = [got EXCEPT ![t] = <<>>]
  /\ UNCHANGED <<scene, mem, flag, ram, stage, source, req, drops>>

WriteStep(t) == WriteWord(t) /\ UNCHANGED <<want, got>>

----------------------------------------------------------------------------
\* The start, which no other thread disturbs.
Boot == (PowerOn \/ Step("init")) /\ UNCHANGED <<want, got, gap>>

\* The pad preempts core, which may be in an access with the mutex held.
PadBegins ==
  /\ \E r \in Regs : \E v \in Valid[r] : Begin("pad", r, ram[r], v)
  /\ gap' = "access"

PadReads == ReadSum("pad") /\ gap' = "closed"

PadWrites == WriteStep("pad") /\ gap' = "asleep"

\* While the pad is in an operation core comes here only if the pad sleeps.
CoreBegins ==
  /\ Busy("pad") => gap = "asleep"
  /\ \E r \in CoreRegs : Begin("core", r, {}, {})
  /\ UNCHANGED gap

\* One access of core; the mutex then goes to the pad.
CoreAccess ==
  /\ Busy("pad") => gap # "closed"
  /\ ReadSum("core") \/ WriteStep("core")
  /\ gap' = "closed"

SharedInit ==
  /\ Init
  /\ want = [t \in Actors |-> Nothing]
  /\ got = [t \in Actors |-> <<>>]
  /\ gap = "asleep"

SharedNext == Boot \/ PadBegins \/ PadReads \/ PadWrites \/ CoreBegins \/ CoreAccess

SharedSpec == SharedInit /\ [][SharedNext]_svars

----------------------------------------------------------------------------
\* What the comment "data is written to the EEPROM" in reg_map_write says:
\* when no write is under way, the user areas hold what is in use.  It does
\* not hold, see the run conf_two_writers.
WrittenToEeprom ==
  (stage = "up" /\ \A t \in Actors : ~Busy(t)) =>
    \A r \in Regs \ Cleared : Stored(r) = InRange(r, ram[r])
=============================================================================
