---------------------------- MODULE ConfRegisters ----------------------------
(***************************************************************************)
(* What the configuration store promises: each register is kept as if the  *)
(* EEPROM held one word for it.  The word only ever changes to the value   *)
(* in use, in one step whatever fails around it, and a start with the user *)
(* settings brings back every word, or the default in place of one that is *)
(* out of range; some registers start from zero all the same.              *)
(***************************************************************************)
CONSTANTS Regs, Word, Valid, Dft, Cleared

VARIABLES
  ram,    \* the value in use
  disk,   \* the word kept for each register
  up,     \* whether the system is running
  plain   \* whether this start loads the user settings

absVars == <<ram, disk, up, plain>>

Legal(r) == IF disk[r] \in Valid[r] THEN disk[r] ELSE Dft[r]

AbsInit == disk \in [Regs -> Word] /\ ram \in [Regs -> Word] /\ ~up /\ plain \in BOOLEAN

\* A running system changes registers.
Use ==
  /\ up
  /\ ram' \in [Regs -> Word]
  /\ UNCHANGED <<disk, up, plain>>

\* The value in use is kept.
Keep ==
  /\ \E r \in Regs : disk' = [disk EXCEPT ![r] = ram[r]]
  /\ UNCHANGED <<ram, up, plain>>

\* The power fails, or the next start begins.
Fail == up' = FALSE /\ plain' \in BOOLEAN /\ ram' \in [Regs -> Word] /\ UNCHANGED disk

\* A start fills the registers.
Fill == ~up /\ ram' \in [Regs -> Word] /\ UNCHANGED <<disk, up, plain>>

\* A start with the user settings ends with what was kept.
Run ==
  /\ ~up /\ up' = TRUE
  /\ ram' \in [Regs -> Word]
  /\ plain => \A r \in Regs \ Cleared : ram'[r] = Legal(r)
  /\ UNCHANGED <<disk, plain>>

AbsNext == Use \/ Keep \/ Fail \/ Fill \/ Run

AbsSpec == AbsInit /\ [][AbsNext]_absVars
=============================================================================
