----------------------------- MODULE StatusWord -----------------------------
(***************************************************************************)
(* sys_set_remap_status: a thread sets or clears one bit of a status word  *)
(* that others write as well.  |= and &= load the word, change the bit and *)
(* store the word; nothing keeps another thread from running in between.   *)
(*                                                                         *)
(* RT-Thread runs the ready thread with the smallest priority number, and  *)
(* these threads do not block between the load and the store.  So a thread *)
(* can begin while others are between their two accesses only if it is     *)
(* above all of them, and it is done before they go on.                    *)
(***************************************************************************)
EXTENDS Naturals

CONSTANTS
  Thread,   \* the threads that write the word
  Prio,     \* their priorities, smaller runs first
  Bit,      \* the bits of the word
  Writes    \* the bits each thread writes

ASSUME PrioAssumption ==
  /\ Prio \in [Thread -> Nat]
  /\ \A t, u \in Thread : Prio[t] = Prio[u] => t = u
ASSUME WritesAssumption == Bit # {} /\ Writes \in [Thread -> SUBSET Bit]

VARIABLES
  word,   \* u16Status_remap[WORK_MODE_STS_REG_NO], as the set of its bits
  busy,   \* whether a thread is between its load and its store
  reg,    \* the word it has loaded; {} when it is not busy
  bit,    \* sbit_pos; any when it is not busy
  on,     \* bit_action
  last    \* for the properties: what was last asked of each firm bit

wordVars == <<word, busy, reg, bit, on, last>>

AnyBit == CHOOSE b \in Bit : TRUE

Above(t, u) == Prio[t] < Prio[u]

\* No thread above t writes b.
OutOfReach(t, b) == \A w \in Thread : b \in Writes[w] => ~Above(w, t)

\* Only the lowest thread writes b.
Firm(b) == \A t \in Thread : OutOfReach(t, b)

Note(b, v) == IF Firm(b) THEN [last EXCEPT ![b] = v] ELSE last

\* Thread t calls sys_set_remap_status(b, v) and loads the word.
Load(t, b, v) ==
  /\ b \in Writes[t]
  /\ \A u \in Thread : busy[u] => Above(t, u)
  /\ busy' = [busy EXCEPT ![t] = TRUE]
  /\ reg' = [reg EXCEPT ![t] = word]
  /\ bit' = [bit EXCEPT ![t] = b]
  /\ on' = [on EXCEPT ![t] = v]
  /\ UNCHANGED <<word, last>>

\* Faulty variant: clearing takes the neighbouring bits along.
ModifiedClearsAll(w, b, v) == IF v THEN w \cup {b} ELSE {}

Modified(w, b, v) == IF v THEN w \cup {b} ELSE w \ {b}

\* Faulty variant: a thread goes on although one above it is still busy.
StoreAnytime(t) ==
  /\ busy[t]
  /\ word' = Modified(reg[t], bit[t], on[t])
  /\ last' = Note(bit[t], on[t])
  /\ busy' = [busy EXCEPT ![t] = FALSE]
  /\ reg' = [reg EXCEPT ![t] = {}]
  /\ on' = [on EXCEPT ![t] = FALSE]
  /\ bit' = [bit EXCEPT ![t] = AnyBit]

\* Thread t, which nothing above it holds up, stores what it has made of the
\* word it loaded.
Store(t) ==
  /\ busy[t]
  /\ \A u \in Thread \ {t} : busy[u] => Above(t, u)
  /\ word' = Modified(reg[t], bit[t], on[t])
  /\ last' = Note(bit[t], on[t])
  /\ busy' = [busy EXCEPT ![t] = FALSE]
  /\ reg' = [reg EXCEPT ![t] = {}]
  /\ on' = [on EXCEPT ![t] = FALSE]
  /\ bit' = [bit EXCEPT ![t] = AnyBit]

WordInit ==
  /\ word = {}
  /\ busy = [t \in Thread |-> FALSE]
  /\ reg = [t \in Thread |-> {}]
  /\ bit = [t \in Thread |-> AnyBit]
  /\ on = [t \in Thread |-> FALSE]
  /\ last = [b \in Bit |-> FALSE]

WordNext == \E t \in Thread : Store(t) \/ \E b \in Bit, v \in BOOLEAN : Load(t, b, v)

WordSpec == WordInit /\ [][WordNext]_wordVars

----------------------------------------------------------------------------
\* Every variable stays within its type, and a busy thread is about to write
\* a bit of its own.
WordTypeOK ==
  /\ word \subseteq Bit
  /\ busy \in [Thread -> BOOLEAN]
  /\ reg \in [Thread -> SUBSET Bit]
  /\ bit \in [Thread -> Bit]
  /\ on \in [Thread -> BOOLEAN]
  /\ last \in [Bit -> BOOLEAN]
  /\ \A t \in Thread : busy[t] => bit[t] \in Writes[t]

\* What a busy thread has loaded is still what the word says about the bits
\* that no thread above it writes.
LoadedStillTrue ==
  \A t \in Thread, b \in Bit :
    busy[t] /\ OutOfReach(t, b) => (b \in reg[t] <=> b \in word)

\* A bit that no thread but the lowest writes is always what that thread last
\* asked for: whatever interleaving, the unlocked read-modify-writes of the
\* others never undo PWR, FAN, COOLING, OUTWATER and EXITWATER of bkg
\* (sys_set_remap_status, sys_running_mode_update).
FirmBits == \A b \in Bit : Firm(b) => (b \in word <=> last[b])

\* A bit changes only by a thread that writes this bit, or by one that lies
\* below a writer of the bit and stores a word it loaded earlier: the only
\* harm the missing lock does is to the bits of higher threads.
ChangeStep ==
  \A b \in Bit :
    (b \in word) # (b \in word') =>
      \E t \in Thread :
        /\ busy[t] /\ ~busy'[t]
        /\ b = bit[t] \/ \E w \in Thread : b \in Writes[w] /\ Above(w, t)

ChangesFromBelow == [][ChangeStep]_wordVars
=============================================================================
