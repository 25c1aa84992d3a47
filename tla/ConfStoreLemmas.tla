--------------------------- MODULE ConfStoreLemmas ---------------------------
(***************************************************************************)
(* What ConfStoreProofs needs: the inductive invariant KeptInv of a quiet  *)
(* store, what a vote answers and what each list of instructions consists  *)
(* of, and that KeptInv holds at first and when an operation begins.       *)
(*                                                                         *)
(* Quiet: the EEPROM is provisioned and answers, and neither the jumper    *)
(* nor a factory command asks for other settings; power failures, single   *)
(* and multiple writes remain.  Outside of it the property is false, see   *)
(* README.md.                                                              *)
(*                                                                         *)
(* KeptInv says how far the one operation under way has got: a copy of a   *)
(* register that differs from the value in use is still to be written, and *)
(* a start has repaired the registers it has loaded, but for what is left  *)
(* of the repairs of the last one.                                         *)
(***************************************************************************)
EXTENDS ConfStore, SequenceTheorems, TLAPS

Quiet == ~S.factory /\ ~S.virgin /\ S.jumper = {FALSE} /\ S.drops = 0

----------------------------------------------------------------------------
(* Votes.                                                                  *)

Vote(s) == CompareRead(s).val

\* Two of the three copies are the same; all three are.
Agree(s) == mem[1][s] = mem[2][s] \/ mem[1][s] = mem[3][s] \/ mem[2][s] = mem[3][s]
Uniform(s) == \A a, b \in User : mem[a][s] = mem[b][s]

\* The copies that are not what is in use are all the same.
Split(r) == \A a, b \in User : mem[a][r] # ram[r] /\ mem[b][r] # ram[r] => mem[a][r] = mem[b][r]

----------------------------------------------------------------------------
(* The instructions of a quiet store.                                      *)

Putting == [op : {"put", "page"}, area : User, slot : Slot, val : Word]
Ending == [op : {"putIfGood"}, area : User, slot : {Sum}, val : Word]
UpInstr ==
  Putting \cup Ending
    \cup [op : {"flagIfGood"}, val : {"USR"}]
    \cup [op : {"verify"}, area : User, val : [Regs -> Word]]
    \cup [op : {"save"}, fact : {FALSE}]
    \cup {WifiSet}
Instr == UpInstr \cup [op : {"load"}, slot : Regs] \cup {GoUp}

\* Whether q still writes register r in area a, or anywhere.
Due(q, a, r) == \E w \in Range(q) : w \in Putting /\ w.area = a /\ w.slot = r

\* Thread t has begun an operation, or none is under way: what it writes is in
\* use, and it writes every copy that is not or leaves the register alone.
Doing(t) ==
  /\ todo[t] \in Seq(UpInstr)
  /\ \A i \in 1..Len(todo[t]) : todo[t][i] = WifiSet => i = Len(todo[t])
  /\ \A w \in Range(todo[t]) : w \in Putting /\ w.slot \in Regs => w.val = ram[w.slot]
  /\ \A r \in Regs :
       /\ Split(r)
       /\ \/ \A a \in User : mem[a][r] = ram[r] \/ Due(todo[t], a, r)
          \/ Uniform(r) /\ \A a \in User : ~Due(todo[t], a, r)

\* A start has loaded n registers and has k writes of repairs to do.
Booting(q, n, k) ==
  /\ Len(q) = k + NumRegs - n + 1
  /\ \A i \in 1..k : q[i] \in Putting /\ (q[i].slot \in Regs => q[i].val = Vote(q[i].slot))
  /\ \A i \in (k + 1)..(Len(q) - 1) : q[i] = Load(n + i - k - 1)
  /\ q[Len(q)] = GoUp
  /\ \A r \in 0..(n - 1) :
       /\ ram[r] = InRange(r, Vote(r))
       /\ \A a \in User : mem[a][r] = Vote(r) \/ \E i \in 1..k : q[i].area = a /\ q[i].slot = r

Alone(t) == \A s \in Actors \ {t} : todo[s] = <<>>

KeptTypeOK ==
  /\ scene \in DOMAIN Scenarios /\ Quiet
  /\ mem \in [Area -> [Slot -> Word]]
  /\ ram \in [Regs -> Word]
  /\ flag = "USR" /\ source = "USR"
  /\ stage \in {"off", "boot", "up"}
  /\ todo \in [Actors -> Seq(Instr)]
  /\ drops = 0

\* The inductive invariant of a quiet store.
KeptInv ==
  /\ KeptTypeOK
  /\ \A r \in Regs : Agree(r)
  /\ stage = "off" => \A t \in Actors : todo[t] = <<>>
  /\ stage = "boot" => Alone("init") /\ \E n \in 0..NumRegs, k \in 0..2 : Booting(todo["init"], n, k)
  /\ stage = "up" => \E t \in Actors : Alone(t) /\ Doing(t)

----------------------------------------------------------------------------
(* Sequences.                                                              *)

LEMMA TailFacts ==
  ASSUME NEW T, NEW q \in Seq(T), q # <<>>
  PROVE  /\ Len(q) \in Nat \ {0} /\ Head(q) = q[1] /\ Head(q) \in T
         /\ Tail(q) \in Seq(T) /\ Len(Tail(q)) = Len(q) - 1
         /\ \A i \in 1..(Len(q) - 1) : Tail(q)[i] = q[i + 1]
         /\ Range(q) = {Head(q)} \cup Range(Tail(q))
  <1>1. /\ Len(q) \in Nat \ {0} /\ Head(q) = q[1] /\ Head(q) \in T
        /\ Tail(q) \in Seq(T) /\ Len(Tail(q)) = Len(q) - 1
        /\ \A i \in 1..(Len(q) - 1) : Tail(q)[i] = q[i + 1]
    BY HeadTailProperties, EmptySeq
  <1>2. DOMAIN q = 1..Len(q) /\ DOMAIN Tail(q) = 1..(Len(q) - 1)
    BY <1>1, LenProperties, Zenon
  <1>3. \A i \in 1..Len(q) : i = 1 \/ (i - 1 \in 1..(Len(q) - 1) /\ q[i] = Tail(q)[i - 1])
    BY <1>1
  <1>4. \A i \in 1..(Len(q) - 1) : i + 1 \in 1..Len(q) /\ Tail(q)[i] = q[i + 1]
    BY <1>1
  <1>5. 1 \in 1..Len(q)
    BY <1>1
  <1>6. Range(q) \subseteq {Head(q)} \cup Range(Tail(q))
    <2> SUFFICES ASSUME NEW i \in 1..Len(q) PROVE q[i] \in {Head(q)} \cup Range(Tail(q))
      BY <1>2, Zenon DEF Range
    <2> QED BY <1>1, <1>2, <1>3, Zenon DEF Range
  <1>7. {Head(q)} \cup Range(Tail(q)) \subseteq Range(q)
    BY <1>1, <1>2, <1>4, <1>5, Zenon DEF Range
  <1> QED BY <1>1, <1>6, <1>7, Zenon

LEMMA ConcatFacts ==
  ASSUME NEW T, NEW p \in Seq(T), NEW q \in Seq(T)
  PROVE  /\ p \o q \in Seq(T) /\ Len(p \o q) = Len(p) + Len(q)
         /\ Len(p) \in Nat /\ Len(q) \in Nat
         /\ \A i \in 1..Len(p) : (p \o q)[i] = p[i]
         /\ \A i \in 1..Len(q) : (p \o q)[Len(p) + i] = q[i]
         /\ Range(p \o q) = Range(p) \cup Range(q)
  <1>1. /\ p \o q \in Seq(T) /\ Len(p \o q) = Len(p) + Len(q)
        /\ \A i \in 1..(Len(p) + Len(q)) :
             (p \o q)[i] = IF i <= Len(p) THEN p[i] ELSE q[i - Len(p)]
    BY ConcatProperties, Zenon
  <1>2. Len(p) \in Nat /\ Len(q) \in Nat
    BY LenProperties, Zenon
  <1>3. \A i \in 1..Len(p) : i \in 1..(Len(p) + Len(q)) /\ (p \o q)[i] = p[i]
    BY <1>1, <1>2
  <1>4. \A i \in 1..Len(q) : Len(p) + i \in 1..(Len(p) + Len(q)) /\ (p \o q)[Len(p) + i] = q[i]
    BY <1>1, <1>2
  <1>5. /\ DOMAIN p = 1..Len(p) /\ DOMAIN q = 1..Len(q)
        /\ DOMAIN (p \o q) = 1..(Len(p) + Len(q))
    BY <1>1, LenProperties, Zenon
  <1>6. \A i \in 1..(Len(p) + Len(q)) :
          i \in 1..Len(p) \/ (i - Len(p) \in 1..Len(q) /\ (p \o q)[i] = q[i - Len(p)])
    BY <1>1, <1>2
  <1>7. Range(p \o q) \subseteq Range(p) \cup Range(q)
    BY <1>3, <1>5, <1>6, Zenon DEF Range
  <1>8. Range(p) \cup Range(q) \subseteq Range(p \o q)
    BY <1>3, <1>4, <1>5, Zenon DEF Range
  <1> QED BY <1>1, <1>2, <1>3, <1>4, <1>7, <1>8, Zenon

LEMMA Joined ==
  ASSUME NEW T, NEW p \in Seq(T), NEW q \in Seq(T)
  PROVE  /\ p \o q \in Seq(T) /\ Len(p \o q) = Len(p) + Len(q)
         /\ \A i \in 1..Len(p) : (p \o q)[i] = p[i]
         /\ \A i \in 1..Len(q) : (p \o q)[Len(p) + i] = q[i]
  BY ConcatFacts

LEMMA OneElement ==
  ASSUME NEW T, NEW x \in T
  PROVE  /\ <<x>> \in Seq(T) /\ Len(<<x>>) = 1 /\ <<x>>[1] = x /\ Range(<<x>>) = {x}
         /\ <<>> \in Seq(T) /\ Len(<<>>) = 0 /\ Range(<<>>) = {}
  BY DEF Range

LEMMA FunctionIsSeq ==
  ASSUME NEW T, NEW n \in Nat, NEW f \in [1..n -> T]
  PROVE  f \in Seq(T) /\ Len(f) = n /\ Range(f) = {f[i] : i \in 1..n}
  BY DEF Range

LEMMA RangeIn ==
  ASSUME NEW T, NEW q \in Seq(T)
  PROVE  Range(q) \subseteq T /\ Range(<<>>) = {} /\ (\A i \in 1..Len(q) : q[i] \in Range(q))
  BY LenProperties DEF Range

----------------------------------------------------------------------------
(* Votes.                                                                  *)

LEMMA XorWord == \A a, b \in Word : Xor(a, b) \in Word
  BY Zenon DEF Xor, Word

\* What CompareRead answers when two copies are the same.
LEMMA Majority ==
  ASSUME NEW s, Agree(s)
  PROVE  /\ Vote(s) = IF mem[1][s] = mem[2][s] \/ mem[1][s] = mem[3][s] THEN mem[1][s] ELSE mem[2][s]
         /\ ~CompareRead(s).err
         /\ Uniform(s) => CompareRead(s).fix = <<>> /\ \A a \in User : mem[a][s] = Vote(s)
         /\ ~Uniform(s) =>
              \E o \in User :
                /\ CompareRead(s).fix = SingleWrite(o, s, Vote(s), mem[o][s])
                /\ \A a \in User \ {o} : mem[a][s] = Vote(s)
  <1>0. User = {1, 2, 3}
    BY DEF User
  <1>1. CASE mem[1][s] = mem[2][s] /\ mem[2][s] = mem[3][s]
    <2>1. CompareRead(s) = [val |-> mem[1][s], err |-> FALSE,
                             fix |-> <<>>]
      BY <1>1, Zenon DEF CompareRead
    <2> QED BY <1>0, <1>1, <2>1 DEF Vote, Uniform
  <1>2. CASE mem[1][s] = mem[2][s] /\ mem[2][s] # mem[3][s]
    <2>1. CompareRead(s) = [val |-> mem[1][s], err |-> FALSE,
                             fix |-> SingleWrite(3, s, mem[1][s], mem[3][s])]
      BY <1>2, Zenon DEF CompareRead
    <2>2. CompareRead(s).val = mem[1][s] /\ CompareRead(s).err = FALSE
          /\ CompareRead(s).fix = SingleWrite(3, s, mem[1][s], mem[3][s])
      BY <2>1
    <2> QED BY <1>0, <1>2, <2>2, Zenon DEF Vote, Uniform
  <1>3. CASE mem[1][s] = mem[3][s] /\ mem[1][s] # mem[2][s]
    <2>1. CompareRead(s) = [val |-> mem[3][s], err |-> FALSE,
                             fix |-> SingleWrite(2, s, mem[3][s], mem[2][s])]
      BY <1>3, Zenon DEF CompareRead
    <2>2. CompareRead(s).val = mem[3][s] /\ CompareRead(s).err = FALSE
          /\ CompareRead(s).fix = SingleWrite(2, s, mem[3][s], mem[2][s])
      BY <2>1
    <2> QED BY <1>0, <1>3, <2>2, Zenon DEF Vote, Uniform
  <1>4. CASE mem[2][s] = mem[3][s] /\ mem[1][s] # mem[2][s]
    <2>1. CompareRead(s) = [val |-> mem[2][s], err |-> FALSE,
                             fix |-> SingleWrite(1, s, mem[2][s], mem[1][s])]
      BY <1>4, Zenon DEF CompareRead
    <2>2. CompareRead(s).val = mem[2][s] /\ CompareRead(s).err = FALSE
          /\ CompareRead(s).fix = SingleWrite(1, s, mem[2][s], mem[1][s])
      BY <2>1
    <2> QED BY <1>0, <1>4, <2>2, Zenon DEF Vote, Uniform
  <1> QED BY <1>1, <1>2, <1>3, <1>4, Zenon DEF Agree

\* The vote of the next state.
LEMMA MajorityNext ==
  ASSUME NEW s, Agree(s)'
  PROVE  /\ Vote(s)' = IF mem'[1][s] = mem'[2][s] \/ mem'[1][s] = mem'[3][s]
                       THEN mem'[1][s] ELSE mem'[2][s]
         /\ CompareRead(s).err' = FALSE
  <1>1. CASE mem'[1][s] = mem'[2][s] /\ mem'[2][s] = mem'[3][s]
    BY <1>1, Zenon DEF CompareRead, Vote
  <1>2. CASE mem'[1][s] = mem'[2][s] /\ mem'[2][s] # mem'[3][s]
    BY <1>2, Zenon DEF CompareRead, Vote
  <1>3. CASE mem'[1][s] = mem'[3][s] /\ mem'[1][s] # mem'[2][s]
    BY <1>3, Zenon DEF CompareRead, Vote
  <1>4. CASE mem'[2][s] = mem'[3][s] /\ mem'[1][s] # mem'[2][s]
    BY <1>4, Zenon DEF CompareRead, Vote
  <1> QED BY <1>1, <1>2, <1>3, <1>4, Zenon DEF Agree

LEMMA VoteWord ==
  ASSUME mem \in [Area -> [Slot -> Word]], NEW s \in Slot, Agree(s)
  PROVE  Vote(s) \in Word /\ \E a \in User : Vote(s) = mem[a][s]
  BY Majority DEF User, Area

\* What is the answer when a copy is overwritten by what is in use, and by the
\* answer itself; the other slots are left alone.
LEMMA WriteInUse ==
  ASSUME mem \in [Area -> [Slot -> Word]], NEW a \in User, NEW r \in Regs, Split(r),
         mem' = [mem EXCEPT ![a][r] = ram[r]], ram' = ram
  PROVE  Agree(r) /\ Agree(r)' /\ Split(r)' /\ Vote(r)' \in {Vote(r), ram[r]}
  <1>0. User = {1, 2, 3} /\ r \in Slot /\ User \subseteq Area
    BY RegsAssumption DEF User, Regs, Slot, Area
  <1>1. \A b \in User : mem'[b][r] = IF b = a THEN ram[r] ELSE mem[b][r]
    BY <1>0, Zenon
  <1>2. Agree(r) /\ Agree(r)' /\ Split(r)'
    BY <1>0, <1>1 DEF Agree, Split
  <1>3. Vote(r) = IF mem[1][r] = mem[2][r] \/ mem[1][r] = mem[3][r] THEN mem[1][r] ELSE mem[2][r]
    BY <1>2, Majority, Zenon
  <1>4. (Vote(r) = IF mem[1][r] = mem[2][r] \/ mem[1][r] = mem[3][r] THEN mem[1][r] ELSE mem[2][r])'
    BY <1>2, MajorityNext, Zenon
  <1> QED BY <1>0, <1>1, <1>2, <1>3, <1>4 DEF Split

LEMMA WriteVote ==
  ASSUME mem \in [Area -> [Slot -> Word]], NEW a \in User, NEW s \in Slot, Agree(s),
         mem' = [mem EXCEPT ![a][s] = Vote(s)]
  PROVE  Agree(s)' /\ Vote(s)' = Vote(s)
  <1>0. User = {1, 2, 3} /\ User \subseteq Area
    BY DEF User, Area
  <1>1. \A b \in User : mem'[b][s] = IF b = a THEN Vote(s) ELSE mem[b][s]
    BY <1>0, Zenon
  <1>2. Vote(s) = IF mem[1][s] = mem[2][s] \/ mem[1][s] = mem[3][s] THEN mem[1][s] ELSE mem[2][s]
    BY Majority, Zenon
  <1>3. Agree(s)'
    BY <1>0, <1>1, <1>2, Zenon DEF Agree
  <1>4. (Vote(s) = IF mem[1][s] = mem[2][s] \/ mem[1][s] = mem[3][s] THEN mem[1][s] ELSE mem[2][s])'
    BY <1>3, MajorityNext, Zenon
  <1> QED BY <1>0, <1>1, <1>2, <1>3, <1>4, Zenon DEF Agree

LEMMA NotWritten ==
  ASSUME NEW r, \A b \in User : mem'[b][r] = mem[b][r]
  PROVE  /\ Agree(r) <=> Agree(r)'
         /\ Uniform(r) <=> Uniform(r)'
         /\ Agree(r) => Vote(r)' = Vote(r)
  <1>0. User = {1, 2, 3}
    BY DEF User
  <1>1. (Agree(r) <=> Agree(r)') /\ (Uniform(r) <=> Uniform(r)')
    BY <1>0 DEF Agree, Uniform
  <1>2. ASSUME Agree(r) PROVE Vote(r)' = Vote(r)
    <2>1. Vote(r) = IF mem[1][r] = mem[2][r] \/ mem[1][r] = mem[3][r] THEN mem[1][r] ELSE mem[2][r]
      BY <1>2, Majority, Zenon
    <2>2. (Vote(r) = IF mem[1][r] = mem[2][r] \/ mem[1][r] = mem[3][r] THEN mem[1][r] ELSE mem[2][r])'
      BY <1>1, <1>2, MajorityNext, Zenon
    <2> QED BY <1>0, <2>1, <2>2
  <1> QED BY <1>1, <1>2, Zenon

----------------------------------------------------------------------------
(* The lists of instructions.                                              *)

LEMMA InstrOps ==
  /\ \A w \in Putting : /\ w.op \in {"put", "page"} /\ w.area \in User /\ w.slot \in Slot
                        /\ w.val \in Word /\ w # WifiSet /\ w \in UpInstr
  /\ \A w \in UpInstr : w.op \notin {"load", "up", "flag", "defaults", "copy", "restart"}
  /\ \A w \in UpInstr : w.op \in {"put", "page"} => w \in Putting
  /\ \A w \in UpInstr : w.op = "putIfGood" => w \in Ending
  /\ \A w \in UpInstr : w.op = "wifi" => w = WifiSet
  /\ \A w \in UpInstr : w.op = "save" => w.fact = FALSE
  /\ \A w \in UpInstr : w.op = "flagIfGood" => w.val = "USR"
  /\ \A w \in Ending : w.area \in User /\ w.slot = Sum /\ w.val \in Word
  /\ \A w \in Instr : w.op \notin {"flag", "defaults", "copy", "restart"}
  /\ \A r : Load(r).op = "load" /\ Load(r).slot = r
  /\ GoUp.op = "up" /\ GoUp \in Instr /\ WifiSet \in UpInstr /\ Save(FALSE) \in UpInstr
  /\ \A r \in Regs : Load(r) \in Instr
  /\ UpInstr \subseteq Instr /\ Putting \subseteq UpInstr
  <1>1. \A w \in Putting : /\ w.op \in {"put", "page"} /\ w.area \in User /\ w.slot \in Slot
                           /\ w.val \in Word
    BY Zenon DEF Putting
  <1>2. \A w \in Ending : w.op = "putIfGood" /\ w.area \in User /\ w.slot = Sum /\ w.val \in Word
    BY Zenon DEF Ending
  <1>3. \A w \in UpInstr :
          \/ w \in Putting
          \/ w \in Ending
          \/ w.op = "flagIfGood" /\ w.val = "USR"
          \/ w.op = "verify"
          \/ w.op = "save" /\ w.fact = FALSE
          \/ w = WifiSet
    BY Zenon DEF UpInstr
  <1>4. \A w \in Instr : w \in UpInstr \/ w.op = "load" \/ w = GoUp
    BY Zenon DEF Instr
  <1>5. WifiSet.op = "wifi" /\ GoUp.op = "up" /\ \A r : Load(r).op = "load" /\ Load(r).slot = r
    BY Zenon DEF WifiSet, GoUp, Load
  <1>6. /\ GoUp \in Instr /\ WifiSet \in UpInstr
        /\ UpInstr \subseteq Instr /\ Putting \subseteq UpInstr
    BY Zenon DEF Instr, UpInstr
  <1>7. Save(FALSE) \in UpInstr
    BY Zenon DEF UpInstr, Save
  <1>8. \A r \in Regs : Load(r) \in Instr
    BY Zenon DEF Load, Instr
  <1> QED BY <1>1, <1>2, <1>3, <1>4, <1>5, <1>6, <1>7, <1>8, Zenon

LEMMA PutIs ==
  ASSUME NEW a \in User, NEW s \in Slot, NEW v \in Word
  PROVE  /\ Put(a, s, v) \in Putting /\ Put(a, s, v).area = a
         /\ Put(a, s, v).slot = s /\ Put(a, s, v).val = v
         /\ Page(a, s, v) \in Putting /\ Page(a, s, v).area = a
         /\ Page(a, s, v).slot = s /\ Page(a, s, v).val = v
  BY Zenon DEF Put, Page, Putting

LEMMA SlotFacts == Regs \subseteq Slot /\ Sum \in Slot /\ Sum \notin Regs /\ Slot = Regs \cup {Sum}
  BY RegsAssumption DEF Regs, Slot, Sum

LEMMA StartIs ==
  LET q == StartProgram("USR") IN
  /\ q \in Seq(Instr) /\ Len(q) = NumRegs + 1
  /\ \A i \in 1..NumRegs : q[i] = Load(i - 1)
  /\ q[NumRegs + 1] = GoUp
  <1> DEFINE p == Loads(0)
  <1>1. NumRegs \in Nat \ {0}
    BY RegsAssumption, Zenon
  <1>2. p = [i \in 1..NumRegs |-> Load(i - 1)]
    BY <1>1 DEF Loads
  <1>3. \A i \in 1..NumRegs : Load(i - 1) \in Instr
    BY <1>1, InstrOps DEF Regs
  <1>4. p \in [1..NumRegs -> Instr]
    BY <1>2, <1>3, Zenon
  <1> HIDE DEF p
  <1>5. p \in Seq(Instr) /\ Len(p) = NumRegs
    BY <1>1, <1>4, FunctionIsSeq, Zenon
  <1>6. <<GoUp>> \in Seq(Instr) /\ Len(<<GoUp>>) = 1 /\ <<GoUp>>[1] = GoUp
    BY InstrOps
  <1>7. StartProgram("USR") = p \o <<GoUp>>
    BY Zenon DEF StartProgram, p
  <1>8. /\ p \o <<GoUp>> \in Seq(Instr) /\ Len(p \o <<GoUp>>) = NumRegs + 1
        /\ \A i \in 1..NumRegs : (p \o <<GoUp>>)[i] = p[i]
        /\ \A i \in 1..1 : (p \o <<GoUp>>)[NumRegs + i] = <<GoUp>>[i]
    BY <1>5, <1>6, ConcatFacts
  <1>9. \A i \in 1..NumRegs : p[i] = Load(i - 1)
    BY <1>2, Zenon
  <1>10. (p \o <<GoUp>>)[NumRegs + 1] = GoUp
    BY <1>6, <1>8
  <1> QED BY <1>7, <1>8, <1>9, <1>10, Zenon

LEMMA SingleWriteIs ==
  ASSUME mem \in [Area -> [Slot -> Word]], NEW a \in User, NEW s \in Slot, NEW v \in Word, NEW o \in Word
  PROVE  LET q == SingleWrite(a, s, v, o) IN
         /\ q \in Seq(Putting) /\ Len(q) = 2
         /\ q[1] = Put(a, s, v) /\ q[2] = Put(a, Sum, Xor(Xor(mem[a][Sum], o), v))
         /\ Range(q) = {q[1], q[2]}
  <1>1. Xor(Xor(mem[a][Sum], o), v) \in Word
    BY XorWord, SlotFacts, Zenon DEF Area
  <1>2. Put(a, s, v) \in Putting /\ Put(a, Sum, Xor(Xor(mem[a][Sum], o), v)) \in Putting
    BY <1>1, PutIs, SlotFacts, Zenon
  <1> HIDE DEF Putting
  <1> QED BY <1>2 DEF SingleWrite, Range

LEMMA TripleIs ==
  ASSUME NEW r \in Regs, NEW v \in Word, NEW x \in Word
  PROVE  LET q == TripleWrite(r, v, x) IN
         /\ q \in Seq(Putting) /\ Len(q) = 6
         /\ \A i \in 1..6 : q[i] = IF i <= 3 THEN Put(i, r, v) ELSE Put(i - 3, Sum, x)
         /\ \A w \in Range(q) : w.slot \in Regs => w.slot = r /\ w.val = v
         /\ \A a \in User : Put(a, r, v) \in Range(q)
  <1> DEFINE q == TripleWrite(r, v, x)
  <1>1. \A i \in 1..6 : q[i] = IF i <= 3 THEN Put(i, r, v) ELSE Put(i - 3, Sum, x)
    BY Zenon DEF TripleWrite
  <1>2. \A i \in 1..6 : q[i] \in Putting /\ (q[i].slot \in Regs => q[i].slot = r /\ q[i].val = v)
    BY <1>1, PutIs, SlotFacts DEF User
  <1>3. q \in [1..6 -> Putting]
    BY <1>2, Zenon DEF TripleWrite
  <1>4. \A a \in User : a \in 1..6 /\ q[a] = Put(a, r, v)
    BY <1>1 DEF User
  <1> HIDE DEF q, Putting
  <1>5. q \in Seq(Putting) /\ Len(q) = 6 /\ Range(q) = {q[i] : i \in 1..6}
    BY <1>3, FunctionIsSeq, Zenon
  <1> QED BY <1>1, <1>2, <1>4, <1>5, Zenon DEF q

LEMMA ChecksumWord == \A img : Checksum(img) \in Word
  BY Zenon DEF Checksum, Word

LEMMA SaveAreaIs ==
  ASSUME NEW a \in User, NEW img \in [Regs -> Word]
  PROVE  LET q == SaveArea(a, img, "USR") IN
         /\ q \in Seq(UpInstr) /\ WifiSet \notin Range(q)
         /\ \A w \in Range(q) : w \in Putting => w.slot \in Regs /\ w.val = img[w.slot]
         /\ \A r \in Regs : Page(a, r, img[r]) \in Range(q)
  <1> DEFINE p == [i \in 1..NumRegs |-> Page(a, i - 1, img[i - 1])]
             e == <<Verify(a, img), PutIfGood(a, Sum, Checksum(img)), SetFlagIfGood("USR")>>
  <1>1. NumRegs \in Nat \ {0}
    BY RegsAssumption, Zenon
  <1>2. \A i \in 1..NumRegs : i - 1 \in Regs
    BY <1>1 DEF Regs
  <1>3. \A i \in 1..NumRegs : /\ p[i] = Page(a, i - 1, img[i - 1])
                              /\ p[i] \in Putting /\ p[i].slot \in Regs /\ p[i].val = img[p[i].slot]
    BY <1>2, PutIs, SlotFacts
  <1>4. p \in [1..NumRegs -> UpInstr]
    BY <1>3, InstrOps, Zenon
  <1>5. p \in Seq(UpInstr) /\ Range(p) = {p[i] : i \in 1..NumRegs}
    <2> HIDE DEF p, UpInstr
    <2> QED BY <1>1, <1>4, FunctionIsSeq
  <1>6. \A r \in Regs : Page(a, r, img[r]) \in Range(p)
    <2> TAKE r \in Regs
    <2>1. r + 1 \in 1..NumRegs /\ p[r + 1] = Page(a, r, img[r])
      BY <1>1, <1>3 DEF Regs
    <2> HIDE DEF p
    <2> QED BY <1>5, <2>1, Zenon
  <1>7. Verify(a, img) \in UpInstr /\ Verify(a, img) \notin Putting /\ Verify(a, img) # WifiSet
    BY Zenon DEF Verify, UpInstr, Putting, WifiSet
  <1>8. /\ PutIfGood(a, Sum, Checksum(img)) \in UpInstr /\ PutIfGood(a, Sum, Checksum(img)) \notin Putting
        /\ PutIfGood(a, Sum, Checksum(img)) # WifiSet
    BY ChecksumWord, Zenon DEF PutIfGood, UpInstr, Ending, Putting, WifiSet
  <1>9. /\ SetFlagIfGood("USR") \in UpInstr /\ SetFlagIfGood("USR") \notin Putting
        /\ SetFlagIfGood("USR") # WifiSet
    BY Zenon DEF SetFlagIfGood, UpInstr, Putting, WifiSet
  <1>10. /\ e \in Seq(UpInstr)
         /\ Range(e) = {Verify(a, img), PutIfGood(a, Sum, Checksum(img)), SetFlagIfGood("USR")}
    <2> HIDE DEF UpInstr
    <2> QED BY <1>7, <1>8, <1>9 DEF Range
  <1>11. SaveArea(a, img, "USR") = p \o e
    BY Zenon DEF SaveArea
  <1> HIDE DEF p, e
  <1>12. p \o e \in Seq(UpInstr) /\ Range(p \o e) = Range(p) \cup Range(e)
    BY <1>5, <1>10, ConcatFacts
  <1>13. \A w \in Range(p) : w \in Putting /\ w.slot \in Regs /\ w.val = img[w.slot] /\ w # WifiSet
    BY <1>3, <1>5, InstrOps
  <1>14. \A w \in Range(e) : w \notin Putting /\ w # WifiSet
    BY <1>7, <1>8, <1>9, <1>10, Zenon
  <1> HIDE DEF UpInstr, Putting
  <1> QED BY <1>6, <1>11, <1>12, <1>13, <1>14, Zenon

LEMMA SaveUserIs ==
  ASSUME NEW img \in [Regs -> Word]
  PROVE  LET q == SaveUser(img) IN
         /\ q \in Seq(UpInstr) /\ WifiSet \notin Range(q)
         /\ \A w \in Range(q) : w \in Putting => w.slot \in Regs /\ w.val = img[w.slot]
         /\ \A a \in User, r \in Regs : Page(a, r, img[r]) \in Range(q)
  <1> DEFINE q(a) == SaveArea(a, img, "USR")
  <1>1. User = {1, 2, 3}
    BY DEF User
  <1>2. \A a \in User :
          /\ q(a) \in Seq(UpInstr) /\ WifiSet \notin Range(q(a))
          /\ \A w \in Range(q(a)) : w \in Putting => w.slot \in Regs /\ w.val = img[w.slot]
          /\ \A r \in Regs : Page(a, r, img[r]) \in Range(q(a))
    BY SaveAreaIs, Zenon
  <1>3. SaveUser(img) = (q(1) \o q(2)) \o q(3)
    BY Zenon DEF SaveUser
  <1> HIDE DEF q
  <1>4. q(1) \o q(2) \in Seq(UpInstr) /\ Range(q(1) \o q(2)) = Range(q(1)) \cup Range(q(2))
    BY <1>1, <1>2, ConcatFacts
  <1>5. /\ (q(1) \o q(2)) \o q(3) \in Seq(UpInstr)
        /\ Range((q(1) \o q(2)) \o q(3)) = Range(q(1) \o q(2)) \cup Range(q(3))
    <2> DEFINE p == q(1) \o q(2)
    <2>1. p \in Seq(UpInstr) /\ q(3) \in Seq(UpInstr)
      BY <1>1, <1>2, <1>4, Zenon
    <2> HIDE DEF p
    <2>2. p \o q(3) \in Seq(UpInstr) /\ Range(p \o q(3)) = Range(p) \cup Range(q(3))
      BY <2>1, ConcatFacts
    <2> QED BY <2>2, Zenon DEF p
  <1>6. Range(SaveUser(img)) = Range(q(1)) \cup Range(q(2)) \cup Range(q(3))
    BY <1>3, <1>4, <1>5, Zenon
  <1> QED BY <1>1, <1>2, <1>3, <1>5, <1>6, Zenon

----------------------------------------------------------------------------
(* One instruction less.                                                   *)

LEMMA DueTail ==
  ASSUME NEW T, NEW q \in Seq(T), q # <<>>
  PROVE  \A a, r : Due(q, a, r) <=> \/ Head(q) \in Putting /\ Head(q).area = a /\ Head(q).slot = r
                                    \/ Due(Tail(q), a, r)
  <1>1. Range(q) = {Head(q)} \cup Range(Tail(q))
    BY TailFacts, Zenon
  <1> HIDE DEF Putting
  <1> QED BY <1>1, Zenon DEF Due

LEMMA SplitAgree == \A r : (Split(r) => Agree(r)) /\ (Uniform(r) => Split(r))
  BY DEF Split, Agree, Uniform, User

LEMMA SplitAgreeNext == \A r : Split(r)' => Agree(r)'
  BY DEF Split, Agree, User

\* What the next state inherits when the first instruction is done.
LEMMA DoneList ==
  ASSUME NEW T, NEW t \in Actors, todo \in [Actors -> Seq(T)], todo[t] # <<>>, Done(t)
  PROVE  /\ todo' \in [Actors -> Seq(T)] /\ todo'[t] = Tail(todo[t])
         /\ \A s \in Actors \ {t} : todo'[s] = todo[s]
         /\ Alone(t) => Alone(t)'
  <1>1. Tail(todo[t]) \in Seq(T)
    BY TailFacts, Zenon
  <1> QED BY <1>1, Zenon DEF Done, Alone

LEMMA AdvanceOps ==
  ASSUME NEW t \in Actors, Doing(t), todo[t] # <<>>, todo'[t] = Tail(todo[t]), ram' = ram
  PROVE  /\ Head(todo[t]) \in UpInstr
         /\ todo'[t] \in Seq(UpInstr)
         /\ \A i \in 1..Len(todo'[t]) : todo'[t][i] = WifiSet => i = Len(todo'[t])
         /\ \A w \in Range(todo'[t]) : w \in Putting /\ w.slot \in Regs => w.val = ram'[w.slot]
  <1> DEFINE q == todo[t]
  <1>1. q \in Seq(UpInstr) /\ q # <<>>
    BY Zenon DEF Doing
  <1>2. \A i \in 1..Len(q) : q[i] = WifiSet => i = Len(q)
    BY Zenon DEF Doing
  <1>3. \A w \in Range(q) : w \in Putting /\ w.slot \in Regs => w.val = ram[w.slot]
    BY Zenon DEF Doing
  <1> HIDE DEF q, UpInstr, Putting
  <1>4. /\ Len(q) \in Nat \ {0} /\ Head(q) \in UpInstr
        /\ Tail(q) \in Seq(UpInstr) /\ Len(Tail(q)) = Len(q) - 1
        /\ \A i \in 1..(Len(q) - 1) : Tail(q)[i] = q[i + 1]
        /\ Range(q) = {Head(q)} \cup Range(Tail(q))
    BY <1>1, TailFacts, Zenon
  <1>5. \A i \in 1..(Len(q) - 1) : Tail(q)[i] = WifiSet => i = Len(q) - 1
    <2> SUFFICES ASSUME NEW i \in 1..(Len(q) - 1), Tail(q)[i] = WifiSet PROVE i = Len(q) - 1
      OBVIOUS
    <2>1. i + 1 \in 1..Len(q) /\ q[i + 1] = WifiSet /\ Len(q) \in Nat
      BY <1>4
    <2>2. i + 1 = Len(q)
      BY <1>2, <2>1, Zenon
    <2> QED BY <2>1, <2>2
  <1> QED BY <1>3, <1>4, <1>5, Zenon DEF q

\* The instruction writes no register.
LEMMA AdvanceSame ==
  ASSUME NEW t \in Actors, Doing(t), todo[t] # <<>>, todo'[t] = Tail(todo[t]), ram' = ram,
         \A a \in User, r \in Regs : mem'[a][r] = mem[a][r],
         Head(todo[t]) \in Putting => Head(todo[t]).slot \notin Regs
  PROVE  Doing(t)'
  <1> DEFINE q == todo[t]
  <1>1. q \in Seq(UpInstr) /\ q # <<>>
    BY Zenon DEF Doing
  <1>2. \A a \in User, r \in Regs : Due(q, a, r) <=> Due(Tail(q), a, r)
    <2> HIDE DEF q, Putting, UpInstr
    <2>1. \A a, r : Due(q, a, r) <=> \/ Head(q) \in Putting /\ Head(q).area = a /\ Head(q).slot = r
                                     \/ Due(Tail(q), a, r)
      BY <1>1, DueTail, Zenon
    <2> QED BY <2>1, Zenon DEF q
  <1>3. ASSUME NEW r \in Regs
        PROVE  /\ Split(r)'
               /\ \/ \A a \in User : mem'[a][r] = ram'[r] \/ Due(todo'[t], a, r)
                  \/ Uniform(r)' /\ \A a \in User : ~Due(todo'[t], a, r)
    <2>1. /\ Split(r)
          /\ \/ \A a \in User : mem[a][r] = ram[r] \/ Due(q, a, r)
             \/ Uniform(r) /\ \A a \in User : ~Due(q, a, r)
      BY Zenon DEF Doing
    <2>2. Split(r)' /\ (Uniform(r) => Uniform(r)')
      BY <2>1 DEF Split, Uniform
    <2> HIDE DEF q
    <2> QED BY <1>2, <2>1, <2>2, Zenon DEF q
  <1> QED BY <1>3, AdvanceOps, Zenon DEF Doing, Due

\* The instruction writes a register.
LEMMA AdvanceWrite ==
  ASSUME NEW t \in Actors, Doing(t), todo[t] # <<>>, todo'[t] = Tail(todo[t]), ram' = ram,
         mem \in [Area -> [Slot -> Word]],
         NEW w, w = Head(todo[t]), w \in Putting, w.slot \in Regs,
         mem' = [mem EXCEPT ![w.area][w.slot] = w.val]
  PROVE  /\ Doing(t)'
         /\ Vote(w.slot)' \in {Vote(w.slot), ram[w.slot]}
         /\ \A r \in Regs \ {w.slot} : Vote(r)' = Vote(r)
  <1> DEFINE q == todo[t]
             a == w.area
             s == w.slot
  <1>1. q \in Seq(UpInstr) /\ q # <<>> /\ a \in User /\ s \in Regs /\ s \in Slot
    BY InstrOps, SlotFacts, Zenon DEF Doing
  <1>2. w \in Range(q) /\ Due(q, a, s)
    <2>1. Range(q) = {Head(q)} \cup Range(Tail(q))
      BY <1>1, TailFacts, SMTT(30)
    <2> HIDE DEF Putting
    <2> QED BY <2>1, Zenon DEF Due
  <1>3. mem' = [mem EXCEPT ![a][s] = ram[s]]
    BY <1>2, Zenon DEF Doing
  <1>4. \A b \in User, r \in Regs :
          /\ Due(q, b, r) <=> (b = a /\ r = s) \/ Due(Tail(q), b, r)
    <2> HIDE DEF q, Putting, UpInstr
    <2>1. \A b, r : Due(q, b, r) <=> \/ Head(q) \in Putting /\ Head(q).area = b /\ Head(q).slot = r
                                     \/ Due(Tail(q), b, r)
      BY <1>1, DueTail, Zenon
    <2> QED BY <2>1, Zenon DEF q
  <1>5. \A r \in Regs :
          /\ Split(r)
          /\ \/ \A b \in User : mem[b][r] = ram[r] \/ Due(q, b, r)
             \/ Uniform(r) /\ \A b \in User : ~Due(q, b, r)
    BY Zenon DEF Doing
  <1> HIDE DEF q, a, s
  <1>6. Split(s)' /\ Vote(s)' \in {Vote(s), ram[s]}
    BY <1>1, <1>3, <1>5, WriteInUse, Zenon
  <1>7. \A b \in User : mem'[b][s] = IF b = a THEN ram'[s] ELSE mem[b][s]
    BY <1>1, <1>3 DEF Area
  <1>8. \A r \in Regs \ {s} :
          /\ \A b \in User : mem'[b][r] = mem[b][r]
          /\ (Uniform(r) <=> Uniform(r)') /\ Vote(r)' = Vote(r)
    <2> TAKE r \in Regs \ {s}
    <2>1. Agree(r)
      BY <1>5, SplitAgree, SMTT(30)
    <2>2. \A b \in User : mem'[b][r] = mem[b][r]
      BY <1>1, <1>3, SlotFacts, SMTT(30) DEF Area
    <2> QED BY <2>1, <2>2, NotWritten, Zenon
  <1>9. \A r \in Regs \ {s} : Split(r)'
    <2> TAKE r \in Regs \ {s}
    <2>1. Split(r) /\ \A b \in User : mem'[b][r] = mem[b][r]
      BY <1>5, <1>8, SMTT(30)
    <2> QED BY <2>1 DEF Split
  <1>10. \A b \in User : mem'[b][s] = ram'[s] \/ Due(todo'[t], b, s)
    BY <1>1, <1>2, <1>4, <1>5, <1>7, SMTT(30) DEF q
  <1>11. \A r \in Regs \ {s} :
           \/ \A b \in User : mem'[b][r] = ram'[r] \/ Due(todo'[t], b, r)
           \/ Uniform(r)' /\ \A b \in User : ~Due(todo'[t], b, r)
    BY <1>4, <1>5, <1>8, SMTT(30) DEF q
  <1>12. /\ todo'[t] \in Seq(UpInstr)
         /\ \A i \in 1..Len(todo'[t]) : todo'[t][i] = WifiSet => i = Len(todo'[t])
         /\ \A x \in Range(todo'[t]) : x \in Putting /\ x.slot \in Regs => x.val = ram'[x.slot]
    BY AdvanceOps, Zenon
  <1>13. Doing(t)'
    <2> HIDE DEF Putting, UpInstr
    <2>1. \A r \in Regs : Split(r)'
      BY <1>6, <1>9, Zenon
    <2>2. \A r \in Regs : \/ \A b \in User : mem'[b][r] = ram'[r] \/ Due(todo'[t], b, r)
                          \/ Uniform(r)' /\ \A b \in User : ~Due(todo'[t], b, r)
      BY <1>10, <1>11, Zenon
    <2> QED BY <1>12, <2>1, <2>2, Zenon DEF Doing, Due
  <1> QED BY <1>6, <1>8, <1>13, SMTT(30) DEF s

----------------------------------------------------------------------------
(* Steps of ConfRegisters.                                                 *)

SameDisk == \A r \in Regs : Vote(r)' = Vote(r)

AbsStep == Registers!AbsNext \/ UNCHANGED Registers!absVars

LEMMA AbsStutter ==
  ASSUME SameDisk, UNCHANGED <<ram, stage, source>>
  PROVE  AbsStep
  BY Zenon DEF AbsStep, Registers!absVars, SameDisk, Vote

LEMMA AbsUse ==
  ASSUME SameDisk, stage = "up", ram' \in [Regs -> Word], UNCHANGED <<stage, source>>
  PROVE  AbsStep
  BY Zenon DEF AbsStep, Registers!AbsNext, Registers!Use, SameDisk, Vote

LEMMA AbsFill ==
  ASSUME SameDisk, stage # "up", ram' \in [Regs -> Word], stage' # "up", source' = source
  PROVE  AbsStep
  BY Zenon DEF AbsStep, Registers!AbsNext, Registers!Fill, SameDisk, Vote

LEMMA AbsFail ==
  ASSUME SameDisk, ram' \in [Regs -> Word], stage' = "off"
  PROVE  AbsStep
  BY Zenon DEF AbsStep, Registers!AbsNext, Registers!Fail, SameDisk, Vote

LEMMA AbsKeep ==
  ASSUME NEW s \in Regs, Vote(s)' \in {Vote(s), ram[s]},
         \A r \in Regs \ {s} : Vote(r)' = Vote(r), UNCHANGED <<ram, stage, source>>
  PROVE  AbsStep
  <1>1. CASE Vote(s)' = Vote(s)
    BY <1>1, AbsStutter, Zenon DEF SameDisk
  <1>2. CASE Vote(s)' = ram[s]
    <2>1. [r \in Regs |-> CompareRead(r).val]'
            = [[r \in Regs |-> CompareRead(r).val] EXCEPT ![s] = ram[s]]
      BY <1>2, Zenon DEF Vote
    <2> QED BY <2>1, Zenon DEF AbsStep, Registers!AbsNext, Registers!Keep
  <1> QED BY <1>1, <1>2, Zenon

LEMMA AbsRun ==
  ASSUME SameDisk, stage # "up", stage' = "up", source' = source, ram' \in [Regs -> Word],
         \A r \in Regs \ Cleared : ram'[r] = InRange(r, Vote(r))
  PROVE  AbsStep
  BY Zenon DEF AbsStep, Registers!AbsNext, Registers!Run, Registers!Legal, SameDisk, Vote, InRange

----------------------------------------------------------------------------
(* Operations begin.                                                       *)

LEMMA WifiConcat ==
  ASSUME NEW p \in Seq(UpInstr), NEW q \in Seq(UpInstr), WifiSet \notin Range(p),
         \A i \in 1..Len(q) : q[i] = WifiSet => i = Len(q)
  PROVE  \A i \in 1..Len(p \o q) : (p \o q)[i] = WifiSet => i = Len(p \o q)
  <1> HIDE DEF UpInstr
  <1>1. /\ Len(p \o q) = Len(p) + Len(q) /\ Len(p) \in Nat /\ Len(q) \in Nat
        /\ \A i \in 1..Len(p) : (p \o q)[i] = p[i]
        /\ \A i \in 1..Len(q) : (p \o q)[Len(p) + i] = q[i]
    BY ConcatFacts
  <1>2. \A i \in 1..Len(p) : p[i] # WifiSet
    BY RangeIn
  <1> SUFFICES ASSUME NEW i \in 1..Len(p \o q), (p \o q)[i] = WifiSet PROVE i = Len(p \o q)
    OBVIOUS
  <1>3. i > Len(p)
    BY <1>1, <1>2
  <1>4. i - Len(p) \in 1..Len(q) /\ i = Len(p) + (i - Len(p))
    BY <1>1, <1>3
  <1>5. q[i - Len(p)] = WifiSet
    BY <1>1, <1>4, Zenon
  <1>6. i - Len(p) = Len(q)
    BY <1>4, <1>5, Zenon
  <1> QED BY <1>1, <1>6

\* What thread t sets out to do, when it is q.
LEMMA BeginsWith ==
  ASSUME NEW t \in Actors, NEW q \in Seq(UpInstr), todo'[t] = q, mem' = mem,
         \A i \in 1..Len(q) : q[i] = WifiSet => i = Len(q),
         \A w \in Range(q) : w \in Putting /\ w.slot \in Regs => w.val = ram'[w.slot],
         \A r \in Regs : Split(r)',
         \A r \in Regs : \/ \A a \in User : Due(q, a, r)
                         \/ Uniform(r) /\ \A a \in User : ~Due(q, a, r)
  PROVE  Doing(t)'
  <1>1. \A r \in Regs : Uniform(r) => Uniform(r)'
    BY Zenon DEF Uniform
  <1>2. \A a, r : Due(todo'[t], a, r) <=> Due(q, a, r)
    OBVIOUS
  <1> HIDE DEF UpInstr, Putting
  <1> QED BY <1>1, <1>2 DEF Doing, Due

LEMMA FixIs ==
  ASSUME mem \in [Area -> [Slot -> Word]], NEW s \in Slot, ~CompareRead(s).err
  PROVE  /\ Agree(s) /\ CompareRead(s).val \in Word
         /\ CompareRead(s).fix \in Seq(Putting)
         /\ \A w \in Range(CompareRead(s).fix) : w.slot \in {s, Sum}
  <1>1. Agree(s)
    BY Zenon DEF CompareRead, Agree
  <1>2. Vote(s) \in Word
    BY <1>1, VoteWord, Zenon
  <1>3. CASE Uniform(s)
    <2>1. CompareRead(s).fix = <<>>
      BY <1>1, <1>3, Majority, Zenon
    <2>2. <<>> \in Seq(Putting) /\ Range(<<>>) = {}
      BY EmptySeq, RangeIn, Zenon
    <2> QED BY <1>1, <1>2, <2>1, <2>2, Zenon DEF Vote
  <1>4. CASE ~Uniform(s)
    <2>1. PICK o \in User : CompareRead(s).fix = SingleWrite(o, s, Vote(s), mem[o][s])
      BY <1>1, <1>4, Majority, Zenon
    <2> DEFINE q == SingleWrite(o, s, Vote(s), mem[o][s])
               x == Xor(Xor(mem[o][Sum], mem[o][s]), Vote(s))
    <2>2. mem[o][s] \in Word /\ mem[o][Sum] \in Word
      BY SlotFacts, Zenon DEF Area
    <2>3. x \in Word
      BY <1>2, <2>2, XorWord, Zenon
    <2>4. /\ q \in Seq(Putting) /\ q[1] = Put(o, s, Vote(s)) /\ q[2] = Put(o, Sum, x)
          /\ Range(q) = {q[1], q[2]}
      BY <1>2, <2>2, SingleWriteIs
    <2>5. q[1].slot = s /\ q[2].slot = Sum
      BY <1>2, <2>3, <2>4, PutIs, SlotFacts
    <2> HIDE DEF q, x
    <2> QED BY <1>1, <1>2, <2>1, <2>4, <2>5, Zenon DEF Vote, q
  <1> QED BY <1>3, <1>4, Zenon

\* reg_map_write when no register is torn.
LEMMA WriteRegKept ==
  ASSUME KeptInv, stage = "up", NEW t \in Actors, Alone(t), \A s \in Regs : Uniform(s),
         NEW r \in Regs, NEW old \in Word, NEW v \in Word, WriteReg(t, r, old, v)
  PROVE  KeptInv' /\ AbsStep
  <1>1. /\ ram' = [ram EXCEPT ![r] = v]
        /\ UNCHANGED <<scene, mem, flag, stage, source, req, drops>>
    BY Zenon DEF WriteReg
  <1>2. KeptTypeOK
    BY Zenon DEF KeptInv
  <1>3. ram' \in [Regs -> Word] /\ ram'[r] = v
    BY <1>1, <1>2, Zenon DEF KeptTypeOK
  <1>4. PICK q \in Seq(Putting) :
          /\ todo' = [todo EXCEPT ![t] = q]
          /\ \A w \in Range(q) : w.slot \in Regs => w.slot = r /\ w.val = v
          /\ (\A a \in User : Put(a, r, v) \in Range(q)) \/ q = <<>>
    <2> DEFINE c == CompareRead(Sum)
    <2>1. PICK junk \in IF c.val = {} /\ c.fix = <<>> THEN Word ELSE {c.val} :
            todo' = [todo EXCEPT ![t] =
              IF r \in S.ramOnly \/ c.err THEN <<>>
              ELSE c.fix \o TripleWrite(r, v, Xor(Xor(junk, old), v))]
      BY Zenon DEF WriteReg
    <2>2. CASE r \in S.ramOnly \/ c.err
      <3>1. <<>> \in Seq(Putting) /\ Range(<<>>) = {}
        BY EmptySeq, RangeIn, Zenon
      <3> QED BY <2>1, <2>2, <3>1, Zenon
    <2>3. CASE ~(r \in S.ramOnly \/ c.err)
      <3> DEFINE x == Xor(Xor(junk, old), v)
                 u == TripleWrite(r, v, x)
                 f == c.fix
      <3>1. /\ c.val \in Word /\ f \in Seq(Putting)
            /\ \A w \in Range(f) : w.slot \in {Sum}
        BY <1>2, <2>3, FixIs, SlotFacts, Zenon DEF KeptTypeOK
      <3>2. junk \in Word
        BY <2>1, <3>1, Zenon
      <3>3. x \in Word
        BY <3>2, XorWord, Zenon
      <3>4. /\ u \in Seq(Putting)
            /\ \A w \in Range(u) : w.slot \in Regs => w.slot = r /\ w.val = v
            /\ \A a \in User : Put(a, r, v) \in Range(u)
        BY <3>3, TripleIs
      <3>5. todo' = [todo EXCEPT ![t] = f \o u]
        BY <2>1, <2>3, Zenon
      <3> HIDE DEF f, u, x, Putting
      <3>6. f \o u \in Seq(Putting) /\ Range(f \o u) = Range(f) \cup Range(u)
        BY <3>1, <3>4, ConcatFacts
      <3>7. \A w \in Range(f) : w.slot \notin Regs
        BY <3>1, SlotFacts, Zenon
      <3> QED BY <3>4, <3>5, <3>6, <3>7, Zenon
    <2> QED BY <2>2, <2>3, Zenon
  <1>5. q \in Seq(UpInstr) /\ q \in Seq(Instr) /\ Range(q) \subseteq Putting
    BY SeqMonotonic, InstrOps, RangeIn, Zenon
  <1>6. todo' \in [Actors -> Seq(Instr)] /\ todo'[t] = q /\ Alone(t)'
    <2> HIDE DEF Instr, Putting
    <2> QED BY <1>2, <1>4, <1>5, Zenon DEF KeptTypeOK, Alone
  <1>7. WifiSet \notin Range(q)
    BY <1>5, InstrOps, Zenon
  <1>8. \A i \in 1..Len(q) : q[i] = WifiSet => i = Len(q)
    BY <1>4, <1>7, RangeIn
  <1>9. \A s \in Regs : Split(s)'
    BY <1>1, Zenon DEF Uniform, Split
  <1>10. \A s \in Regs : \/ \A a \in User : Due(q, a, s)
                         \/ Uniform(s) /\ \A a \in User : ~Due(q, a, s)
    <2> TAKE s \in Regs
    <2>1. CASE s # r
      BY <1>4, <2>1, Zenon DEF Due
    <2>2. CASE s = r /\ q = <<>>
      BY <2>2, RangeIn, <1>4, Zenon DEF Due
    <2>3. CASE s = r /\ q # <<>>
      <3>1. \A a \in User : Put(a, r, v) \in Putting /\ Put(a, r, v).area = a /\ Put(a, r, v).slot = r
        BY PutIs, SlotFacts
      <3> HIDE DEF Putting
      <3> QED BY <1>4, <2>3, <3>1, Zenon DEF Due
    <2> QED BY <2>1, <2>2, <2>3, Zenon
  <1>11. \A w \in Range(q) : w \in Putting /\ w.slot \in Regs => w.val = ram'[w.slot]
    BY <1>3, <1>4, Zenon
  <1>12. Doing(t)'
    <2> HIDE DEF UpInstr, Putting
    <2>1. mem' = mem
      BY <1>1, Zenon
    <2> QED BY <1>5, <1>6, <1>8, <1>9, <1>10, <1>11, <2>1, BeginsWith, Zenon
  <1>13. SameDisk /\ \A s \in Regs : Agree(s)'
    BY <1>1, NotWritten, Zenon DEF KeptInv, SameDisk
  <1>14. KeptTypeOK'
    BY <1>1, <1>2, <1>3, <1>6, SMTT(30) DEF KeptTypeOK, Quiet, S
  <1>15. KeptInv'
    BY <1>1, <1>6, <1>12, <1>13, <1>14, Zenon DEF KeptInv
  <1>16. AbsStep
    BY <1>1, <1>3, <1>13, AbsUse, Zenon
  <1> QED BY <1>15, <1>16, Zenon

----------------------------------------------------------------------------
(* The steps of a quiet store.                                             *)

LEMMA KeptInit == Init /\ Quiet => KeptInv
  <1> SUFFICES ASSUME Init, Quiet PROVE KeptInv
    OBVIOUS
  <1>1. mem = Provisioned /\ flag = "USR"
    BY Zenon DEF Init, Quiet
  <1>2. Provisioned \in [Area -> [Slot -> Word]]
    BY RangeAssumption, ChecksumWord, SlotFacts, Zenon DEF Provisioned
  <1>3. \A r \in Regs : Agree(r)
    BY <1>1, SlotFacts DEF Provisioned, Agree, Area, User
  <1>4. ram \in [Regs -> Word]
    BY Zenon DEF Init, Word
  <1>5. todo \in [Actors -> Seq(Instr)] /\ \A t \in Actors : todo[t] = <<>>
    BY EmptySeq, Zenon DEF Init
  <1>6. KeptTypeOK
    BY <1>1, <1>2, <1>4, <1>5, Zenon DEF Init, KeptTypeOK
  <1> QED BY <1>3, <1>5, <1>6, Zenon DEF KeptInv, Init

LEMMA DownKept ==
  ASSUME KeptInv, Down
  PROVE  KeptInv' /\ AbsStep
  <1>1. KeptTypeOK
    BY Zenon DEF KeptInv
  <1>2. ram' \in [Regs -> Word]
    BY Zenon DEF Down, Word
  <1>3. todo' \in [Actors -> Seq(Instr)] /\ \A t \in Actors : todo'[t] = <<>>
    BY EmptySeq, Zenon DEF Down
  <1>4. KeptTypeOK' /\ stage' = "off"
    BY <1>1, <1>2, <1>3, Zenon DEF KeptTypeOK, Down, Quiet, S
  <1>5. SameDisk /\ \A s \in Regs : Agree(s)'
    BY NotWritten, Zenon DEF KeptInv, SameDisk, Down
  <1>6. KeptInv'
    BY <1>3, <1>4, <1>5, Zenon DEF KeptInv
  <1> QED BY <1>2, <1>4, <1>5, <1>6, AbsFail, Zenon

LEMMA PowerOnKept ==
  ASSUME KeptInv, PowerOn
  PROVE  /\ KeptInv' /\ AbsStep /\ mem' = mem /\ scene' = scene /\ stage' = "boot"
         /\ Booting(todo["init"], 0, 0)'
  <1>1. KeptTypeOK
    BY Zenon DEF KeptInv
  <1>2. source' = "USR"
    BY <1>1, Zenon DEF PowerOn, KeptTypeOK, Quiet
  <1>3. /\ stage = "off" /\ stage' = "boot"
        /\ todo' = [todo EXCEPT !["init"] = StartProgram(source')]
        /\ UNCHANGED <<scene, mem, flag, ram, req, drops>>
    BY Zenon DEF PowerOn
  <1>4. PICK q \in Seq(Instr) : /\ q = StartProgram("USR") /\ Len(q) = NumRegs + 1
                                /\ \A i \in 1..NumRegs : q[i] = Load(i - 1)
                                /\ q[NumRegs + 1] = GoUp
    BY StartIs, Zenon
  <1>5. /\ todo' \in [Actors -> Seq(Instr)] /\ todo'["init"] = q
        /\ \A t \in Actors \ {"init"} : todo'[t] = <<>>
    <2>1. \A t \in Actors : todo[t] = <<>>
      BY <1>3, Zenon DEF KeptInv
    <2> HIDE DEF Instr
    <2> QED BY <1>1, <1>2, <1>3, <1>4, <2>1, Zenon DEF KeptTypeOK, Actors
  <1>6. Booting(todo["init"], 0, 0)'
    <2>1. NumRegs \in Nat \ {0}
      BY RegsAssumption, Zenon
    <2> QED BY <1>4, <1>5, <2>1 DEF Booting
  <1>7. SameDisk /\ \A s \in Regs : Agree(s)'
    BY <1>3, NotWritten, Zenon DEF KeptInv, SameDisk
  <1>8. KeptTypeOK'
    BY <1>1, <1>2, <1>3, <1>5, Zenon DEF KeptTypeOK, Quiet, S
  <1>9. 0 \in 0..NumRegs /\ 0 \in 0..2
    BY RegsAssumption
  <1>10. KeptInv'
    BY <1>3, <1>5, <1>6, <1>7, <1>8, <1>9, Zenon DEF KeptInv, Alone
  <1>11. AbsStep
    BY <1>1, <1>2, <1>3, <1>7, AbsFill, Zenon DEF KeptTypeOK
  <1> QED BY <1>3, <1>6, <1>10, <1>11, Zenon

LEMMA NoneDue == \A a, r : ~Due(<<>>, a, r)
  BY RangeIn, EmptySeq, Zenon DEF Due

\* With nothing under way, no register is torn.
LEMMA IdleUniform ==
  ASSUME KeptInv, stage = "up", \A t \in Actors : todo[t] = <<>>
  PROVE  \A r \in Regs : Uniform(r)
  <1>1. PICK t \in Actors : Doing(t)
    BY Zenon DEF KeptInv
  <1>2. todo[t] = <<>>
    OBVIOUS
  <1> QED BY <1>1, <1>2, NoneDue DEF Doing, Uniform

LEMMA PadWriteKept ==
  ASSUME KeptInv, PadWrite
  PROVE  KeptInv' /\ AbsStep
  <1>1. Free("pad") /\ "pad" \in Actors /\ stage = "up" /\ \A s \in Actors : todo[s] = <<>>
    BY Zenon DEF PadWrite, Free, Actors, Threads
  <1>2. PICK r \in Regs : \E v \in Valid[r] : WriteReg("pad", r, ram[r], v)
    BY Zenon DEF PadWrite
  <1> PICK v \in Valid[r] : WriteReg("pad", r, ram[r], v)
    BY <1>2, Zenon
  <1>3. v \in Word /\ ram[r] \in Word
    BY <1>2, RangeAssumption, Zenon DEF KeptInv, KeptTypeOK
  <1>4. Alone("pad") /\ \A s \in Regs : Uniform(s)
    BY <1>1, IdleUniform, Zenon DEF Alone
  <1> QED BY <1>1, <1>2, <1>3, <1>4, WriteRegKept, Zenon

LEMMA CoreWriteKept ==
  ASSUME KeptInv, CoreWrite
  PROVE  KeptInv' /\ AbsStep
  <1>1. Free("core") /\ "core" \in Actors /\ stage = "up" /\ \A s \in Actors : todo[s] = <<>>
    BY Zenon DEF CoreWrite, Free, Actors, Threads
  <1>2. PICK r \in CoreRegs : WriteReg("core", r, {}, {})
    BY Zenon DEF CoreWrite
  <1>3. r \in Regs /\ {} \in Word
    BY <1>2, RegsAssumption, Zenon DEF Word
  <1>4. Alone("core") /\ \A s \in Regs : Uniform(s)
    BY <1>1, IdleUniform, Zenon DEF Alone
  <1> QED BY <1>1, <1>2, <1>3, <1>4, WriteRegKept, Zenon

LEMMA SaveThen ==
  ASSUME NEW u \in Seq(UpInstr), \A i \in 1..Len(u) : i = Len(u), Range(u) \subseteq {WifiSet}
  PROVE  LET q == <<Save(FALSE)>> \o u IN
         /\ q \in Seq(UpInstr) /\ Range(q) \subseteq {Save(FALSE), WifiSet}
         /\ \A i \in 1..Len(q) : q[i] = WifiSet => i = Len(q)
  <1>1. Save(FALSE) \in UpInstr /\ Save(FALSE) # WifiSet
    BY InstrOps, Zenon DEF Save, WifiSet
  <1> HIDE DEF UpInstr
  <1>2. PICK p \in Seq(UpInstr) : p = <<Save(FALSE)>> /\ Range(p) = {Save(FALSE)}
    BY <1>1, OneElement, Zenon
  <1>3. p \o u \in Seq(UpInstr) /\ Range(p \o u) = Range(p) \cup Range(u)
    BY ConcatFacts
  <1>4. \A i \in 1..Len(p \o u) : (p \o u)[i] = WifiSet => i = Len(p \o u)
    BY <1>1, <1>2, WifiConcat, Zenon
  <1> QED BY <1>2, <1>3, <1>4, Zenon

LEMMA MultiWriteKept ==
  ASSUME KeptInv, MultiWrite
  PROVE  KeptInv' /\ AbsStep
  <1>1. "pad" \in Actors /\ stage = "up" /\ \A s \in Actors : todo[s] = <<>>
    BY Zenon DEF MultiWrite, Free, Actors, Threads
  <1>2. PICK img \in S.images, lo \in Regs, hi \in Regs, then \in {<<>>, <<WifiSet>>} :
          /\ ram' = [r \in Regs |-> IF r \in lo..hi THEN img[r] ELSE ram[r]]
          /\ todo' = [todo EXCEPT !["pad"] = <<Save(FALSE)>> \o then]
    BY Zenon DEF MultiWrite
  <1>3. UNCHANGED <<scene, mem, flag, stage, source, req, drops>>
    BY Zenon DEF MultiWrite
  <1>4. KeptTypeOK
    BY Zenon DEF KeptInv
  <1>5. img \in [Regs -> Word]
    BY <1>4, ScenarioAssumption, Zenon DEF KeptTypeOK, S, Scenario
  <1>6. ram' \in [Regs -> Word]
    BY <1>2, <1>4, <1>5, Zenon DEF KeptTypeOK
  <1> DEFINE q == <<Save(FALSE)>> \o then
  <1>7. /\ q \in Seq(UpInstr) /\ Range(q) \subseteq {Save(FALSE), WifiSet}
        /\ \A i \in 1..Len(q) : q[i] = WifiSet => i = Len(q)
    <2>1. WifiSet \in UpInstr
      BY InstrOps, Zenon
    <2> HIDE DEF UpInstr
    <2>2. /\ then \in Seq(UpInstr) /\ (\A i \in 1..Len(then) : i = Len(then))
          /\ Range(then) \subseteq {WifiSet}
      <3>1. CASE then = <<>>
        <4>1. <<>> \in Seq(UpInstr) /\ Len(<<>>) = 0 /\ Range(<<>>) = {}
          BY <2>1, OneElement, Zenon
        <4>2. \A i \in 1..0 : i = 0
          OBVIOUS
        <4> QED BY <3>1, <4>1, <4>2, Zenon
      <3>2. CASE then = <<WifiSet>>
        <4>1. <<WifiSet>> \in Seq(UpInstr) /\ Len(<<WifiSet>>) = 1 /\ Range(<<WifiSet>>) = {WifiSet}
          BY <2>1, OneElement, Zenon
        <4>2. \A i \in 1..1 : i = 1
          OBVIOUS
        <4> QED BY <3>2, <4>1, <4>2, Zenon
      <3> QED BY <3>1, <3>2, Zenon
    <2> QED BY <2>2, SaveThen, Zenon
  <1>8. \A w \in Range(q) : w \notin Putting
    BY <1>7, InstrOps, Zenon DEF Save, WifiSet
  <1> HIDE DEF q
  <1>9. q \in Seq(Instr)
    BY <1>7, SeqMonotonic, InstrOps, Zenon
  <1>10. /\ todo' \in [Actors -> Seq(Instr)] /\ todo'["pad"] = q /\ Alone("pad")'
    <2> HIDE DEF Instr
    <2> QED BY <1>1, <1>2, <1>4, <1>9, Zenon DEF KeptTypeOK, Alone, q
  <1>11. \A r \in Regs : Uniform(r)
    BY <1>1, IdleUniform, Zenon
  <1>12. \A r \in Regs : Split(r)'
    BY <1>3, <1>11, Zenon DEF Uniform, Split
  <1>13. \A r \in Regs, a \in User : ~Due(q, a, r)
    BY <1>8, Zenon DEF Due
  <1>14. Doing("pad")'
    <2> HIDE DEF UpInstr, Putting
    <2> QED BY <1>1, <1>3, <1>7, <1>8, <1>10, <1>11, <1>12, <1>13, BeginsWith, Zenon
  <1>15. SameDisk /\ \A s \in Regs : Agree(s)'
    BY <1>3, NotWritten, Zenon DEF KeptInv, SameDisk
  <1>16. KeptTypeOK'
    BY <1>3, <1>4, <1>6, <1>10, Zenon DEF KeptTypeOK, Quiet, S
  <1>17. KeptInv'
    BY <1>1, <1>3, <1>10, <1>14, <1>15, <1>16, SMTT(30) DEF KeptInv
  <1>18. AbsStep
    BY <1>1, <1>3, <1>6, <1>15, AbsUse, Zenon
  <1> QED BY <1>17, <1>18, Zenon
=============================================================================
