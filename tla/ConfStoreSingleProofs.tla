----------------------- MODULE ConfStoreSingleProofs -----------------------
(***************************************************************************)
(* For every number of registers, width of a word, range and default:      *)
(* without multiple writes an idle store has in the EEPROM what is in use, *)
(* and its checksums have a majority.  With them both are false, see       *)
(* README.md.                                                              *)
(*                                                                         *)
(* SingleInv says, on top of KeptInv, that a register and the checksums    *)
(* are never torn together: eeprom_tripple_write first repairs the         *)
(* checksums, then writes the three copies of the register and then the    *)
(* three checksums, and so a start finds one thing to repair.              *)
(***************************************************************************)
EXTENDS ConfStoreProofs

OneByOne == Quiet /\ S.images = {}

\* No two registers are torn at once, and none is while the checksums are.
Whole ==
  /\ Agree(Sum)
  /\ Uniform(Sum) \/ \A r \in Regs : Uniform(r)
  /\ \A r, s \in Regs : r = s \/ Uniform(r) \/ Uniform(s)

\* Writing v to register r, the checksum being repaired to c in area o first
\* and x in the end: the i-th of the eight words.
Plan(i, o, c, r, v, x) ==
  IF i <= 2 THEN Put(o, Sum, c) ELSE IF i <= 5 THEN Put(i - 2, r, v) ELSE Put(i - 5, Sum, x)

\* Thread t has done j of the eight.
Writing(t, j, o, c, r, x) ==
  /\ Len(todo[t]) = 8 - j
  /\ \A i \in 1..(8 - j) : todo[t][i] = Plan(i + j, o, c, r, ram[r], x)
  /\ \A a \in User :
       /\ j >= 5 => mem[a][Sum] = IF a <= j - 5 THEN x ELSE c
       /\ j < 5 /\ (j > 0 \/ a # o) => mem[a][Sum] = c
       /\ a <= j - 2 => mem[a][r] = ram[r]
       /\ \A b \in User : a > j - 2 /\ b > j - 2 => mem[a][r] = mem[b][r]
  /\ \A s \in Regs \ {r} : Uniform(s)

\* What is in use of register r is what the next start loads.
Safe(r) == r \in Cleared \/ InRange(r, mem[1][r]) = InRange(r, ram[r])

\* Of a start: the repairs left are those of one register and its checksum.
Repairing(q, n, k) ==
  /\ Booting(q, n, k)
  /\ k > 0 => q[k].slot = Sum /\ Uniform(Sum)
  /\ k = 1 => \A r \in Regs : Uniform(r)
  /\ k = 2 => q[1].slot \in 0..(n - 1) /\ \A r \in Regs \ {q[1].slot} : Uniform(r)

\* Nothing is under way; thread t is writing register r.
Settled == (\A t \in Actors : todo[t] = <<>>) /\ \A r \in Regs : Uniform(r) /\ Safe(r)
Changing(t, r) ==
  /\ Alone(t) /\ \A s \in Regs \ {r} : Safe(s)
  /\ \E j \in 0..7, o \in User, c \in Word, x \in Word : Writing(t, j, o, c, r, x)

\* The inductive invariant of a store with single writes, on top of KeptInv.
SingleInv ==
  /\ OneByOne /\ Whole
  /\ stage = "boot" => \E n \in 0..NumRegs, k \in 0..2 : Repairing(todo["init"], n, k)
  /\ stage = "up" => Settled \/ \E t \in Actors, r \in Regs : Changing(t, r)

----------------------------------------------------------------------------
LEMMA WholeSame ==
  ASSUME Whole, mem' = mem
  PROVE  Whole'
  BY DEF Whole, Agree, Uniform

LEMMA PlanIs ==
  ASSUME NEW i \in 1..8, NEW o \in User, NEW c \in Word, NEW r \in Regs, NEW v \in Word, NEW x \in Word
  PROVE  LET w == Plan(i, o, c, r, v, x) IN
         /\ w \in Putting /\ w.op = "put"
         /\ i <= 2 => w.area = o /\ w.slot = Sum /\ w.val = c
         /\ i > 2 /\ i <= 5 => w.area = i - 2 /\ w.slot = r /\ w.val = v
         /\ i > 5 => w.area = i - 5 /\ w.slot = Sum /\ w.val = x
  <1>1. CASE i <= 2
    <2>1. Plan(i, o, c, r, v, x) = Put(o, Sum, c)
      BY <1>1, Zenon DEF Plan
    <2> QED BY <1>1, <2>1, SlotFacts DEF Put, Putting
  <1>2. CASE i > 2 /\ i <= 5
    <2>1. Plan(i, o, c, r, v, x) = Put(i - 2, r, v) /\ i - 2 \in User
      BY <1>2 DEF Plan, User
    <2> QED BY <1>2, <2>1, SlotFacts DEF Put, Putting
  <1>3. CASE i > 5
    <2>1. Plan(i, o, c, r, v, x) = Put(i - 5, Sum, x) /\ i - 5 \in User
      BY <1>3 DEF Plan, User
    <2> QED BY <1>3, <2>1, SlotFacts DEF Put, Putting
  <1> QED BY <1>1, <1>2, <1>3

\* While a register is written, it and the checksums are not torn together.
LEMMA WritingWholeNext ==
  ASSUME NEW t, NEW j \in 0..7, NEW o \in User, NEW c, NEW r \in Regs, NEW x,
         Writing(t, j, o, c, r, x)'
  PROVE  Whole'
  <1>1. User = {1, 2, 3}
    BY DEF User
  <1>2. \A s \in Regs \ {r} : Uniform(s)'
    BY Zenon DEF Writing
  <1>3. CASE j = 0
    <2>1. \A a \in User \ {o} : mem'[a][Sum] = c
      BY <1>3 DEF Writing
    <2>2. Agree(Sum)'
      BY <1>1, <2>1, Zenon DEF Agree
    <2>3. \A a, b \in User : a > j - 2 /\ b > j - 2
      BY <1>1, <1>3
    <2>4. Uniform(r)'
      BY <2>3, Zenon DEF Writing, Uniform
    <2> QED BY <1>2, <2>2, <2>4, Zenon DEF Whole
  <1>4. CASE j > 0 /\ j < 5
    <2>1. \A a \in User : mem'[a][Sum] = c
      BY <1>4, Zenon DEF Writing
    <2>2. Agree(Sum)' /\ Uniform(Sum)'
      BY <1>1, <2>1, Zenon DEF Agree, Uniform
    <2> QED BY <1>2, <2>2, Zenon DEF Whole
  <1>5. CASE j >= 5
    <2>1. \A a \in User : mem'[a][Sum] = IF a <= j - 5 THEN x ELSE c
      BY <1>5, Zenon DEF Writing
    <2>2. Agree(Sum)'
      BY <1>1, <2>1, Zenon DEF Agree
    <2>3. \A a \in User : a <= j - 2
      BY <1>1, <1>5
    <2>4. Uniform(r)'
      BY <2>3, Zenon DEF Writing, Uniform
    <2> QED BY <1>2, <2>2, <2>4, Zenon DEF Whole
  <1> QED BY <1>3, <1>4, <1>5

\* The next of the eight words is written.
LEMMA WritingNext ==
  ASSUME KeptTypeOK, NEW t \in Actors, NEW j \in 0..7, NEW o \in User, NEW c \in Word, NEW r \in Regs,
         NEW x \in Word, Writing(t, j, o, c, r, x), WriteWord(t)
  PROVE  /\ ram' = ram
         /\ \A s \in Regs \ {r} : Uniform(s)' /\ mem'[1][s] = mem[1][s]
         /\ j < 7 => Writing(t, j + 1, o, c, r, x)'
         /\ j = 7 => /\ todo'[t] = <<>>
                     /\ \A a \in User : mem'[a][Sum] = x /\ mem'[a][r] = ram[r]
  <1> PICK q : q = todo[t]
    OBVIOUS
  <1>1. /\ q \in Seq(Instr) /\ Len(q) = 8 - j /\ q # <<>> /\ Done(t) /\ ram' = ram
        /\ \A i \in 1..(8 - j) : q[i] = Plan(i + j, o, c, r, ram[r], x)
    BY Zenon DEF KeptTypeOK, Writing, WriteWord, At
  <1>2. ram[r] \in Word /\ mem \in [Area -> [Slot -> Word]] /\ User \subseteq Area
    BY Zenon DEF KeptTypeOK, Area
  <1>3. /\ todo'[t] = Tail(q) /\ Head(q) = q[1] /\ Len(Tail(q)) = Len(q) - 1
        /\ Tail(q) \in Seq(Instr)
        /\ \A i \in 1..(Len(q) - 1) : Tail(q)[i] = q[i + 1]
    <2> HIDE DEF Instr
    <2>1. todo'[t] = Tail(q)
      BY <1>1, DoneList, Zenon DEF KeptTypeOK
    <2> QED BY <1>1, <2>1, TailFacts, Zenon
  <1>4. PICK w : w = q[1]
    OBVIOUS
  <1>5. /\ w \in Putting /\ w.op = "put"
        /\ j <= 1 => w.area = o /\ w.slot = Sum /\ w.val = c
        /\ j > 1 /\ j <= 4 => w.area = j - 1 /\ w.slot = r /\ w.val = ram[r]
        /\ j > 4 => w.area = j - 4 /\ w.slot = Sum /\ w.val = x
    <2>1. w = Plan(1 + j, o, c, r, ram[r], x) /\ 1 + j \in 1..8
      <3>1. 1 \in 1..(8 - j)
        OBVIOUS
      <3> QED BY <1>1, <1>4, <3>1
    <2> HIDE DEF Putting
    <2> QED BY <1>2, <2>1, PlanIs, SMTT(30)
  <1>6. mem' = [mem EXCEPT ![w.area][w.slot] = w.val]
    BY <1>1, <1>3, <1>4, <1>5, ZenonT(30) DEF WriteWord
  <1>7. \A a \in User, s \in Slot :
          mem'[a][s] = IF a = w.area /\ s = w.slot THEN w.val ELSE mem[a][s]
    BY <1>2, <1>6, Zenon
  <1>8. Sum # r /\ Sum \in Slot /\ r \in Slot /\ \A s \in Regs : s # Sum /\ s \in Slot
    BY SlotFacts, Zenon
  <1>9. User = {1, 2, 3}
    BY DEF User
  <1>10. \A s \in Regs \ {r} : \A a \in User : mem'[a][s] = mem[a][s]
    BY <1>5, <1>7, <1>8
  <1>11. \A s \in Regs \ {r} : Uniform(s)' /\ mem'[1][s] = mem[1][s]
    BY <1>9, <1>10, NotWritten, Zenon DEF Writing
  <1>12. \A a \in User :
           /\ j >= 5 => mem[a][Sum] = IF a <= j - 5 THEN x ELSE c
           /\ j < 5 /\ (j > 0 \/ a # o) => mem[a][Sum] = c
           /\ a <= j - 2 => mem[a][r] = ram[r]
           /\ \A b \in User : a > j - 2 /\ b > j - 2 => mem[a][r] = mem[b][r]
    BY Zenon DEF Writing
  <1>13. CASE j < 7
    <2>1. /\ Len(todo'[t]) = 8 - (j + 1)
          /\ \A i \in 1..(8 - (j + 1)) : todo'[t][i] = Plan(i + (j + 1), o, c, r, ram'[r], x)
      <3>1. Len(todo'[t]) = 8 - (j + 1)
        BY <1>1, <1>3
      <3>2. ASSUME NEW i \in 1..(8 - (j + 1))
            PROVE  todo'[t][i] = Plan(i + (j + 1), o, c, r, ram'[r], x)
        <4>1. i \in 1..(Len(q) - 1) /\ i + 1 \in 1..(8 - j) /\ (i + 1) + j = i + (j + 1)
          BY <1>1
        <4>2. todo'[t][i] = q[i + 1]
          BY <1>3, <4>1, Zenon
        <4>3. q[i + 1] = Plan((i + 1) + j, o, c, r, ram[r], x)
          BY <1>1, <4>1, ZenonT(30)
        <4> QED BY <1>1, <4>1, <4>2, <4>3, Zenon
      <3> QED BY <3>1, <3>2, Zenon
    <2>2. ASSUME NEW a \in User
          PROVE  /\ j + 1 >= 5 => mem'[a][Sum] = IF a <= (j + 1) - 5 THEN x ELSE c
                 /\ j + 1 < 5 /\ (j + 1 > 0 \/ a # o) => mem'[a][Sum] = c
                 /\ a <= (j + 1) - 2 => mem'[a][r] = ram'[r]
                 /\ \A b \in User : a > (j + 1) - 2 /\ b > (j + 1) - 2 => mem'[a][r] = mem'[b][r]
      <3>1. CASE j <= 1
        <4>1. \A b \in User : mem'[b][Sum] = c
          BY <1>5, <1>7, <1>8, <1>12, <3>1
        <4>2. \A b \in User : mem'[b][r] = mem[b][r]
          BY <1>5, <1>7, <1>8, <3>1, Zenon
        <4>3. \A b \in User : b > j - 2 /\ ~(b <= (j + 1) - 2)
          BY <1>9, <3>1
        <4> QED BY <1>12, <3>1, <4>1, <4>2, <4>3, SMTT(30)
      <3>2. CASE j > 1 /\ j <= 4
        <4>1. \A b \in User : mem'[b][Sum] = c /\ mem'[b][r] = IF b = j - 1 THEN ram[r] ELSE mem[b][r]
          BY <1>5, <1>7, <1>8, <1>12, <3>2, SMTT(30)
        <4> QED BY <1>1, <1>9, <1>12, <3>2, <4>1, SMTT(30)
      <3>3. CASE j > 4
        <4>1. \A b \in User : /\ mem'[b][Sum] = (IF b = j - 4 THEN x ELSE mem[b][Sum])
                              /\ mem'[b][r] = mem[b][r]
          BY <1>5, <1>7, <1>8, <3>3, SMTT(30)
        <4> QED BY <1>1, <1>9, <1>12, <3>3, <4>1, SMTT(30)
      <3> QED BY <3>1, <3>2, <3>3
    <2>3. Writing(t, j + 1, o, c, r, x)'
      BY <1>11, <2>1, <2>2, ZenonT(30) DEF Writing
    <2> QED BY <1>1, <1>11, <1>13, <2>3
  <1>14. CASE j = 7
    <2>1. todo'[t] = <<>>
      <3>1. Len(Tail(q)) = 0
        BY <1>1, <1>3, <1>14, SMTT(30)
      <3> HIDE DEF Instr
      <3> QED BY <1>3, <3>1, EmptySeq, ZenonT(30)
    <2>2. ASSUME NEW a \in User PROVE mem'[a][Sum] = x /\ mem'[a][r] = ram[r]
      <3>1. w.area = 3 /\ w.slot = Sum /\ w.val = x
        BY <1>5, <1>14
      <3>2. a <= j - 2 /\ (a # 3 => a <= j - 5)
        BY <1>9, <1>14
      <3> QED BY <1>7, <1>8, <1>12, <1>14, <3>1, <3>2, SMTT(30)
    <2> QED BY <1>1, <1>11, <1>14, <2>1, <2>2
  <1> QED BY <1>13, <1>14

LEMMA InRangeTwice == \A r \in Regs : \A v : InRange(r, InRange(r, v)) = InRange(r, v)
  BY RangeAssumption, Zenon DEF InRange

\* A register is given a new value, the store being settled.
LEMMA WriteRegSingle ==
  ASSUME KeptInv, SingleInv, stage = "up", Settled, NEW t \in Actors,
         NEW r \in Regs, NEW old \in Word, NEW v \in Word, WriteReg(t, r, old, v)
  PROVE  SingleInv'
  <1>1. /\ KeptTypeOK /\ mem \in [Area -> [Slot -> Word]] /\ ram \in [Regs -> Word]
        /\ todo \in [Actors -> Seq(Instr)] /\ OneByOne /\ Whole /\ Agree(Sum) /\ Sum \in Slot
    BY SlotFacts, Zenon DEF KeptInv, KeptTypeOK, SingleInv, Whole
  <1>2. /\ ram' = [ram EXCEPT ![r] = v]
        /\ UNCHANGED <<scene, mem, flag, stage, source, req, drops>>
    BY Zenon DEF WriteReg
  <1>3. Whole' /\ OneByOne' /\ stage' = "up"
    BY <1>1, <1>2, WholeSame, ZenonT(30) DEF OneByOne, Quiet, S
  <1>4. /\ \A s \in Regs : Uniform(s)'
        /\ \A s \in Regs \ {r} : Safe(s)'
        /\ ram'[r] = v
    BY <1>1, <1>2, Zenon DEF Settled, Uniform, Safe
  <1>5. \A s \in Actors : todo[s] = <<>>
    BY Zenon DEF Settled
  <1>6. ~CompareRead(Sum).err
    BY <1>1, Majority, Zenon
  <1>7. PICK junk \in Word :
          todo' = [todo EXCEPT ![t] =
            IF r \in S.ramOnly \/ CompareRead(Sum).err THEN <<>>
            ELSE CompareRead(Sum).fix \o TripleWrite(r, v, Xor(Xor(junk, old), v))]
    <2>1. CompareRead(Sum).val \in Word
      BY <1>1, VoteWord, Zenon DEF Vote
    <2> QED BY <2>1, Zenon DEF WriteReg
  <1>8. PICK x \in Word : x = Xor(Xor(junk, old), v)
    BY XorWord, Zenon
  <1>9. CASE r \in S.ramOnly
    <2>1. \A s \in Actors : todo'[s] = <<>>
      BY <1>1, <1>5, <1>7, <1>9
    <2>2. S.ramOnly \subseteq Cleared
      BY <1>1, ScenarioAssumption, Zenon DEF KeptTypeOK, S, Scenario
    <2>3. Safe(r)'
      BY <1>9, <2>2, Zenon DEF Safe
    <2>4. Settled'
      BY <1>4, <2>1, <2>3, ZenonT(30) DEF Settled
    <2> QED BY <1>3, <2>4, ZenonT(30) DEF SingleInv
  <1>10. CASE r \notin S.ramOnly
    <2> PICK f : f = CompareRead(Sum).fix
      OBVIOUS
    <2> PICK p : p = TripleWrite(r, v, x)
      OBVIOUS
    <2>1. todo'[t] = f \o p /\ \A s \in Actors \ {t} : todo'[s] = <<>>
      BY <1>1, <1>5, <1>6, <1>7, <1>8, <1>10, ZenonT(30)
    <2>2. /\ p \in Seq(Putting) /\ Len(p) = 6
          /\ \A i \in 1..6 : p[i] = IF i <= 3 THEN Put(i, r, v) ELSE Put(i - 3, Sum, x)
      BY TripleIs
    <2>3. Alone(t)'
      BY <2>1, Zenon DEF Alone
    <2>4. \A a, b \in User : mem'[a][r] = mem'[b][r]
      BY <1>4, Zenon DEF Uniform
    <2>5. CASE Uniform(Sum)
      <3> PICK c : c = mem[1][Sum]
        OBVIOUS
      <3>1. f = <<>>
        BY <1>1, <2>5, Majority, ZenonT(30)
      <3>2. f \o p = p
        <4> HIDE DEF Putting
        <4> QED BY <2>2, <3>1
      <3>3. ASSUME NEW i \in 1..(8 - 2) PROVE todo'[t][i] = Plan(i + 2, 1, c, r, ram'[r], x)
        <4>1. todo'[t][i] = IF i <= 3 THEN Put(i, r, v) ELSE Put(i - 3, Sum, x)
          BY <2>1, <2>2, <3>2
        <4>2. ~(i + 2 <= 2) /\ (i + 2 <= 5 <=> i <= 3) /\ (i + 2) - 2 = i /\ (i + 2) - 5 = i - 3
          OBVIOUS
        <4> QED BY <1>4, <4>1, <4>2, ZenonT(30) DEF Plan
      <3>4. \A a \in User : mem'[a][Sum] = c
        BY <1>2, <2>5 DEF Uniform, User
      <3>5. Len(todo'[t]) = 8 - 2 /\ \A a \in User : ~(a <= 2 - 2)
        BY <2>1, <2>2, <3>2, SMTT(30) DEF User
      <3>6. Writing(t, 2, 1, c, r, x)'
        BY <1>2, <1>4, <2>4, <3>3, <3>4, <3>5, SMTT(30) DEF Writing
      <3>7. 2 \in 0..7 /\ 1 \in User /\ c \in Word
        BY <1>1 DEF User, Area
      <3>8. Changing(t, r)'
        BY <1>4, <2>3, <3>6, <3>7, Zenon DEF Changing
      <3> QED BY <1>3, <3>8, Zenon DEF SingleInv
    <2>6. CASE ~Uniform(Sum)
      <3> PICK c : c = Vote(Sum)
        OBVIOUS
      <3>1. PICK o \in User : /\ f = SingleWrite(o, Sum, c, mem[o][Sum])
                              /\ \A a \in User \ {o} : mem[a][Sum] = c
        BY <1>1, <2>6, Majority, Zenon
      <3>2. c \in Word /\ mem[o][Sum] \in Word
        BY <1>1, VoteWord, Zenon DEF Area
      <3>3. Xor(Xor(mem[o][Sum], mem[o][Sum]), c) = c
        BY ZenonT(30) DEF Xor
      <3>4. f \in Seq(Putting) /\ Len(f) = 2 /\ f[1] = Put(o, Sum, c) /\ f[2] = Put(o, Sum, c)
        <4> HIDE DEF Putting
        <4> QED BY <1>1, <3>1, <3>2, <3>3, SingleWriteIs, SMTT(30)
      <3>5. /\ Len(f \o p) = 8
            /\ \A i \in 1..2 : (f \o p)[i] = f[i]
            /\ \A i \in 1..6 : (f \o p)[2 + i] = p[i]
        <4> HIDE DEF Putting
        <4>1. /\ Len(f \o p) = Len(f) + Len(p)
              /\ \A i \in 1..Len(f) : (f \o p)[i] = f[i]
              /\ \A i \in 1..Len(p) : (f \o p)[Len(f) + i] = p[i]
          <5>1. f \in Seq(Putting) /\ p \in Seq(Putting)
            BY <2>2, <3>4, Zenon
          <5> QED BY <5>1, Joined, SMTT(30)
        <4>2. Len(f) = 2 /\ Len(p) = 6 /\ 2 + 6 = 8
          BY <2>2, <3>4
        <4> QED BY <4>1, <4>2, Zenon
      <3>6. ASSUME NEW i \in 1..(8 - 0) PROVE todo'[t][i] = Plan(i + 0, o, c, r, ram'[r], x)
        <4>1. CASE i <= 2
          <5>1. (f \o p)[i] = f[i] /\ f[i] = Put(o, Sum, c)
            BY <3>4, <3>5, <4>1, SMTT(30)
          <5> QED BY <2>1, <4>1, <5>1 DEF Plan
        <4>2. CASE i > 2
          <5>1. i - 2 \in 1..6 /\ 2 + (i - 2) = i /\ (i - 2) - 3 = i - 5 /\ (i - 2 <= 3 <=> i <= 5)
            BY <4>2
          <5>2. (f \o p)[i] = p[i - 2]
            BY <3>5, <5>1, ZenonT(30)
          <5>3. p[i - 2] = IF i <= 5 THEN Put(i - 2, r, v) ELSE Put(i - 5, Sum, x)
            BY <2>2, <5>1, SMTT(30)
          <5> QED BY <1>4, <2>1, <4>2, <5>2, <5>3, SMTT(30) DEF Plan
        <4> QED BY <4>1, <4>2
      <3>7. Len(todo'[t]) = 8 - 0 /\ \A a \in User : ~(a <= 0 - 2)
        BY <2>1, <3>5, SMTT(30) DEF User
      <3>8. Writing(t, 0, o, c, r, x)'
        BY <1>2, <1>4, <2>4, <3>1, <3>6, <3>7, SMTT(30) DEF Writing
      <3>9. 0 \in 0..7
        OBVIOUS
      <3>10. Changing(t, r)'
        BY <1>4, <2>3, <3>2, <3>8, <3>9, ZenonT(30) DEF Changing
      <3> QED BY <1>3, <3>10, Zenon DEF SingleInv
    <2> QED BY <2>5, <2>6, Zenon
  <1> QED BY <1>9, <1>10, Zenon

\* Before a thread begins, the store is settled.
LEMMA FreeSettled ==
  ASSUME SingleInv, stage = "up", \A t \in Actors : todo[t] = <<>>
  PROVE  Settled
  <1>1. ASSUME NEW t \in Actors, NEW r \in Regs, Changing(t, r) PROVE FALSE
    <2>1. PICK j \in 0..7 : Len(todo[t]) = 8 - j
      BY <1>1, Zenon DEF Changing, Writing
    <2>2. Len(todo[t]) = 0
      BY EmptySeq, Zenon
    <2> QED BY <2>1, <2>2
  <1> QED BY <1>1, Zenon DEF SingleInv

LEMMA PadWriteSingle ==
  ASSUME KeptInv, SingleInv, PadWrite
  PROVE  SingleInv'
  <1>1. "pad" \in Actors /\ stage = "up" /\ Settled
    BY FreeSettled, Zenon DEF PadWrite, Free, Actors, Threads
  <1>2. PICK r \in Regs : \E v \in Valid[r] : WriteReg("pad", r, ram[r], v)
    BY Zenon DEF PadWrite
  <1> PICK v \in Valid[r] : WriteReg("pad", r, ram[r], v)
    BY <1>2, Zenon
  <1>3. v \in Word /\ ram[r] \in Word
    BY <1>2, RangeAssumption, Zenon DEF KeptInv, KeptTypeOK
  <1> QED BY <1>1, <1>2, <1>3, WriteRegSingle, Zenon

LEMMA CoreWriteSingle ==
  ASSUME KeptInv, SingleInv, CoreWrite
  PROVE  SingleInv'
  <1>1. "core" \in Actors /\ stage = "up" /\ Settled
    BY FreeSettled, Zenon DEF CoreWrite, Free, Actors, Threads
  <1>2. PICK r \in CoreRegs : WriteReg("core", r, {}, {})
    BY Zenon DEF CoreWrite
  <1>3. r \in Regs /\ {} \in Word
    BY <1>2, RegsAssumption, Zenon DEF Word
  <1> QED BY <1>1, <1>2, <1>3, WriteRegSingle, Zenon

LEMMA UpSingle ==
  ASSUME KeptInv, SingleInv, stage = "up", NEW t \in Actors, Step(t)
  PROVE  SingleInv'
  <1>1. KeptTypeOK /\ OneByOne /\ todo \in [Actors -> Seq(Instr)]
    BY Zenon DEF KeptInv, KeptTypeOK, SingleInv
  <1>2. WriteWord(t) \/ WriteFlag(t) \/ CheckArea(t) \/ StartSave(t) \/ SetWifi(t)
    BY UpSteps, Zenon
  <1>3. todo[t] # <<>>
    BY <1>2, Zenon DEF At, WriteWord, WriteFlag, StartSave, CheckArea, SetWifi
  <1>4. PICK r \in Regs : Changing(t, r)
    BY <1>3 DEF SingleInv, Settled, Changing, Alone
  <1>5. PICK j \in 0..7, o \in User, c \in Word, x \in Word : Writing(t, j, o, c, r, x)
    BY <1>4, Zenon DEF Changing
  <1>6. Head(todo[t]).op = "put"
    <2>1. Head(todo[t]) = todo[t][1]
      <3> HIDE DEF Instr
      <3> QED BY <1>1, <1>3, TailFacts, Zenon
    <2>2. 1 \in 1..(8 - j) /\ 1 + j \in 1..8 /\ ram[r] \in Word
      BY <1>1 DEF KeptTypeOK
    <2>3. todo[t][1] = Plan(1 + j, o, c, r, ram[r], x)
      BY <1>5, <2>2, Zenon DEF Writing
    <2>4. Plan(1 + j, o, c, r, ram[r], x).op = "put"
      BY <2>2, PlanIs
    <2> QED BY <2>1, <2>3, <2>4, Zenon
  <1>7. WriteWord(t)
    BY <1>2, <1>6, ZenonT(30) DEF At, WriteFlag, CheckArea, StartSave, SetWifi
  <1>8. /\ ram' = ram
        /\ \A s \in Regs \ {r} : Uniform(s)' /\ mem'[1][s] = mem[1][s]
        /\ j < 7 => Writing(t, j + 1, o, c, r, x)'
        /\ j = 7 => /\ todo'[t] = <<>>
                    /\ \A a \in User : mem'[a][Sum] = x /\ mem'[a][r] = ram[r]
    BY <1>1, <1>5, <1>7, WritingNext
  <1>9. \A s \in Regs \ {r} : Safe(s)'
    BY <1>4, <1>8, Zenon DEF Changing, Safe
  <1>10. Alone(t)'
    <2> HIDE DEF Instr
    <2> QED BY <1>1, <1>3, <1>4, <1>7, DoneList, Zenon DEF Changing, WriteWord
  <1>11. stage' = "up" /\ OneByOne'
    BY <1>1, <1>7, Zenon DEF WriteWord, OneByOne, Quiet, S
  <1>12. CASE j < 7
    <2>1. j + 1 \in 0..7 /\ Writing(t, j + 1, o, c, r, x)'
      BY <1>8, <1>12
    <2>2. Whole'
      BY <2>1, WritingWholeNext, Zenon
    <2>3. Changing(t, r)'
      BY <1>9, <1>10, <2>1, Zenon DEF Changing
    <2> QED BY <1>11, <2>2, <2>3, ZenonT(30) DEF SingleInv
  <1>13. CASE j = 7
    <2>1. \A s \in Actors : todo'[s] = <<>>
      BY <1>8, <1>10, <1>13 DEF Alone
    <2>2. Uniform(r)' /\ Agree(Sum)' /\ Safe(r)'
      BY <1>8, <1>13 DEF Uniform, Agree, Safe, User
    <2>3. Settled' /\ Whole'
      BY <1>8, <1>9, <2>1, <2>2, Zenon DEF Settled, Whole
    <2> QED BY <1>11, <2>3, Zenon DEF SingleInv
  <1> QED BY <1>12, <1>13

\* A repair of a start is written.
LEMMA BootWriteSingle ==
  ASSUME KeptInv, SingleInv, stage = "boot", Alone("init"), NEW n \in 0..NumRegs, NEW k \in 1..2,
         Repairing(todo["init"], n, k), WriteWord("init")
  PROVE  Whole' /\ Repairing(todo["init"], n, k - 1)'
  <1> PICK q : q = todo["init"]
    OBVIOUS
  <1>1. KeptTypeOK /\ Whole /\ q \in Seq(Instr) /\ "init" \in Actors /\ mem \in [Area -> [Slot -> Word]]
    BY Zenon DEF KeptInv, KeptTypeOK, SingleInv, Actors
  <1>2. /\ Booting(q, n, k) /\ q[k].slot = Sum /\ Uniform(Sum)
        /\ k = 1 => \A r \in Regs : Uniform(r)
        /\ k = 2 => q[1].slot \in 0..(n - 1) /\ \A r \in Regs \ {q[1].slot} : Uniform(r)
    BY DEF Repairing
  <1>3. Booting(todo["init"], n, k - 1)'
    BY <1>2, BootWrite, Zenon
  <1>4. PICK w \in Putting : w = q[1] /\ mem' = [mem EXCEPT ![w.area][w.slot] = w.val]
    BY <1>2, BootWrite, Zenon
  <1>5. w.area \in User /\ w.slot \in Slot /\ User = {1, 2, 3} /\ User \subseteq Area
    BY <1>4, InstrOps DEF User, Area
  <1>6. \A a \in User, s \in Slot :
          mem'[a][s] = IF a = w.area /\ s = w.slot THEN w.val ELSE mem[a][s]
    BY <1>1, <1>4, <1>5, Zenon
  <1>7. \A r \in Regs : r \in Slot /\ r # Sum
    BY SlotFacts, Zenon
  <1>8. Sum \in Slot
    BY SlotFacts, Zenon
  <1>9. CASE k = 1
    <2>1. w.slot = Sum
      BY <1>2, <1>4, <1>9, ZenonT(30)
    <2>2. \A r \in Regs : Uniform(r)'
      BY <1>2, <1>5, <1>6, <1>7, <1>9, <2>1, SMTT(30) DEF Uniform
    <2>3. Agree(Sum)'
      BY <1>2, <1>5, <1>6, <1>8 DEF Uniform, Agree
    <2>4. k - 1 = 0
      BY <1>9
    <2> QED BY <1>3, <2>2, <2>3, <2>4 DEF Whole, Repairing
  <1>10. CASE k = 2
    <2>1. /\ w.slot \in 0..(n - 1) /\ w.slot \in Regs /\ q[2].slot = Sum
          /\ \A r \in Regs \ {w.slot} : Uniform(r)
      <3>1. w.slot \in 0..(n - 1)
        BY <1>2, <1>4, <1>10, ZenonT(30)
      <3>2. w.slot \in Regs
        BY <3>1, RegsAssumption DEF Regs
      <3> QED BY <1>2, <1>4, <1>10, <3>1, <3>2, ZenonT(30)
    <2>2. w.val = Vote(w.slot)
      <3>1. 1 \in 1..k
        BY <1>10
      <3> QED BY <1>2, <1>4, <2>1, <3>1, ZenonT(30) DEF Booting
    <2>3. \A a \in User \ {w.area} : mem[a][w.slot] = Vote(w.slot)
      <3> TAKE a \in User \ {w.area}
      <3>1. mem[a][w.slot] = Vote(w.slot) \/ \E i \in 1..k : q[i].area = a /\ q[i].slot = w.slot
        BY <1>2, <2>1, Zenon DEF Booting
      <3>2. \A i \in 1..k : i = 1 \/ i = 2
        BY <1>10
      <3> QED BY <1>4, <1>7, <2>1, <3>1, <3>2, ZenonT(30)
    <2>4. \A a \in User : mem'[a][w.slot] = w.val
      BY <1>5, <1>6, <2>2, <2>3
    <2>5. ASSUME NEW r \in Regs PROVE Uniform(r)'
      <3>1. CASE r = w.slot
        BY <2>4, <3>1, ZenonT(30) DEF Uniform
      <3>2. CASE r # w.slot
        BY <1>6, <1>7, <2>1, <3>2, SMTT(30) DEF Uniform
      <3> QED BY <3>1, <3>2, Zenon
    <2>6. Uniform(Sum)' /\ Agree(Sum)'
      <3>1. \A a \in User : mem'[a][Sum] = mem[a][Sum]
        BY <1>6, <1>7, <1>8, <2>1, Zenon
      <3> QED BY <1>2, <1>5, <3>1 DEF Uniform, Agree
    <2>7. todo'["init"][1].slot = Sum
      <3>1. q # <<>> /\ Len(q) = 2 + NumRegs - n + 1
        BY <1>1, <1>2, <1>10, BootHead
      <3>2. todo'["init"] = Tail(q)
        <4> HIDE DEF Instr
        <4> QED BY <1>1, <3>1, DoneList, ZenonT(30) DEF KeptTypeOK, WriteWord
      <3>3. 1 \in 1..(Len(q) - 1)
        BY <3>1, RegsAssumption
      <3>4. Tail(q)[1] = q[1 + 1]
        <4> HIDE DEF Instr
        <4> QED BY <1>1, <3>1, <3>3, TailFacts, ZenonT(30)
      <3>5. 1 + 1 = 2
        OBVIOUS
      <3>6. todo'["init"][1] = q[2]
        BY <3>2, <3>4, <3>5, Zenon
      <3> QED BY <2>1, <3>6, ZenonT(30)
    <2>8. k - 1 = 1
      BY <1>10
    <2> QED BY <1>3, <2>5, <2>6, <2>7, <2>8 DEF Whole, Repairing
  <1> QED BY <1>9, <1>10

LEMMA BootSingle ==
  ASSUME KeptInv, SingleInv, stage # "up", NEW t \in Actors, Step(t)
  PROVE  SingleInv'
  <1>1. /\ stage = "boot" /\ t = "init" /\ Alone("init")
        /\ \A n \in 0..NumRegs, k \in 0..2 :
             Booting(todo["init"], n, k) =>
               \/ k > 0 /\ WriteWord("init")
               \/ k = 0 /\ n < NumRegs /\ Head(todo["init"]) = Load(n) /\ LoadReg("init")
               \/ k = 0 /\ n = NumRegs /\ EndBoot("init")
    BY BootSteps, Zenon
  <1>2. PICK n \in 0..NumRegs, k \in 0..2 : Repairing(todo["init"], n, k)
    BY <1>1, Zenon DEF SingleInv
  <1>3. Booting(todo["init"], n, k) /\ Whole /\ OneByOne
    BY <1>2, Zenon DEF Repairing, SingleInv
  <1>4. CASE k > 0 /\ WriteWord("init")
    <2>1. k \in 1..2 /\ k - 1 \in 0..2
      BY <1>4
    <2>2. Whole' /\ Repairing(todo["init"], n, k - 1)'
      BY <1>1, <1>2, <1>4, <2>1, BootWriteSingle, ZenonT(30)
    <2>3. stage' = "boot" /\ OneByOne'
      BY <1>1, <1>3, <1>4, Zenon DEF WriteWord, OneByOne, Quiet, S
    <2> QED BY <2>1, <2>2, <2>3, Zenon DEF SingleInv
  <1>5. CASE k = 0 /\ n < NumRegs /\ Head(todo["init"]) = Load(n) /\ LoadReg("init")
    <2>1. Booting(todo["init"], n, 0)
      BY <1>3, <1>5, Zenon
    <2>2. PICK m \in {0, 2} :
            /\ Booting(todo["init"], n + 1, m)'
            /\ m = 2 => todo'["init"][1].slot = n /\ todo'["init"][2].slot = Sum /\ ~Uniform(n)
      BY <1>1, <1>5, <2>1, BootLoad
    <2>3. mem' = mem /\ stage' = "boot" /\ n \in Regs
      BY <1>1, <1>5, <2>1, BootLoad, ZenonT(30)
    <2>4. Whole' /\ OneByOne'
      BY <1>3, <1>5, <2>3, WholeSame, ZenonT(30) DEF LoadReg, OneByOne, Quiet, S
    <2>5. m = 2 => Uniform(Sum)' /\ \A r \in Regs \ {n} : Uniform(r)'
      BY <1>3, <2>2, <2>3, SMTT(30) DEF Whole, Uniform
    <2>6. n \in 0..((n + 1) - 1) /\ n + 1 \in 0..NumRegs /\ m \in 0..2 /\ m # 1 /\ (m > 0 => m = 2)
      BY <1>5, RegsAssumption
    <2>7. Repairing(todo["init"], n + 1, m)'
      BY <2>2, <2>5, <2>6, Zenon DEF Repairing
    <2> QED BY <2>3, <2>4, <2>6, <2>7, ZenonT(30) DEF SingleInv
  <1>6. CASE k = 0 /\ n = NumRegs /\ EndBoot("init")
    <2>1. Booting(todo["init"], NumRegs, 0)
      BY <1>3, <1>6, Zenon
    <2>2. /\ mem' = mem /\ stage' = "up" /\ (\A s \in Actors : todo'[s] = <<>>)
          /\ \A r \in Regs : Uniform(r) /\ ram'[r] = IF r \in Cleared THEN {} ELSE InRange(r, mem[1][r])
      BY <1>1, <1>6, <2>1, BootEnd, ZenonT(30)
    <2>3. Whole' /\ OneByOne'
      BY <1>3, <1>6, <2>2, WholeSame, ZenonT(30) DEF EndBoot, OneByOne, Quiet, S
    <2>4. \A r \in Regs : Uniform(r)' /\ Safe(r)'
      BY <2>2, InRangeTwice DEF Uniform, Safe
    <2>5. Settled'
      BY <2>2, <2>4, Zenon DEF Settled
    <2> QED BY <2>2, <2>3, <2>5, Zenon DEF SingleInv
  <1> QED BY <1>1, <1>3, <1>4, <1>5, <1>6, Zenon

LEMMA SingleInit == Init /\ OneByOne => SingleInv
  <1> SUFFICES ASSUME Init, OneByOne PROVE SingleInv
    OBVIOUS
  <1>1. mem = Provisioned /\ stage = "off"
    BY Zenon DEF Init, OneByOne, Quiet
  <1>2. \A s \in Slot : Uniform(s) /\ Agree(s)
    BY <1>1 DEF Provisioned, Uniform, Agree, Area, User
  <1>3. Whole
    BY <1>2, SlotFacts, Zenon DEF Whole
  <1> QED BY <1>1, <1>3, Zenon DEF SingleInv

LEMMA SingleStutter ==
  ASSUME KeptInv, SingleInv, UNCHANGED vars
  PROVE  SingleInv'
  <1>1. UNCHANGED <<scene, mem, flag, ram, stage, source, todo, req, drops>>
    BY Zenon DEF vars
  <1>2. Whole' /\ OneByOne' /\ \A s : Uniform(s) => Uniform(s)'
    BY <1>1, WholeSame, Zenon DEF SingleInv, OneByOne, Quiet, S, Uniform
  <1>3. ASSUME NEW n \in 0..NumRegs, NEW k \in 0..2, Repairing(todo["init"], n, k)
        PROVE  Repairing(todo["init"], n, k)'
    <2>1. Booting(todo["init"], n, k)'
      <3> HIDE DEF Vote
      <3>1. \A s : Vote(s)' = Vote(s)
        <4> USE DEF Vote
        <4> QED BY <1>1, Zenon DEF CompareRead, SingleWrite
      <3> QED BY <1>1, <1>3, <3>1 DEF Repairing, Booting
    <2> QED BY <1>1, <1>2, <1>3, <2>1, ZenonT(30) DEF Repairing
  <1>4. Settled => Settled'
    BY <1>1, Zenon DEF Settled, Uniform, Safe
  <1>5. ASSUME NEW t \in Actors, NEW r \in Regs, Changing(t, r)
        PROVE  Changing(t, r)'
    <2>1. PICK j \in 0..7, o \in User, c \in Word, x \in Word : Writing(t, j, o, c, r, x)
      BY <1>5, Zenon DEF Changing
    <2>2. Writing(t, j, o, c, r, x)'
      BY <1>1, <2>1, Zenon DEF Writing, Uniform
    <2> QED BY <1>1, <1>5, <2>2, Zenon DEF Changing, Alone, Safe
  <1> QED BY <1>1, <1>2, <1>3, <1>4, <1>5, ZenonT(30) DEF SingleInv

LEMMA SingleNext == KeptInv /\ SingleInv /\ [Next]_vars => SingleInv'
  <1> SUFFICES ASSUME KeptInv, SingleInv, [Next]_vars PROVE SingleInv'
    OBVIOUS
  <1>0. Whole /\ OneByOne
    BY Zenon DEF SingleInv
  <1>1. CASE PowerFail
    <2>1. stage' = "off" /\ mem' = mem /\ scene' = scene
      BY <1>1, Zenon DEF PowerFail, Down
    <2> QED BY <1>0, <2>1, WholeSame, Zenon DEF SingleInv, OneByOne, Quiet, S
  <1>2. CASE PowerOn
    <2>1. mem' = mem /\ scene' = scene /\ stage' = "boot" /\ Booting(todo["init"], 0, 0)'
      BY <1>2, PowerOnKept, Zenon
    <2>2. Whole' /\ OneByOne'
      BY <1>0, <2>1, WholeSame, Zenon DEF OneByOne, Quiet, S
    <2>3. Repairing(todo["init"], 0, 0)'
      BY <2>1 DEF Repairing
    <2>4. 0 \in 0..NumRegs /\ 0 \in 0..2
      BY RegsAssumption
    <2> QED BY <2>1, <2>2, <2>3, <2>4, Zenon DEF SingleInv
  <1>3. CASE PadWrite
    BY <1>3, PadWriteSingle, Zenon
  <1>4. CASE CoreWrite
    BY <1>4, CoreWriteSingle, Zenon
  <1>5. ~MultiWrite /\ ~FactoryCommand /\ ~CpadCommand
    BY <1>0, Zenon DEF OneByOne, Quiet, MultiWrite, FactoryCommand, CpadCommand
  <1>6. ASSUME NEW t \in Actors, Step(t) PROVE SingleInv'
    BY <1>6, UpSingle, BootSingle, Zenon
  <1>7. CASE UNCHANGED vars
    BY <1>7, SingleStutter, Zenon
  <1> QED BY <1>1, <1>2, <1>3, <1>4, <1>5, <1>6, <1>7, ZenonT(30) DEF Next

\* With single writes, and whatever the power does, an idle system has in its
\* EEPROM what is in use: the next start loads the user areas and gets every
\* register that it does not clear (reg_map_write, eeprom_tripple_write,
\* conf_reg_read_ee).
THEOREM SingleWritesDurable == Spec /\ OneByOne => []Durable
  <1>1. OneByOne => Quiet
    BY Zenon DEF OneByOne
  <1>2. KeptInv /\ SingleInv => Durable
    <2> SUFFICES ASSUME KeptInv, SingleInv, Idle
                 PROVE  flag = "USR" /\ \A r \in Regs \ Cleared : Stored(r) = InRange(r, ram[r])
      BY Zenon DEF Durable
    <2>1. Settled /\ flag = "USR"
      BY FreeSettled, Zenon DEF Idle, KeptInv, KeptTypeOK
    <2>2. ASSUME NEW r \in Regs \ Cleared PROVE Stored(r) = InRange(r, ram[r])
      <3>1. Agree(r) /\ Uniform(r) /\ Safe(r)
        BY <2>1, ZenonT(30) DEF KeptInv, Settled
      <3>2. Vote(r) = mem[1][r]
        BY <3>1, Majority DEF User
      <3> QED BY <3>1, <3>2, Zenon DEF Stored, Vote, Safe
    <2> QED BY <2>1, <2>2, Zenon
  <1> QED BY <1>1, <1>2, KeptInit, KeptNext, SingleInit, SingleNext, PTL DEF Spec

\* With single writes the three checksums always have a majority, so that
\* eeprom_tripple_write never gives up.
THEOREM SingleWritesVote == Spec /\ OneByOne => []ChecksumsVote
  <1>1. OneByOne => Quiet
    BY Zenon DEF OneByOne
  <1>2. SingleInv => ChecksumsVote
    BY Majority, Zenon DEF SingleInv, Whole, ChecksumsVote
  <1> QED BY <1>1, <1>2, KeptInit, KeptNext, SingleInit, SingleNext, PTL DEF Spec
=============================================================================
