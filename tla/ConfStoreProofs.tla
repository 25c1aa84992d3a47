--------------------------- MODULE ConfStoreProofs ---------------------------
(***************************************************************************)
(* For every number of registers, width of a word, range and default: the  *)
(* registers of a quiet ConfStore implement ConfRegisters.  The inductive  *)
(* invariant is KeptInv of ConfStoreLemmas; here are the steps of the      *)
(* operations of a running system and of a start.                          *)
(***************************************************************************)
EXTENDS ConfStoreLemmas

LEMMA UpBusy ==
  ASSUME KeptInv, stage = "up", NEW t \in Actors, todo[t] # <<>>
  PROVE  Alone(t) /\ Doing(t)
  BY Zenon DEF KeptInv, Alone

LEMMA BootBusy ==
  ASSUME KeptInv, stage # "up", NEW t \in Actors, todo[t] # <<>>
  PROVE  /\ t = "init" /\ stage = "boot" /\ Alone("init")
         /\ \E n \in 0..NumRegs, k \in 0..2 : Booting(todo["init"], n, k)
  BY Zenon DEF KeptInv, KeptTypeOK, Alone

\* The steps of a running system that change neither a register nor its copies.
LEMMA UpAdvance ==
  ASSUME KeptInv, stage = "up", NEW t \in Actors, todo[t] # <<>>, Done(t),
         UNCHANGED <<scene, ram, flag, stage, source, drops>>,
         mem' \in [Area -> [Slot -> Word]],
         \A a \in User, r \in Regs : mem'[a][r] = mem[a][r],
         Head(todo[t]) \in Putting => Head(todo[t]).slot \notin Regs
  PROVE  KeptInv' /\ AbsStep
  <1>1. KeptTypeOK
    BY Zenon DEF KeptInv
  <1>2. /\ todo' \in [Actors -> Seq(Instr)] /\ todo'[t] = Tail(todo[t])
        /\ Alone(t) => Alone(t)'
    BY <1>1, DoneList, Zenon DEF KeptTypeOK
  <1>3. Alone(t) /\ Doing(t)
    BY UpBusy, Zenon
  <1>4. Doing(t)'
    BY <1>2, <1>3, AdvanceSame, Zenon
  <1>5. SameDisk /\ \A s \in Regs : Agree(s)'
    BY NotWritten, Zenon DEF KeptInv, SameDisk
  <1>6. KeptTypeOK'
    BY <1>1, <1>2, Zenon DEF KeptTypeOK, Quiet, S
  <1>7. KeptInv'
    BY <1>2, <1>3, <1>4, <1>5, <1>6, Zenon DEF KeptInv
  <1> QED BY <1>5, <1>7, AbsStutter, Zenon

LEMMA UpWrite ==
  ASSUME KeptInv, stage = "up", NEW t \in Actors, WriteWord(t)
  PROVE  KeptInv' /\ AbsStep
  <1> DEFINE w == Head(todo[t])
  <1>1. /\ todo[t] # <<>> /\ w.op \in {"put", "page", "putIfGood"} /\ Done(t)
        /\ mem' = IF w.op = "putIfGood" /\ req[t] > 0 THEN mem
                  ELSE [mem EXCEPT ![w.area][w.slot] = w.val]
        /\ UNCHANGED <<scene, flag, ram, stage, source, req, drops>>
    BY Zenon DEF WriteWord, At
  <1>2. KeptTypeOK /\ Alone(t) /\ Doing(t)
    BY <1>1, UpBusy, Zenon DEF KeptInv
  <1>3. w \in UpInstr
    <2>1. todo[t] \in Seq(UpInstr)
      BY <1>2, Zenon DEF Doing
    <2> QED BY <1>1, <2>1, TailFacts, Zenon
  <1>4. (w \in Putting \/ w \in Ending) /\ w.area \in User /\ w.slot \in Slot /\ w.val \in Word
    BY <1>1, <1>3, InstrOps, SlotFacts, Zenon
  <1> HIDE DEF w
  <1>5. mem' \in [Area -> [Slot -> Word]]
    BY <1>1, <1>2, <1>4, SMTT(30) DEF KeptTypeOK, Area
  <1>6. CASE w.slot \notin Regs
    <2>1. \A a \in User, r \in Regs : mem'[a][r] = mem[a][r]
      BY <1>1, <1>2, <1>4, <1>6, SlotFacts, Zenon DEF KeptTypeOK, Area
    <2>2. Head(todo[t]).slot \notin Regs
      BY <1>6, Zenon DEF w
    <2> QED BY <1>1, <1>5, <2>1, <2>2, UpAdvance, Zenon
  <1>7. CASE w.slot \in Regs
    <2>1. w \in Putting /\ w.op # "putIfGood"
      BY <1>4, <1>7, InstrOps, SlotFacts, Zenon
    <2>2. mem' = [mem EXCEPT ![w.area][w.slot] = w.val]
      BY <1>1, <2>1, Zenon
    <2>3. /\ todo' \in [Actors -> Seq(Instr)] /\ todo'[t] = Tail(todo[t]) /\ Alone(t)'
      BY <1>1, <1>2, DoneList, SMTT(30) DEF KeptTypeOK
    <2>4. PICK s \in Regs :
            /\ Doing(t)' /\ Vote(s)' \in {Vote(s), ram[s]}
            /\ \A r \in Regs \ {s} : Vote(r)' = Vote(r)
      BY <1>1, <1>2, <1>7, <2>1, <2>2, <2>3, AdvanceWrite, Zenon DEF KeptTypeOK, w
    <2>5. \A r \in Regs : Agree(r)'
      BY <2>4, SplitAgreeNext, Zenon DEF Doing
    <2>6. KeptTypeOK'
      BY <1>1, <1>2, <1>5, <2>3, Zenon DEF KeptTypeOK, Quiet, S
    <2>7. KeptInv'
      BY <1>1, <2>3, <2>4, <2>5, <2>6, Zenon DEF KeptInv
    <2> QED BY <1>1, <2>4, <2>7, AbsKeep, Zenon
  <1> QED BY <1>6, <1>7, Zenon

LEMMA UpOther ==
  ASSUME KeptInv, stage = "up", NEW t \in Actors, WriteFlag(t) \/ CheckArea(t)
  PROVE  KeptInv' /\ AbsStep
  <1> DEFINE w == Head(todo[t])
  <1>1. todo[t] # <<>> /\ w.op \in {"flag", "flagIfGood", "verify"} /\ Done(t)
    BY Zenon DEF WriteFlag, CheckArea, At
  <1>2. KeptTypeOK /\ Doing(t)
    BY <1>1, UpBusy, Zenon DEF KeptInv
  <1>3. w \in UpInstr
    <2>1. todo[t] \in Seq(UpInstr)
      BY <1>2, Zenon DEF Doing
    <2> QED BY <1>1, <2>1, TailFacts, Zenon
  <1>4. w \notin Putting /\ (w.op \in {"flag", "flagIfGood"} => w.val = "USR")
    BY <1>1, <1>3, InstrOps, Zenon
  <1>5. UNCHANGED <<scene, mem, ram, stage, source, drops>>
    BY Zenon DEF WriteFlag, CheckArea
  <1>6. flag' = flag
    <2>1. CASE WriteFlag(t)
      BY <1>2, <1>4, <2>1, SMTT(30) DEF WriteFlag, KeptTypeOK, At
    <2>2. CASE CheckArea(t)
      BY <2>2, Zenon DEF CheckArea
    <2> QED BY <2>1, <2>2, Zenon
  <1> QED BY <1>1, <1>2, <1>4, <1>5, <1>6, UpAdvance, SMTT(30) DEF KeptTypeOK

LEMMA UpSave ==
  ASSUME KeptInv, stage = "up", NEW t \in Actors, StartSave(t)
  PROVE  KeptInv' /\ AbsStep
  <1> DEFINE w == Head(todo[t])
             q == todo[t]
  <1>1. /\ q # <<>> /\ w.op = "save"
        /\ UNCHANGED <<scene, mem, flag, ram, stage, source, drops>>
    BY Zenon DEF StartSave, At
  <1>2. KeptTypeOK /\ Alone(t) /\ Doing(t)
    BY <1>1, UpBusy, Zenon DEF KeptInv
  <1>3. q \in Seq(UpInstr) /\ (\A i \in 1..Len(q) : q[i] = WifiSet => i = Len(q))
    BY <1>2, Zenon DEF Doing
  <1>4. w \in UpInstr /\ w.fact = FALSE
    BY <1>1, <1>3, TailFacts, InstrOps, SMTT(30)
  <1>5. todo' = [todo EXCEPT ![t] = SaveUser(ram) \o Tail(q)]
    BY <1>4, Zenon DEF StartSave
  <1>6. ram \in [Regs -> Word]
    BY <1>2, Zenon DEF KeptTypeOK
  <1>7. PICK p \in Seq(UpInstr) :
          /\ p = SaveUser(ram) /\ WifiSet \notin Range(p)
          /\ \A x \in Range(p) : x \in Putting => x.slot \in Regs /\ x.val = ram[x.slot]
          /\ \A a \in User, r \in Regs : Page(a, r, ram[r]) \in Range(p)
    BY <1>6, SaveUserIs, Zenon
  <1>8. PICK u \in Seq(UpInstr) :
          /\ u = Tail(q) /\ Len(u) = Len(q) - 1 /\ Len(q) \in Nat \ {0}
          /\ \A i \in 1..(Len(q) - 1) : u[i] = q[i + 1]
          /\ Range(q) = {w} \cup Range(u)
    <2> HIDE DEF UpInstr, q
    <2> QED BY <1>1, <1>3, TailFacts, Zenon DEF q
  <1>9. \A i \in 1..Len(u) : u[i] = WifiSet => i = Len(u)
    <2> SUFFICES ASSUME NEW i \in 1..Len(u), u[i] = WifiSet PROVE i = Len(u)
      OBVIOUS
    <2> HIDE DEF q
    <2>1. i + 1 \in 1..Len(q) /\ q[i + 1] = WifiSet
      BY <1>8
    <2>2. i + 1 = Len(q)
      BY <1>3, <2>1, Zenon
    <2>3. Len(u) = Len(q) - 1 /\ Len(q) \in Nat
      BY <1>8, Zenon
    <2> QED BY <2>2, <2>3
  <1>10. p \o u \in Seq(UpInstr) /\ Range(p \o u) = Range(p) \cup Range(u)
    <2> HIDE DEF UpInstr
    <2> QED BY ConcatFacts
  <1>11. \A i \in 1..Len(p \o u) : (p \o u)[i] = WifiSet => i = Len(p \o u)
    BY <1>7, <1>9, WifiConcat, SMTT(30)
  <1>12. \A x \in Range(p \o u) : x \in Putting /\ x.slot \in Regs => x.val = ram'[x.slot]
    BY <1>1, <1>2, <1>7, <1>8, <1>10, SMTT(30) DEF Doing
  <1>13. \A r \in Regs, a \in User : Due(p \o u, a, r)
    <2> TAKE r \in Regs, a \in User
    <2>1. Page(a, r, ram[r]) \in Putting /\ Page(a, r, ram[r]).area = a /\ Page(a, r, ram[r]).slot = r
      BY <1>6, PutIs, SlotFacts
    <2> HIDE DEF Putting
    <2> QED BY <1>7, <1>10, <2>1, Zenon DEF Due
  <1>14. todo'[t] = p \o u /\ todo' \in [Actors -> Seq(Instr)] /\ Alone(t)'
    <2>1. p \o u \in Seq(Instr)
      BY <1>10, SeqMonotonic, InstrOps, SMTT(30)
    <2> HIDE DEF Instr, q
    <2> QED BY <1>2, <1>5, <1>7, <1>8, <2>1, SMTT(30) DEF KeptTypeOK, Alone
  <1>15. \A r \in Regs : Split(r)'
    BY <1>1, <1>2, Zenon DEF Doing, Split
  <1>16. Doing(t)'
    <2> HIDE DEF UpInstr, Putting, q, w
    <2>1. mem' = mem
      BY <1>1, Zenon
    <2> QED BY <1>10, <1>11, <1>12, <1>13, <1>14, <1>15, <2>1, BeginsWith, Zenon
  <1>17. SameDisk /\ \A s \in Regs : Agree(s)'
    BY <1>1, NotWritten, Zenon DEF KeptInv, SameDisk
  <1>18. KeptTypeOK'
    BY <1>1, <1>2, <1>14, Zenon DEF KeptTypeOK, Quiet, S
  <1>19. KeptInv'
    BY <1>1, <1>14, <1>16, <1>17, <1>18, Zenon DEF KeptInv
  <1> QED BY <1>1, <1>17, <1>19, AbsStutter, SMTT(30)

LEMMA UpWifi ==
  ASSUME KeptInv, stage = "up", NEW t \in Actors, SetWifi(t)
  PROVE  KeptInv' /\ AbsStep
  <1> DEFINE q == todo[t]
  <1>1. q # <<>> /\ Head(q).op = "wifi" /\ WriteReg(t, WifiReg, WifiOn, WifiOn)
    BY Zenon DEF SetWifi, At
  <1>2. Alone(t) /\ Doing(t)
    BY <1>1, UpBusy, Zenon
  <1>3. q \in Seq(UpInstr) /\ \A i \in 1..Len(q) : q[i] = WifiSet => i = Len(q)
    BY <1>2, Zenon DEF Doing
  <1>4. q[1] = WifiSet /\ Len(q) = 1
    <2> HIDE DEF q, UpInstr
    <2>1. Len(q) \in Nat \ {0} /\ Head(q) = q[1] /\ Head(q) \in UpInstr
      BY <1>1, <1>3, TailFacts, Zenon
    <2>2. q[1] = WifiSet /\ 1 \in 1..Len(q)
      BY <1>1, <2>1, InstrOps
    <2> QED BY <1>3, <2>2, Zenon
  <1>5. Range(q) \subseteq {WifiSet}
    <2> HIDE DEF q, UpInstr
    <2>1. DOMAIN q = 1..1
      BY <1>3, <1>4, LenProperties, Zenon
    <2> QED BY <1>4, <2>1 DEF Range
  <1>6. \A a, r : ~Due(q, a, r)
    BY <1>5, InstrOps, Zenon DEF Due
  <1>7. \A r \in Regs : Uniform(r)
    BY <1>2, <1>6, Zenon DEF Doing, Uniform
  <1> QED BY <1>1, <1>2, <1>7, WriteRegKept, RegsAssumption, WordAssumption, SMTT(30)

LEMMA BootHead ==
  ASSUME NEW q \in Seq(Instr), NEW n \in 0..NumRegs, NEW k \in 0..2, Booting(q, n, k)
  PROVE  /\ q # <<>> /\ Head(q) = q[1] /\ Len(q) = k + NumRegs - n + 1
         /\ \/ k > 0 /\ Head(q) \in Putting
            \/ k = 0 /\ n < NumRegs /\ Head(q) = Load(n)
            \/ k = 0 /\ n = NumRegs /\ Head(q) = GoUp
  <1> HIDE DEF Instr, Putting
  <1>1. NumRegs \in Nat \ {0} /\ Len(q) = k + NumRegs - n + 1
    BY RegsAssumption, Zenon DEF Booting
  <1>2. Len(q) > 0
    BY <1>1
  <1>3. q # <<>> /\ Head(q) = q[1]
    BY <1>2, EmptySeq, TailFacts
  <1>4. CASE k > 0
    BY <1>3, <1>4 DEF Booting
  <1>5. CASE k = 0 /\ n < NumRegs
    <2>1. 1 \in (k + 1)..(Len(q) - 1)
      BY <1>1, <1>5
    <2>2. q[1] = Load(n + 1 - k - 1)
      BY <2>1, Zenon DEF Booting
    <2>3. n + 1 - k - 1 = n
      BY <1>1, <1>5
    <2> QED BY <1>1, <1>3, <1>5, <2>2, <2>3, Zenon
  <1>6. CASE k = 0 /\ n = NumRegs
    <2>1. Len(q) = 1
      BY <1>1, <1>6
    <2> QED BY <1>1, <1>3, <1>6, <2>1, Zenon DEF Booting
  <1> QED BY <1>1, <1>4, <1>5, <1>6

\* The rest of a start when a repair is done.
LEMMA BootTail ==
  ASSUME NEW q \in Seq(Instr), q # <<>>, NEW n \in 0..NumRegs, NEW k \in 1..2, Booting(q, n, k)
  PROVE  LET u == Tail(q) IN
         /\ Len(u) = (k - 1) + NumRegs - n + 1
         /\ \A i \in 1..(k - 1) : u[i] = q[i + 1] /\ i + 1 \in 1..k
         /\ \A i \in ((k - 1) + 1)..(Len(u) - 1) : u[i] = Load(n + i - (k - 1) - 1)
         /\ u[Len(u)] = GoUp
  <1> DEFINE u == Tail(q)
  <1> HIDE DEF Instr
  <1>1. NumRegs \in Nat \ {0} /\ Len(q) = k + NumRegs - n + 1
    BY RegsAssumption, Zenon DEF Booting
  <1>2. Len(u) = Len(q) - 1 /\ \A i \in 1..(Len(q) - 1) : u[i] = q[i + 1]
    BY TailFacts, Zenon
  <1> HIDE DEF u
  <1>3. \A i \in 1..(k - 1) : u[i] = q[i + 1] /\ i + 1 \in 1..k
    BY <1>1, <1>2
  <1>4. ASSUME NEW i \in ((k - 1) + 1)..(Len(u) - 1) PROVE u[i] = Load(n + i - (k - 1) - 1)
    <2>1. i \in 1..(Len(q) - 1) /\ i + 1 \in (k + 1)..(Len(q) - 1)
      BY <1>1, <1>2
    <2>2. q[i + 1] = Load(n + (i + 1) - k - 1)
      BY <2>1, Zenon DEF Booting
    <2>3. n + (i + 1) - k - 1 = n + i - (k - 1) - 1
      BY <1>1, <1>2
    <2> QED BY <1>2, <2>1, <2>2, <2>3, Zenon
  <1>5. u[Len(u)] = GoUp
    <2>1. Len(u) \in 1..(Len(q) - 1) /\ Len(u) + 1 = Len(q)
      BY <1>1, <1>2
    <2>2. u[Len(u)] = q[Len(u) + 1]
      BY <1>2, <2>1, Zenon
    <2> QED BY <2>1, <2>2, Zenon DEF Booting
  <1>6. Len(u) = (k - 1) + NumRegs - n + 1
    BY <1>1, <1>2
  <1> QED BY <1>3, <1>4, <1>5, <1>6, Zenon DEF u

LEMMA BootWrite ==
  ASSUME KeptInv, NEW n \in 0..NumRegs, NEW k \in 1..2, stage = "boot",
         Alone("init"), Booting(todo["init"], n, k), WriteWord("init")
  PROVE  KeptInv' /\ AbsStep /\ Booting(todo["init"], n, k - 1)' /\ SameDisk
         /\ \E w \in Putting : w = todo["init"][1] /\ mem' = [mem EXCEPT ![w.area][w.slot] = w.val]
  <1> PICK q : q = todo["init"]
    OBVIOUS
  <1> PICK u : u = Tail(q)
    BY Zenon
  <1>0. Booting(q, n, k)
    OBVIOUS
  <1>1. KeptTypeOK /\ \A r \in Regs : Agree(r)
    BY Zenon DEF KeptInv
  <1>2. q \in Seq(Instr) /\ "init" \in Actors /\ mem \in [Area -> [Slot -> Word]]
    BY <1>1, Zenon DEF KeptTypeOK, Actors
  <1>3. PICK w \in Putting : w = q[1] /\ w = Head(q) /\ q # <<>>
    BY <1>0, <1>2, BootHead
  <1>4. w.op \in {"put", "page"} /\ w.area \in User /\ w.slot \in Slot /\ w.val \in Word
    BY InstrOps, Zenon
  <1>5. /\ mem' = [mem EXCEPT ![w.area][w.slot] = w.val] /\ Done("init")
        /\ UNCHANGED <<scene, flag, ram, stage, source, req, drops>>
    BY <1>3, <1>4, Zenon DEF WriteWord
  <1>6. w.slot \in Regs => w.val = Vote(w.slot)
    BY <1>0, <1>3 DEF Booting
  <1>7. /\ \A b \in User : mem'[b][w.slot] = IF b = w.area THEN w.val ELSE mem[b][w.slot]
        /\ \A r \in Slot \ {w.slot}, b \in User : mem'[b][r] = mem[b][r]
    BY <1>2, <1>4, <1>5, Zenon DEF Area
  <1>8. mem' \in [Area -> [Slot -> Word]]
    BY <1>2, <1>4, <1>5, Zenon DEF Area
  <1>9. ASSUME NEW r \in Regs PROVE Agree(r)' /\ Vote(r)' = Vote(r)
    <2>1. CASE r = w.slot
      <3>1. mem' = [mem EXCEPT ![w.area][r] = Vote(r)] /\ Agree(r) /\ r \in Slot
        BY <1>1, <1>5, <1>6, <2>1, SlotFacts, Zenon
      <3> QED BY <1>2, <1>4, <3>1, WriteVote, Zenon
    <2>2. CASE r # w.slot
      <3>1. \A b \in User : mem'[b][r] = mem[b][r]
        BY <1>7, <2>2, SlotFacts, SMTT(30)
      <3> QED BY <1>1, <3>1, NotWritten, Zenon
    <2> QED BY <2>1, <2>2, Zenon
  <1>10. todo' \in [Actors -> Seq(Instr)] /\ todo'["init"] = u /\ Alone("init")'
    BY <1>1, <1>2, <1>3, <1>5, DoneList, SMTT(30) DEF KeptTypeOK
  <1>11. /\ Len(u) = (k - 1) + NumRegs - n + 1
         /\ \A i \in 1..(k - 1) : u[i] = q[i + 1] /\ i + 1 \in 1..k
         /\ \A i \in ((k - 1) + 1)..(Len(u) - 1) : u[i] = Load(n + i - (k - 1) - 1)
         /\ u[Len(u)] = GoUp
    BY <1>0, <1>2, <1>3, BootTail, Zenon
  <1>12. \A i \in 1..k : q[i] \in Putting /\ (q[i].slot \in Regs => q[i].val = Vote(q[i].slot))
    BY <1>0, Zenon DEF Booting
  <1>13. \A i \in 1..(k - 1) : u[i] \in Putting /\ (u[i].slot \in Regs => u[i].val = Vote(u[i].slot)')
    <2> TAKE i \in 1..(k - 1)
    <2>1. u[i] = q[i + 1] /\ i + 1 \in 1..k
      BY <1>11, Zenon
    <2>2. u[i] \in Putting /\ (u[i].slot \in Regs => u[i].val = Vote(u[i].slot))
      BY <1>12, <2>1, Zenon
    <2>3. u[i].slot \in Regs => Vote(u[i].slot)' = Vote(u[i].slot)
      BY <1>9, Zenon
    <2> QED BY <2>2, <2>3, Zenon
  <1>14. \A r \in 0..(n - 1) : r \in Regs
    BY RegsAssumption DEF Regs
  <1>15. \A r \in 0..(n - 1) : ram'[r] = InRange(r, Vote(r))'
    BY <1>0, <1>5, <1>9, <1>14 DEF Booting, InRange
  <1>16. ASSUME NEW r \in 0..(n - 1), NEW a \in User
         PROVE  mem'[a][r] = Vote(r)' \/ \E i \in 1..(k - 1) : u[i].area = a /\ u[i].slot = r
    <2>1. mem[a][r] = Vote(r) \/ \E i \in 1..k : q[i].area = a /\ q[i].slot = r
      BY <1>0, ZenonT(30) DEF Booting
    <2>2. r \in Regs /\ r \in Slot /\ Vote(r)' = Vote(r)
      BY <1>9, <1>14, SlotFacts, Zenon
    <2>3. CASE w.area = a /\ w.slot = r
      BY <1>6, <1>7, <2>2, <2>3, Zenon
    <2>4. CASE mem[a][r] = Vote(r) /\ ~(w.area = a /\ w.slot = r)
      BY <1>7, <2>2, <2>4, SMTT(30)
    <2>5. ASSUME NEW i \in 1..k, q[i].area = a, q[i].slot = r, i # 1
          PROVE  \E j \in 1..(k - 1) : u[j].area = a /\ u[j].slot = r
      <3>1. i - 1 \in 1..(k - 1) /\ i = (i - 1) + 1
        BY <2>5
      <3>2. u[i - 1] = q[i]
        BY <1>11, <3>1, Zenon
      <3> QED BY <2>5, <3>1, <3>2, Zenon
    <2> QED BY <1>3, <2>1, <2>3, <2>4, <2>5, Zenon
  <1>17. Booting(todo["init"], n, k - 1)'
    <2> HIDE DEF Putting
    <2>1. Booting(u, n, k - 1)'
      BY <1>11, <1>13, <1>15, <1>16, Zenon DEF Booting
    <2> QED BY <1>10, <2>1
  <1>18. KeptTypeOK'
    BY <1>1, <1>5, <1>8, <1>10, Zenon DEF KeptTypeOK, Quiet, S
  <1>19. KeptInv'
    <2>1. k - 1 \in 0..2
      OBVIOUS
    <2> QED BY <1>5, <1>9, <1>10, <1>17, <1>18, <2>1, Zenon DEF KeptInv
  <1>20. SameDisk
    BY <1>9, Zenon DEF SameDisk
  <1> QED BY <1>3, <1>5, <1>17, <1>19, <1>20, AbsStutter, Zenon

\* What a repair of register n puts before the rest of a start.
LEMMA BootFix ==
  ASSUME mem \in [Area -> [Slot -> Word]], NEW n \in Regs, Agree(n)
  PROVE  \E k \in {0, 2}, f \in Seq(Putting) :
           /\ f = CompareRead(n).fix /\ Len(f) = k
           /\ \A i \in 1..k : f[i] \in Putting /\ (f[i].slot \in Regs => f[i].val = Vote(f[i].slot))
           /\ \A a \in User : mem[a][n] = Vote(n) \/ \E i \in 1..k : f[i].area = a /\ f[i].slot = n
           /\ k = 0 => Uniform(n)
           /\ k = 2 => f[1].slot = n /\ f[2].slot = Sum /\ ~Uniform(n)
  <1>1. n \in Slot /\ Sum \in Slot /\ Vote(n) \in Word
    BY VoteWord, SlotFacts, Zenon
  <1>2. CASE Uniform(n)
    <2>1. CompareRead(n).fix = <<>> /\ \A a \in User : mem[a][n] = Vote(n)
      BY <1>2, Majority, Zenon
    <2>2. <<>> \in Seq(Putting) /\ Len(<<>>) = 0
      BY EmptySeq, Zenon
    <2>3. 0 \in {0, 2} /\ \A i \in 1..0 : FALSE
      OBVIOUS
    <2> HIDE DEF Putting
    <2> WITNESS 0 \in {0, 2}, <<>> \in Seq(Putting)
    <2> QED BY <1>2, <2>1, <2>2, <2>3
  <1>3. CASE ~Uniform(n)
    <2>1. PICK o \in User : /\ CompareRead(n).fix = SingleWrite(o, n, Vote(n), mem[o][n])
                            /\ \A a \in User \ {o} : mem[a][n] = Vote(n)
      BY <1>3, Majority, Zenon
    <2>2. mem[o][n] \in Word /\ mem[o][Sum] \in Word
      BY <1>1, Zenon DEF Area
    <2>3. PICK x \in Word : x = Xor(Xor(mem[o][Sum], mem[o][n]), Vote(n))
      BY <1>1, <2>2, XorWord, Zenon
    <2>4. PICK f \in Seq(Putting) : /\ f = CompareRead(n).fix /\ Len(f) = 2
                                    /\ f[1] = Put(o, n, Vote(n)) /\ f[2] = Put(o, Sum, x)
      BY <1>1, <2>1, <2>2, <2>3, SingleWriteIs, SMTT(30)
    <2>5. /\ f[1] \in Putting /\ f[1].area = o /\ f[1].slot = n /\ f[1].val = Vote(n)
          /\ f[2] \in Putting /\ f[2].slot = Sum
      BY <1>1, <2>4, PutIs
    <2> HIDE DEF Putting
    <2>6. \A i \in 1..2 : f[i] \in Putting /\ (f[i].slot \in Regs => f[i].val = Vote(f[i].slot))
      BY <2>5, SlotFacts
    <2>7. \A a \in User : mem[a][n] = Vote(n) \/ \E i \in 1..2 : f[i].area = a /\ f[i].slot = n
      BY <2>1, <2>5
    <2> QED BY <1>3, <2>4, <2>5, <2>6, <2>7
  <1> QED BY <1>2, <1>3, Zenon

\* The list of a start after register n has been looked at.
LEMMA Shifted == \A a, b, c \in Int : a + ((c - b) + 1) - 0 - 1 = (a + 1) + c - b - 1
  OBVIOUS

LEMMA BootNextLoad ==
  ASSUME NEW q \in Seq(Instr), NEW n \in 0..NumRegs, n < NumRegs, Booting(q, n, 0),
         NEW k \in {0, 2}, NEW f \in Seq(Putting), Len(f) = k
  PROVE  \E u \in Seq(Instr) :
           /\ u = f \o Tail(q) /\ Len(u) = k + NumRegs - (n + 1) + 1
           /\ \A i \in 1..k : u[i] = f[i]
           /\ \A i \in (k + 1)..(Len(u) - 1) : u[i] = Load((n + 1) + i - k - 1)
           /\ u[Len(u)] = GoUp
  <1> HIDE DEF Instr
  <1>1. NumRegs \in Nat \ {0} /\ Len(q) = NumRegs - n + 1 /\ q # <<>>
    BY RegsAssumption, BootHead DEF Booting
  <1>2. PICK p \in Seq(Instr) : /\ p = Tail(q) /\ Len(p) = NumRegs - n
                                /\ \A i \in 1..(NumRegs - n) : p[i] = q[i + 1]
    <2>1. /\ Tail(q) \in Seq(Instr) /\ Len(Tail(q)) = Len(q) - 1
          /\ \A i \in 1..(Len(q) - 1) : Tail(q)[i] = q[i + 1]
      BY <1>1, TailFacts, Zenon
    <2>2. Len(q) - 1 = NumRegs - n
      BY <1>1
    <2> QED BY <2>1, <2>2, Zenon
  <1>3. f \in Seq(Instr)
    BY SeqMonotonic, InstrOps, Zenon
  <1>4. PICK u \in Seq(Instr) : /\ u = f \o p /\ Len(u) = k + (NumRegs - n)
                                /\ \A i \in 1..k : u[i] = f[i]
                                /\ \A i \in 1..(NumRegs - n) : u[k + i] = p[i]
    <2>1. /\ f \o p \in Seq(Instr) /\ Len(f \o p) = Len(f) + Len(p)
          /\ \A i \in 1..Len(f) : (f \o p)[i] = f[i]
          /\ \A i \in 1..Len(p) : (f \o p)[Len(f) + i] = p[i]
      BY <1>2, <1>3, Joined
    <2>2. Len(f) = k /\ Len(p) = NumRegs - n
      BY <1>2, Zenon
    <2>3. /\ f \o p \in Seq(Instr) /\ Len(f \o p) = k + (NumRegs - n)
          /\ \A i \in 1..k : (f \o p)[i] = f[i]
          /\ \A i \in 1..(NumRegs - n) : (f \o p)[k + i] = p[i]
      BY <2>1, <2>2, Zenon
    <2> QED BY <2>3, Zenon
  <1>5. ASSUME NEW i \in (k + 1)..(Len(u) - 1) PROVE u[i] = Load((n + 1) + i - k - 1)
    <2>1. /\ i - k \in 1..(NumRegs - n) /\ i = k + (i - k)
          /\ (i - k) + 1 \in (0 + 1)..(Len(q) - 1)
      <3>1. Len(u) = k + (NumRegs - n)
        BY <1>4, Zenon
      <3> QED BY <1>1, <3>1
    <2>2. u[i] = q[(i - k) + 1]
      <3>1. u[k + (i - k)] = p[i - k]
        BY <1>4, <2>1, Zenon
      <3>2. p[i - k] = q[(i - k) + 1]
        BY <1>2, <2>1, Zenon
      <3> QED BY <2>1, <3>1, <3>2, Zenon
    <2>3. q[(i - k) + 1] = Load(n + ((i - k) + 1) - 0 - 1)
      BY <2>1, Zenon DEF Booting
    <2>4. n + ((i - k) + 1) - 0 - 1 = (n + 1) + i - k - 1
      <3>1. n \in Int /\ k \in Int /\ i \in Int
        BY <1>4
      <3> QED BY <3>1, Shifted, ZenonT(30)
    <2> QED BY <2>2, <2>3, <2>4, Zenon
  <1>6. u[Len(u)] = GoUp
    <2>1. NumRegs - n \in 1..(NumRegs - n) /\ (NumRegs - n) + 1 = Len(q)
      BY <1>1
    <2>2. u[Len(u)] = q[Len(q)]
      BY <1>2, <1>4, <2>1
    <2> QED BY <2>2, Zenon DEF Booting
  <1>7. Len(u) = k + NumRegs - (n + 1) + 1
    BY <1>1, <1>4
  <1> QED BY <1>2, <1>4, <1>5, <1>6, <1>7, Zenon

LEMMA BootLoad ==
  ASSUME KeptInv, NEW n \in 0..NumRegs, n < NumRegs, stage = "boot",
         Alone("init"), Booting(todo["init"], n, 0), Head(todo["init"]) = Load(n), LoadReg("init")
  PROVE  /\ KeptInv' /\ AbsStep /\ mem' = mem /\ stage' = stage /\ n \in Regs
         /\ \E k \in {0, 2} : /\ Booting(todo["init"], n + 1, k)'
                              /\ k = 0 => Uniform(n)
                              /\ k = 2 => /\ todo'["init"][1].slot = n
                                          /\ todo'["init"][2].slot = Sum /\ ~Uniform(n)
  <1> PICK q : q = todo["init"]
    OBVIOUS
  <1>1. KeptTypeOK /\ \A r \in Regs : Agree(r)
    BY Zenon DEF KeptInv
  <1>2. /\ q \in Seq(Instr) /\ "init" \in Actors /\ mem \in [Area -> [Slot -> Word]]
        /\ n \in Regs /\ Booting(q, n, 0)
    BY <1>1, RegsAssumption DEF KeptTypeOK, Actors, Regs
  <1>3. /\ ram' = [ram EXCEPT ![n] = InRange(n, Vote(n))]
        /\ todo' = [todo EXCEPT !["init"] = CompareRead(n).fix \o Tail(q)]
        /\ UNCHANGED <<scene, mem, flag, stage, source, req, drops>>
    <2>1. Head(todo["init"]).slot = n
      BY InstrOps, Zenon
    <2> QED BY <2>1, Zenon DEF LoadReg, Vote
  <1>4. PICK k \in {0, 2}, f \in Seq(Putting) :
           /\ f = CompareRead(n).fix /\ Len(f) = k
           /\ \A i \in 1..k : f[i] \in Putting /\ (f[i].slot \in Regs => f[i].val = Vote(f[i].slot))
           /\ \A a \in User : mem[a][n] = Vote(n) \/ \E i \in 1..k : f[i].area = a /\ f[i].slot = n
           /\ k = 0 => Uniform(n)
           /\ k = 2 => f[1].slot = n /\ f[2].slot = Sum /\ ~Uniform(n)
    BY <1>1, <1>2, BootFix, Zenon
  <1>5. PICK u \in Seq(Instr) :
          /\ u = f \o Tail(q) /\ Len(u) = k + NumRegs - (n + 1) + 1
          /\ \A i \in 1..k : u[i] = f[i]
          /\ \A i \in (k + 1)..(Len(u) - 1) : u[i] = Load((n + 1) + i - k - 1)
          /\ u[Len(u)] = GoUp
    <2> HIDE DEF Instr, Putting
    <2>1. Len(f) = k /\ k \in {0, 2} /\ f \in Seq(Putting)
      BY <1>4, Zenon
    <2>2. q \in Seq(Instr) /\ Booting(q, n, 0)
      BY <1>2, Zenon
    <2> QED BY <2>1, <2>2, BootNextLoad, ZenonT(30)
  <1>6. todo' \in [Actors -> Seq(Instr)] /\ todo'["init"] = u /\ Alone("init")'
    <2> HIDE DEF Instr
    <2> QED BY <1>1, <1>2, <1>3, <1>4, <1>5, SMTT(30) DEF KeptTypeOK, Alone
  <1>7. Vote(n) \in Word /\ InRange(n, Vote(n)) \in Word
    <2>1. Vote(n) \in Word
      BY <1>1, <1>2, VoteWord, SlotFacts, Zenon
    <2> QED BY <1>2, <2>1, RangeAssumption, Zenon DEF InRange
  <1>8. /\ ram' \in [Regs -> Word] /\ ram'[n] = InRange(n, Vote(n))
        /\ \A r \in Regs \ {n} : ram'[r] = ram[r]
    BY <1>1, <1>2, <1>3, <1>7, Zenon DEF KeptTypeOK
  <1>9. SameDisk /\ \A r \in Regs : Agree(r)'
    BY <1>1, <1>3, NotWritten, Zenon DEF SameDisk
  <1>10. \A i \in 1..k : u[i] \in Putting /\ (u[i].slot \in Regs => u[i].val = Vote(u[i].slot)')
    <2> TAKE i \in 1..k
    <2>1. u[i] = f[i] /\ f[i] \in Putting /\ (f[i].slot \in Regs => f[i].val = Vote(f[i].slot))
      BY <1>4, <1>5, Zenon
    <2>2. f[i].slot \in Regs => Vote(f[i].slot)' = Vote(f[i].slot)
      BY <1>9, Zenon DEF SameDisk
    <2> QED BY <2>1, <2>2, Zenon
  <1>11. ASSUME NEW r \in 0..((n + 1) - 1)
         PROVE  /\ ram'[r] = InRange(r, Vote(r))'
                /\ \A a \in User : mem'[a][r] = Vote(r)' \/ \E i \in 1..k : u[i].area = a /\ u[i].slot = r
    <2>1. r \in Regs /\ (r = n \/ r \in 0..(n - 1))
      BY RegsAssumption DEF Regs
    <2>2. Vote(r)' = Vote(r) /\ mem' = mem
      BY <1>3, <1>9, <2>1, Zenon DEF SameDisk
    <2>3. CASE r = n
      <3>1. ram'[r] = InRange(r, Vote(r))'
        BY <1>8, <2>2, <2>3, SMTT(30) DEF InRange
      <3>2. \A a \in User : mem[a][n] = Vote(n) \/ \E i \in 1..k : f[i].area = a /\ f[i].slot = n
        BY <1>4, Zenon
      <3>3. \A i \in 1..k : u[i] = f[i]
        BY <1>5, Zenon
      <3> QED BY <2>2, <2>3, <3>1, <3>2, <3>3, SMTT(30)
    <2>4. CASE r # n
      <3>1. r \in 0..(n - 1)
        BY <2>1, <2>4, Zenon
      <3>2. /\ ram[r] = InRange(r, Vote(r))
            /\ \A a \in User : mem[a][r] = Vote(r) \/ \E i \in 1..0 : q[i].area = a /\ q[i].slot = r
        BY <1>2, <3>1, SMTT(30) DEF Booting
      <3>3. \A a \in User : mem[a][r] = Vote(r)
        BY <3>2
      <3> QED BY <1>8, <2>1, <2>2, <2>4, <3>2, <3>3, SMTT(30) DEF InRange
    <2> QED BY <2>3, <2>4, Zenon
  <1>12. Booting(todo["init"], n + 1, k)'
    <2> HIDE DEF Putting
    <2>1. Booting(u, n + 1, k)'
      BY <1>5, <1>10, <1>11, Zenon DEF Booting
    <2> QED BY <1>6, <2>1, SMTT(30)
  <1>13. KeptTypeOK'
    BY <1>1, <1>3, <1>6, <1>8, Zenon DEF KeptTypeOK, Quiet, S
  <1>14. n + 1 \in 0..NumRegs /\ k \in 0..2
    BY RegsAssumption
  <1>15. KeptInv'
    BY <1>3, <1>6, <1>9, <1>12, <1>13, <1>14, SMTT(30) DEF KeptInv
  <1>16. AbsStep
    BY <1>3, <1>8, <1>9, AbsFill, SMTT(30)
  <1>17. k = 2 => todo'["init"][1].slot = n /\ todo'["init"][2].slot = Sum
    <2> SUFFICES ASSUME k = 2 PROVE todo'["init"][1].slot = n /\ todo'["init"][2].slot = Sum
      OBVIOUS
    <2>1. u[1] = f[1] /\ u[2] = f[2]
      <3>1. 1 \in 1..k /\ 2 \in 1..k
        OBVIOUS
      <3>2. \A i \in 1..k : u[i] = f[i]
        BY <1>5, Zenon
      <3> QED BY <3>1, <3>2, Zenon
    <2>2. f[1].slot = n /\ f[2].slot = Sum
      BY <1>4, Zenon
    <2> QED BY <1>6, <2>1, <2>2, SMTT(30)
  <1> QED BY <1>2, <1>3, <1>4, <1>12, <1>15, <1>16, <1>17, Zenon

LEMMA BootEnd ==
  ASSUME KeptInv, stage = "boot", Alone("init"), Booting(todo["init"], NumRegs, 0), EndBoot("init")
  PROVE  /\ KeptInv' /\ AbsStep /\ mem' = mem /\ stage' = "up" /\ (\A t \in Actors : todo'[t] = <<>>)
         /\ \A r \in Regs : Uniform(r) /\ ram'[r] = IF r \in Cleared THEN {} ELSE InRange(r, mem[1][r])
  <1> PICK q : q = todo["init"]
    OBVIOUS
  <1>1. KeptTypeOK /\ \A r \in Regs : Agree(r)
    BY Zenon DEF KeptInv
  <1>2. /\ q \in Seq(Instr) /\ "init" \in Actors /\ Booting(q, NumRegs, 0)
        /\ NumRegs \in 0..NumRegs /\ 0 \in 0..2
    BY <1>1, RegsAssumption DEF KeptTypeOK, Actors
  <1>3. /\ Done("init") /\ stage' = "up"
        /\ ram' = [r \in Regs |-> IF r \in Cleared THEN {} ELSE ram[r]]
        /\ UNCHANGED <<scene, mem, flag, source, req, drops>>
    BY Zenon DEF EndBoot
  <1>4. q # <<>> /\ Len(q) = 1
    <2>1. Len(q) = 0 + NumRegs - NumRegs + 1 /\ q # <<>>
      BY <1>2, BootHead, Zenon
    <2> QED BY <2>1, RegsAssumption
  <1>5. Tail(q) = <<>>
    <2> HIDE DEF Instr
    <2>1. Tail(q) \in Seq(Instr) /\ Len(Tail(q)) = Len(q) - 1
      BY <1>2, <1>4, TailFacts, Zenon
    <2>2. Len(Tail(q)) = 0
      BY <1>4, <2>1
    <2> QED BY <2>1, <2>2, EmptySeq, Zenon
  <1>6. /\ todo' \in [Actors -> Seq(Instr)] /\ todo'["init"] = <<>> /\ Alone("init")'
    BY <1>1, <1>2, <1>3, <1>4, <1>5, DoneList, Zenon DEF KeptTypeOK
  <1>7. \A r \in Regs : ram[r] = InRange(r, Vote(r)) /\ \A a \in User : mem[a][r] = Vote(r)
    <2> TAKE r \in Regs
    <2>1. r \in 0..(NumRegs - 1)
      BY Zenon DEF Regs
    <2>2. /\ ram[r] = InRange(r, Vote(r))
          /\ \A a \in User : mem[a][r] = Vote(r) \/ \E i \in 1..0 : q[i].area = a /\ q[i].slot = r
      BY <1>2, <2>1, Zenon DEF Booting
    <2> QED BY <2>2
  <1>8. \A r \in Regs : Uniform(r) /\ Vote(r) = mem[1][r]
    BY <1>7 DEF Uniform, User
  <1>9. ram' \in [Regs -> Word]
    BY <1>1, <1>3, Zenon DEF KeptTypeOK, Word
  <1>10. \A r \in Regs : Split(r)'
    BY <1>3, <1>8, ZenonT(30) DEF Uniform, Split
  <1>11. Doing("init")'
    <2>1. <<>> \in Seq(UpInstr) /\ Range(<<>>) = {} /\ Len(<<>>) = 0
      BY EmptySeq, RangeIn, Zenon
    <2>2. \A i \in 1..0 : FALSE
      OBVIOUS
    <2> HIDE DEF UpInstr, Putting
    <2>3. \A i \in 1..Len(<<>>) : <<>>[i] = WifiSet => i = Len(<<>>)
      BY <2>1, <2>2, Zenon
    <2>4. \A w \in Range(<<>>) : w \in Putting /\ w.slot \in Regs => w.val = ram'[w.slot]
      BY <2>1, Zenon
    <2>5. \A r \in Regs : Uniform(r) /\ \A a \in User : ~Due(<<>>, a, r)
      BY <1>8, NoneDue, Zenon
    <2> QED BY <1>2, <1>3, <1>6, <1>10, <2>1, <2>3, <2>4, <2>5, BeginsWith, Zenon
  <1>12. SameDisk /\ \A r \in Regs : Agree(r)'
    BY <1>1, <1>3, NotWritten, Zenon DEF SameDisk
  <1>13. KeptTypeOK'
    BY <1>1, <1>3, <1>6, <1>9, Zenon DEF KeptTypeOK, Quiet, S
  <1>14. KeptInv'
    BY <1>2, <1>3, <1>6, <1>11, <1>12, <1>13, Zenon DEF KeptInv
  <1>15. AbsStep
    <2>1. \A r \in Regs \ Cleared : ram'[r] = InRange(r, Vote(r))
      BY <1>3, <1>7, Zenon
    <2> QED BY <1>3, <1>9, <1>12, <2>1, AbsRun, Zenon
  <1>16. \A t \in Actors : todo'[t] = <<>>
    BY <1>6, Zenon DEF Alone
  <1> QED BY <1>3, <1>7, <1>8, <1>14, <1>15, <1>16, SMTT(30)

LEMMA NoDrop == KeptInv => \A t : ~Drop(t)
  <1>1. KeptInv => drops = 0 /\ S.drops = 0
    BY Zenon DEF KeptInv, KeptTypeOK, Quiet
  <1>2. ~(0 < 0)
    OBVIOUS
  <1> QED BY <1>1, <1>2, Zenon DEF Drop

\* The instruction that a step is about.
LEMMA StepOps ==
  ASSUME NEW t, Step(t), ~Drop(t)
  PROVE  \/ At(t, {"put", "page", "putIfGood"}) /\ WriteWord(t)
         \/ At(t, {"flag", "flagIfGood"}) /\ WriteFlag(t)
         \/ At(t, {"save"}) /\ StartSave(t)
         \/ At(t, {"verify"}) /\ CheckArea(t)
         \/ At(t, {"load"}) /\ LoadReg(t)
         \/ At(t, {"defaults", "copy"})
         \/ At(t, {"up"}) /\ EndBoot(t)
         \/ At(t, {"wifi"}) /\ SetWifi(t)
         \/ At(t, {"restart"})
  <1>1. WriteWord(t) => At(t, {"put", "page", "putIfGood"})
    BY Zenon DEF WriteWord
  <1>2. WriteFlag(t) => At(t, {"flag", "flagIfGood"})
    BY Zenon DEF WriteFlag
  <1>3. StartSave(t) => At(t, {"save"})
    BY Zenon DEF StartSave
  <1>4. CheckArea(t) => At(t, {"verify"})
    BY Zenon DEF CheckArea
  <1>5. LoadReg(t) => At(t, {"load"})
    BY Zenon DEF LoadReg
  <1>6. FillRegs(t) => At(t, {"defaults", "copy"})
    BY Zenon DEF FillRegs
  <1>7. EndBoot(t) => At(t, {"up"})
    BY Zenon DEF EndBoot
  <1>8. SetWifi(t) => At(t, {"wifi"})
    BY Zenon DEF SetWifi
  <1>9. SystemReset(t) => At(t, {"restart"})
    BY Zenon DEF SystemReset
  <1> QED BY <1>1, <1>2, <1>3, <1>4, <1>5, <1>6, <1>7, <1>8, <1>9, ZenonT(30) DEF Step

\* The steps that a quiet store has when it runs, and those of its start.
LEMMA UpSteps ==
  ASSUME KeptInv, stage = "up", NEW t \in Actors, Step(t)
  PROVE  WriteWord(t) \/ WriteFlag(t) \/ CheckArea(t) \/ StartSave(t) \/ SetWifi(t)
  <1>1. ~Drop(t)
    BY NoDrop, Zenon
  <1>2. todo[t] # <<>>
    BY <1>1, StepOps, Zenon DEF At
  <1>3. todo[t] \in Seq(UpInstr)
    BY <1>2, UpBusy, Zenon DEF Doing
  <1>4. Head(todo[t]) \in UpInstr
    BY <1>2, <1>3, TailFacts, Zenon
  <1>5. Head(todo[t]).op \notin {"load", "up", "flag", "defaults", "copy", "restart"}
    BY <1>4, InstrOps, Zenon
  <1> QED BY <1>1, <1>5, StepOps, Zenon DEF At

LEMMA BootSteps ==
  ASSUME KeptInv, stage # "up", NEW t \in Actors, Step(t)
  PROVE  /\ stage = "boot" /\ t = "init" /\ Alone("init")
         /\ \E n \in 0..NumRegs, k \in 0..2 : Booting(todo["init"], n, k)
         /\ \A n \in 0..NumRegs, k \in 0..2 :
              Booting(todo["init"], n, k) =>
                \/ k > 0 /\ WriteWord("init")
                \/ k = 0 /\ n < NumRegs /\ Head(todo["init"]) = Load(n) /\ LoadReg("init")
                \/ k = 0 /\ n = NumRegs /\ EndBoot("init")
  <1>1. ~Drop(t)
    BY NoDrop, Zenon
  <1>2. todo[t] # <<>> /\ todo[t] \in Seq(Instr)
    <2>1. todo[t] # <<>>
      BY <1>1, StepOps, Zenon DEF At
    <2> QED BY <2>1, Zenon DEF KeptInv, KeptTypeOK
  <1>3. /\ t = "init" /\ stage = "boot" /\ Alone("init")
        /\ \E n \in 0..NumRegs, k \in 0..2 : Booting(todo["init"], n, k)
    BY <1>2, BootBusy, Zenon
  <1>4. ASSUME NEW n \in 0..NumRegs, NEW k \in 0..2, Booting(todo["init"], n, k)
        PROVE  \/ k > 0 /\ WriteWord("init")
               \/ k = 0 /\ n < NumRegs /\ Head(todo["init"]) = Load(n) /\ LoadReg("init")
               \/ k = 0 /\ n = NumRegs /\ EndBoot("init")
    <2>1. \/ k > 0 /\ Head(todo["init"]) \in Putting
          \/ k = 0 /\ n < NumRegs /\ Head(todo["init"]) = Load(n)
          \/ k = 0 /\ n = NumRegs /\ Head(todo["init"]) = GoUp
      BY <1>2, <1>3, <1>4, BootHead, Zenon
    <2>2. CASE k > 0 /\ Head(todo["init"]) \in Putting
      <3>1. Head(todo["init"]).op \in {"put", "page"}
        BY <2>2, InstrOps, Zenon
      <3>2. WriteWord("init")
        BY <1>1, <1>3, <3>1, StepOps, Zenon DEF At
      <3> QED BY <2>2, <3>2, Zenon
    <2>3. CASE k = 0 /\ n < NumRegs /\ Head(todo["init"]) = Load(n)
      <3>1. Head(todo["init"]).op = "load"
        BY <2>3, InstrOps, Zenon
      <3>2. LoadReg("init")
        BY <1>1, <1>3, <3>1, StepOps, ZenonT(30) DEF At
      <3> QED BY <2>3, <3>2, Zenon
    <2>4. CASE k = 0 /\ n = NumRegs /\ Head(todo["init"]) = GoUp
      <3>1. Head(todo["init"]).op = "up"
        BY <2>4, InstrOps, Zenon
      <3>2. EndBoot("init")
        BY <1>1, <1>3, <3>1, StepOps, Zenon DEF At
      <3> QED BY <2>4, <3>2, Zenon
    <2> QED BY <2>1, <2>2, <2>3, <2>4, Zenon
  <1> QED BY <1>3, <1>4, Zenon

LEMMA KeptStutter ==
  ASSUME KeptInv, UNCHANGED vars
  PROVE  KeptInv' /\ AbsStep
  <1>1. UNCHANGED <<scene, mem, flag, ram, stage, source, todo, req, drops>>
    BY Zenon DEF vars
  <1>2. SameDisk /\ \A r \in Regs : Agree(r)'
    BY <1>1, NotWritten, Zenon DEF SameDisk, KeptInv
  <1>3. KeptTypeOK'
    BY <1>1, Zenon DEF KeptInv, KeptTypeOK, Quiet, S
  <1>4. ASSUME NEW n \in 0..NumRegs, NEW k \in 0..2, Booting(todo["init"], n, k)
        PROVE  Booting(todo["init"], n, k)'
    <2> HIDE DEF Vote
    <2>1. \A s : Vote(s)' = Vote(s)
      <3> USE DEF Vote
      <3> QED BY <1>1, Zenon DEF CompareRead, SingleWrite
    <2> QED BY <1>1, <1>4, <2>1 DEF Booting
  <1>5. ASSUME NEW t \in Actors, Doing(t) PROVE Doing(t)'
    BY <1>1, <1>5 DEF Doing, Split, Uniform, Due
  <1>6. \A t \in Actors : Alone(t) => Alone(t)'
    BY <1>1, Zenon DEF Alone
  <1>7. stage' = "boot" => Alone("init")' /\ \E n \in 0..NumRegs, k \in 0..2 : Booting(todo["init"], n, k)'
    BY <1>1, <1>4, <1>6, ZenonT(30) DEF KeptInv, Actors
  <1>8. stage' = "up" => \E t \in Actors : Alone(t)' /\ Doing(t)'
    BY <1>1, <1>5, <1>6, SMTT(30) DEF KeptInv
  <1>9. stage' = "off" => \A t \in Actors : todo'[t] = <<>>
    BY <1>1, ZenonT(30) DEF KeptInv
  <1>10. KeptInv'
    BY <1>2, <1>3, <1>7, <1>8, <1>9, SMTT(30) DEF KeptInv
  <1> QED BY <1>1, <1>2, <1>10, AbsStutter, Zenon

LEMMA KeptNext == KeptInv /\ [Next]_vars => KeptInv' /\ AbsStep
  <1> SUFFICES ASSUME KeptInv, [Next]_vars PROVE KeptInv' /\ AbsStep
    OBVIOUS
  <1>1. CASE PowerFail
    BY <1>1, DownKept, Zenon DEF PowerFail
  <1>2. CASE PowerOn
    BY <1>2, PowerOnKept, Zenon
  <1>3. CASE PadWrite
    BY <1>3, PadWriteKept, Zenon
  <1>4. CASE CoreWrite
    BY <1>4, CoreWriteKept, SMTT(30)
  <1>5. CASE MultiWrite
    BY <1>5, MultiWriteKept, Zenon
  <1>6. ~FactoryCommand /\ ~CpadCommand
    BY Zenon DEF KeptInv, KeptTypeOK, Quiet, FactoryCommand, CpadCommand
  <1>7. ASSUME NEW t \in Actors, Step(t) PROVE KeptInv' /\ AbsStep
    <2>1. CASE stage = "up"
      <3>1. WriteWord(t) \/ WriteFlag(t) \/ CheckArea(t) \/ StartSave(t) \/ SetWifi(t)
        BY <1>7, <2>1, UpSteps, Zenon
      <3> QED BY <2>1, <3>1, UpWrite, UpOther, UpSave, UpWifi, Zenon
    <2>2. ASSUME stage = "boot", Alone("init"), NEW n \in 0..NumRegs, NEW k \in 0..2,
                 Booting(todo["init"], n, k), k > 0, WriteWord("init")
          PROVE  KeptInv' /\ AbsStep
      <3>1. k \in 1..2
        BY <2>2
      <3> QED BY <2>2, <3>1, BootWrite, Zenon
    <2>3. ASSUME stage = "boot", Alone("init"), NEW n \in 0..NumRegs, n < NumRegs,
                 Booting(todo["init"], n, 0), Head(todo["init"]) = Load(n), LoadReg("init")
          PROVE  KeptInv' /\ AbsStep
      BY <2>3, BootLoad, Zenon
    <2>4. ASSUME stage = "boot", Alone("init"), Booting(todo["init"], NumRegs, 0), EndBoot("init")
          PROVE  KeptInv' /\ AbsStep
      BY <2>4, BootEnd, Zenon
    <2> QED BY <1>7, <2>1, <2>2, <2>3, <2>4, BootSteps, Zenon
  <1>8. CASE UNCHANGED vars
    BY <1>8, KeptStutter, Zenon
  <1> QED BY <1>1, <1>2, <1>3, <1>4, <1>5, <1>6, <1>7, <1>8, SMTT(30) DEF Next

\* For every number of registers, range and default, every set of threads and
\* of images of multiple writes: whatever the power does, each register of a
\* quiet store is kept as one word that changes from the old to the new value
\* at once, and a start brings it back (eeprom_compare_read,
\* eeprom_tripple_write, save_conf_reg, sys_global_var_init).
THEOREM QuietKeptAtomically == Spec /\ Quiet => KeptAtomically
  <1>1. Init /\ Quiet => Registers!AbsInit
    <2> SUFFICES ASSUME Init, Quiet PROVE Registers!AbsInit
      OBVIOUS
    <2>1. KeptInv
      BY KeptInit, Zenon
    <2>2. \A r \in Regs : CompareRead(r).val \in Word
      BY <2>1, VoteWord, SlotFacts, Zenon DEF KeptInv, KeptTypeOK, Vote
    <2> QED BY <2>1, <2>2, Zenon DEF Registers!AbsInit, Init, KeptInv, KeptTypeOK
  <1>2. KeptInv /\ [Next]_vars => [Registers!AbsNext]_(Registers!absVars)
    BY KeptNext, Zenon DEF AbsStep
  <1> QED BY <1>1, <1>2, KeptInit, KeptNext, PTL DEF Spec, KeptAtomically, Registers!AbsSpec
=============================================================================
