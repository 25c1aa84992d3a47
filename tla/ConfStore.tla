------------------------------ MODULE ConfStore ------------------------------
(***************************************************************************)
(* The configuration registers and their copies in the EEPROM              *)
(* (applications/global_var.c, and the commands of the pad and of the      *)
(* command registers that reach it).                                       *)
(*                                                                         *)
(* Every register has a word in RAM and a word in each of three user areas; *)
(* reads take the majority and repair the odd one out.  A fourth area      *)
(* holds the factory settings, and a flag byte says what to load at the    *)
(* next start.  An area ends with the exclusive or of its words.           *)
(*                                                                         *)
(* todo[t] is what thread t has still to do of the operation it is in, as a *)
(* list of instructions.  Each EEPROM write is one instruction: it holds   *)
(* the I2C mutex and ends with a delay, and the power may fail between any *)
(* two.  The threads take turns here, one operation at a time, so that the *)
(* reads of an operation may be taken together at its start;               *)
(* ConfStoreShared separates them for two threads at once.                 *)
(*                                                                         *)
(* A word is the set of its one bits: {} is 0, Bits is the 0xFFFF of a     *)
(* blank EEPROM, and the exclusive or is the symmetric difference.         *)
(***************************************************************************)
EXTENDS Integers, Sequences, FiniteSets

CONSTANTS
  NumRegs,    \* CONF_REG_MAP_NUM
  SidStart,   \* CONF_REG_SID_START: the identity registers begin here
  Bits,       \* the bits of a word
  BadWord,    \* 0x7fff: what eeprom_compare_read answers when all differ
  Valid,      \* the values from min to max of each register
  Dft,        \* the default value of each register
  Cleared,    \* the registers that every start sets to zero
  CoreRegs,   \* EE_EXITWATER, EE_STORAGE: the core thread sets them to zero
  WifiReg,    \* EE_WIFI_SET
  WifiOn,     \* WIFI_SET
  Scenarios   \* what happens to the store, by name, see Scenario

Regs == 0..(NumRegs - 1)
Word == SUBSET Bits
User == 1..3
Fact == 4
Area == User \cup {Fact}
Sum == NumRegs               \* the checksum is stored as register NumRegs
Slot == 0..NumRegs
Flags == {"USR", "FACT", "DFT", "DEBUT"}

ASSUME RegsAssumption ==
  /\ NumRegs \in Nat \ {0} /\ SidStart \in 0..NumRegs
  /\ Cleared \subseteq Regs
  /\ CoreRegs \subseteq Regs /\ WifiReg \in Regs
ASSUME WordAssumption == BadWord \in Word /\ WifiOn \in Word
ASSUME RangeAssumption ==
  /\ Valid \in [Regs -> SUBSET Word]
  /\ Dft \in [Regs -> Word]
  /\ \A r \in Regs : Dft[r] \in Valid[r]

Threads == {"pad", "core", "cpad"}
Actors == Threads \cup {"init"}

\* The registers that are not written to the EEPROM (EE_WATER_MODE and
\* EE_WATER_FLOW), the threads that use the store, the values that multiple writes of the pad
\* send, whether there are factory commands, whether the EEPROM starts blank,
\* the positions the Start_Init jumper is found in, whether the power fails and
\* how many EEPROM writes fail.
Scenario ==
  [ramOnly : SUBSET Cleared, threads : SUBSET Threads, images : SUBSET [Regs -> Word],
   factory : BOOLEAN, virgin : BOOLEAN, jumper : SUBSET BOOLEAN, powerLoss : BOOLEAN, drops : Nat]

ASSUME ScenarioAssumption == \A n \in DOMAIN Scenarios : Scenarios[n] \in Scenario

VARIABLES
  scene,   \* the name of the scenario
  mem,     \* the EEPROM areas
  flag,    \* the flag byte at STS_EE_ADDR
  ram,     \* what the reg_ptr of each register points to
  stage,   \* "off", "boot" (in sys_global_var_init), "up"
  source,  \* em_init_state of this start
  todo,    \* the instructions each thread has still to execute
  req,     \* how many areas the save_conf_reg of each thread found wrong
  drops    \* the EEPROM writes that have failed

vars == <<scene, mem, flag, ram, stage, source, todo, req, drops>>

S == Scenarios[scene]

----------------------------------------------------------------------------
(* Words and votes.                                                        *)

Xor(a, b) == (a \ b) \cup (b \ a)

\* checksum_u16.
Checksum(img) == {b \in Bits : Cardinality({r \in Regs : b \in img[r]}) % 2 = 1}

\* The checksum of init_load_factory_conf over the factory area is zero.
FactGood == Checksum(mem[Fact]) = mem[Fact][Sum]

\* What conf_reg_read_ee puts into a register.
InRange(r, v) == IF v \in Valid[r] THEN v ELSE Dft[r]

----------------------------------------------------------------------------
(* Instructions.                                                           *)

\* One word, one word of a block, one word unless a comparison failed.
Put(a, s, v) == [op |-> "put", area |-> a, slot |-> s, val |-> v]
Page(a, s, v) == [op |-> "page", area |-> a, slot |-> s, val |-> v]
PutIfGood(a, s, v) == [op |-> "putIfGood", area |-> a, slot |-> s, val |-> v]
\* The flag byte.
SetFlag(f) == [op |-> "flag", val |-> f]
SetFlagIfGood(f) == [op |-> "flagIfGood", val |-> f]
\* The block read back and compared.
Verify(a, img) == [op |-> "verify", area |-> a, val |-> img]
\* save_conf_reg(0) and save_conf_reg(1).
Save(fact) == [op |-> "save", fact |-> fact]
\* conf_reg_read_ee(r).
Load(r) == [op |-> "load", slot |-> r]
\* The defaults below SidStart; the factory area into RAM.
Defaults == [op |-> "defaults"]
CopyFact == [op |-> "copy"]
\* The end of sys_global_var_init.
GoUp == [op |-> "up"]
\* RAM_Write_Reg(EE_WIFI_SET).
WifiSet == [op |-> "wifi"]
\* NVIC_SystemReset, if fewer than n areas were found wrong.
RestartIf(n) == [op |-> "restart", val |-> n]
Restart == RestartIf(4)

\* eeprom_singel_write: the word, and then the checksum read before it with
\* the difference applied.
SingleWrite(a, s, wr, rd) ==
  <<Put(a, s, wr), Put(a, Sum, Xor(Xor(mem[a][Sum], rd), wr))>>

\* Faulty variant: the vote is taken, but nothing is repaired.
CompareReadNoRepair(s) ==
  LET v(a) == mem[a][s]
      read(x) == [val |-> x, err |-> FALSE, fix |-> <<>>] IN
  CASE v(1) = v(2) \/ v(1) = v(3) -> read(v(1))
    [] v(2) = v(3) /\ v(1) # v(2) -> read(v(2))
    [] OTHER -> [val |-> BadWord, err |-> TRUE, fix |-> <<>>]

\* Faulty variant: with the first copy wrong, the second is overwritten.
CompareReadWrongRepair(s) ==
  LET v(a) == mem[a][s]
      read(x, fix) == [val |-> x, err |-> FALSE, fix |-> fix] IN
  CASE v(1) = v(2) /\ v(2) = v(3) -> read(v(1), <<>>)
    [] v(1) = v(2) /\ v(2) # v(3) -> read(v(1), SingleWrite(3, s, v(1), v(3)))
    [] v(1) = v(3) /\ v(1) # v(2) -> read(v(3), SingleWrite(2, s, v(3), v(2)))
    [] v(2) = v(3) /\ v(1) # v(2) -> read(v(2), SingleWrite(2, s, v(1), v(2)))
    [] OTHER -> [val |-> BadWord, err |-> TRUE, fix |-> <<>>]

\* eeprom_compare_read: the majority of the three user areas, and the repair.
CompareRead(s) ==
  LET v(a) == mem[a][s]
      read(x, fix) == [val |-> x, err |-> FALSE, fix |-> fix] IN
  CASE v(1) = v(2) /\ v(2) = v(3) -> read(v(1), <<>>)
    [] v(1) = v(2) /\ v(2) # v(3) -> read(v(1), SingleWrite(3, s, v(1), v(3)))
    [] v(1) = v(3) /\ v(1) # v(2) -> read(v(3), SingleWrite(2, s, v(3), v(2)))
    [] v(2) = v(3) /\ v(1) # v(2) -> read(v(2), SingleWrite(1, s, v(2), v(1)))
    [] OTHER -> [val |-> BadWord, err |-> TRUE, fix |-> <<>>]

\* The six writes of eeprom_tripple_write.
TripleWrite(r, v, sum) ==
  [i \in 1..6 |-> IF i <= 3 THEN Put(i, r, v) ELSE Put(i - 3, Sum, sum)]

\* One area of save_conf_reg: the words, the comparison, and if no area has
\* differed so far the checksum and the flag.
SaveArea(a, img, f) ==
  [i \in 1..NumRegs |-> Page(a, i - 1, img[i - 1])]
    \o <<Verify(a, img), PutIfGood(a, Sum, Checksum(img)), SetFlagIfGood(f)>>

SaveUser(img) == SaveArea(1, img, "USR") \o SaveArea(2, img, "USR") \o SaveArea(3, img, "USR")

SaveFact(img) == SaveArea(Fact, img, "FACT")

Loads(from) == [i \in 1..(NumRegs - from) |-> Load(from + i - 1)]

\* init_load_default, also taken by init_load_factory_conf when the factory
\* area is broken.
LoadDefault == <<Defaults>> \o Loads(SidStart)

\* Faulty variant: a successful load of the factory settings is not saved.
StartProgramNoSave(s) ==
  (CASE s = "USR" -> Loads(0)
     [] s = "FACT" -> IF FactGood THEN <<CopyFact, SetFlag("USR")>> ELSE LoadDefault
     [] s = "DEBUT" -> LoadDefault \o <<Save(FALSE), Save(TRUE), SetFlag("USR")>>
     [] s = "DFT" -> LoadDefault) \o <<GoUp>>

\* sys_global_var_init.
StartProgram(s) ==
  (CASE s = "USR" -> Loads(0)
     [] s = "FACT" -> IF FactGood THEN <<CopyFact, Save(FALSE), SetFlag("USR")>> ELSE LoadDefault
     [] s = "DEBUT" -> LoadDefault \o <<Save(FALSE), Save(TRUE), SetFlag("USR")>>
     [] s = "DFT" -> LoadDefault) \o <<GoUp>>

----------------------------------------------------------------------------
(* Power.                                                                  *)

\* RAM is lost; the EEPROM is not.
Down ==
  /\ stage' = "off" /\ source' = "USR"
  /\ ram' = [r \in Regs |-> {}]
  /\ todo' = [t \in Actors |-> <<>>]
  /\ req' = [t \in Actors |-> 0]
  /\ UNCHANGED <<scene, mem, flag, drops>>

PowerFail == S.powerLoss /\ stage # "off" /\ Down

\* get_ee_status: the jumper stands for a flag that asks for a first start.
PowerOn ==
  /\ stage = "off" /\ stage' = "boot"
  /\ \E j \in S.jumper : source' = IF j THEN "DEBUT" ELSE flag
  /\ todo' = [todo EXCEPT !["init"] = StartProgram(source')]
  /\ UNCHANGED <<scene, mem, flag, ram, req, drops>>

----------------------------------------------------------------------------
(* Operations of the running system.                                       *)

\* One operation at a time; ConfStoreShared has two.
Free(t) == t \in S.threads /\ stage = "up" /\ \A s \in Actors : todo[s] = <<>>

\* reg_map_write of a value in range, old being in RAM: RAM, and then
\* eeprom_tripple_write, which gives up when the three checksums all differ;
\* reg_map_write reports success all the same.  Three checksums of zero leave
\* cs_data as it was on the stack.
WriteReg(t, r, old, v) ==
  /\ ram' = [ram EXCEPT ![r] = v]
  /\ \E c \in {CompareRead(Sum)} : \E junk \in IF c.val = {} /\ c.fix = <<>> THEN Word ELSE {c.val} :
       todo' = [todo EXCEPT ![t] =
         IF r \in S.ramOnly \/ c.err THEN <<>>
         ELSE c.fix \o TripleWrite(r, v, Xor(Xor(junk, old), v))]
  /\ UNCHANGED <<scene, mem, flag, stage, source, req, drops>>

\* A single write of the pad.
PadWrite == Free("pad") /\ \E r \in Regs : \E v \in Valid[r] : WriteReg("pad", r, ram[r], v)

\* Pwp_req_exe and Storage_exe end a mode: they clear the register, and
\* reg_map_write then takes the new value for the old one.
CoreWrite == Free("core") /\ \E r \in CoreRegs : WriteReg("core", r, {}, {})

\* A multiple write of the pad: the registers in RAM, whatever their range,
\* and then save_conf_reg(0); after the Wifi password, EE_WIFI_SET.
MultiWrite ==
  /\ Free("pad")
  /\ \E img \in S.images, lo \in Regs, hi \in Regs, then \in {<<>>, <<WifiSet>>} :
       /\ lo <= hi
       /\ ram' = [r \in Regs |-> IF r \in lo..hi THEN img[r] ELSE ram[r]]
       /\ todo' = [todo EXCEPT !["pad"] = <<Save(FALSE)>> \o then]
  /\ UNCHANGED <<scene, mem, flag, stage, source, req, drops>>

\* FACTORY_RESET of the pad: original settings, factory settings, save as
\* factory settings, restart.
FactoryCommand ==
  /\ S.factory /\ Free("pad")
  /\ \E ws \in {<<SetFlag("DEBUT")>>, <<SetFlag("FACT")>>, <<Save(TRUE)>>, <<>>} :
       todo' = [todo EXCEPT !["pad"] = ws \o <<Restart>>]
  /\ UNCHANGED <<scene, mem, flag, ram, stage, source, req, drops>>

\* obcmd_load_fact, obcmd_save_conf and obcmd_load_conf of the cpad thread.
CpadCommand ==
  /\ S.factory /\ Free("cpad")
  /\ \E ws \in {(IF FactGood THEN <<CopyFact>> ELSE LoadDefault)
                   \o <<Save(FALSE), SetFlag("USR"), Restart>>,
                <<Save(FALSE), RestartIf(2)>>,
                <<Save(TRUE), RestartIf(1)>>,
                <<SetFlag("USR")>>}
             \cup {<<SetFlag(f), Restart>> : f \in {"FACT", "DEBUT", "DFT"}} :
       todo' = [todo EXCEPT !["cpad"] = ws]
  /\ UNCHANGED <<scene, mem, flag, ram, stage, source, req, drops>>

----------------------------------------------------------------------------
(* The instructions of thread t.                                           *)

At(t, ops) == todo[t] # <<>> /\ Head(todo[t]).op \in ops

Done(t) == todo' = [todo EXCEPT ![t] = Tail(@)]

\* I2C_EE_BufWrite of a word.
WriteWord(t) ==
  /\ At(t, {"put", "page", "putIfGood"})
  /\ \E w \in {Head(todo[t])} :
       mem' = IF w.op = "putIfGood" /\ req[t] > 0 THEN mem
              ELSE [mem EXCEPT ![w.area][w.slot] = w.val]
  /\ Done(t)
  /\ UNCHANGED <<scene, flag, ram, stage, source, req, drops>>

\* I2C_EE_BufWrite of the flag.
WriteFlag(t) ==
  /\ At(t, {"flag", "flagIfGood"})
  /\ \E w \in {Head(todo[t])} : flag' = IF w.op = "flagIfGood" /\ req[t] > 0 THEN flag ELSE w.val
  /\ Done(t)
  /\ UNCHANGED <<scene, mem, ram, stage, source, req, drops>>

\* I2C_EE_BufWrite fails (the mutex is not had within 50 ticks, or the bus
\* does not answer): a word, or pages of a block, are not written.  No caller
\* looks at the result.
Drop(t) ==
  /\ At(t, {"put", "page", "putIfGood", "flag", "flagIfGood"})
  /\ drops < S.drops /\ drops' = drops + 1
  /\ \E n \in 1..Len(todo[t]) :
       /\ n > 1 => \A i \in 1..n : todo[t][i].op = "page"
       /\ todo' = [todo EXCEPT ![t] = SubSeq(@, n + 1, Len(@))]
  /\ UNCHANGED <<scene, mem, flag, ram, stage, source, req>>

\* save_conf_reg reads the registers; err_cnt and req are zero.
StartSave(t) ==
  /\ At(t, {"save"})
  /\ todo' = [todo EXCEPT ![t] =
       (IF Head(@).fact THEN SaveFact(ram) ELSE SaveUser(ram)) \o Tail(@)]
  /\ req' = [req EXCEPT ![t] = 0]
  /\ UNCHANGED <<scene, mem, flag, ram, stage, source, drops>>

\* err_cnt is not reset between areas: once one differs, so do the next.
CheckArea(t) ==
  /\ At(t, {"verify"})
  /\ \E w \in {Head(todo[t])} :
       req' = [req EXCEPT ![t] =
         IF @ > 0 \/ \E r \in Regs : mem[w.area][r] # w.val[r] THEN @ + 1 ELSE 0]
  /\ Done(t)
  /\ UNCHANGED <<scene, mem, flag, ram, stage, source, drops>>

\* conf_reg_read_ee, the repair being next.
LoadReg(t) ==
  /\ At(t, {"load"})
  /\ \E r \in {Head(todo[t]).slot} : \E c \in {CompareRead(r)} :
       /\ ram' = [ram EXCEPT ![r] = InRange(r, c.val)]
       /\ todo' = [todo EXCEPT ![t] = c.fix \o Tail(@)]
  /\ UNCHANGED <<scene, mem, flag, stage, source, req, drops>>

FillRegs(t) ==
  /\ At(t, {"defaults", "copy"})
  /\ ram' = IF At(t, {"copy"}) THEN [r \in Regs |-> mem[Fact][r]]
            ELSE [r \in Regs |-> IF r < SidStart THEN Dft[r] ELSE ram[r]]
  /\ Done(t)
  /\ UNCHANGED <<scene, mem, flag, stage, source, req, drops>>

\* The end of sys_global_var_init: test modes, dispensing and the network
\* error are reset, in RAM only.
EndBoot(t) ==
  /\ At(t, {"up"})
  /\ stage' = "up"
  /\ ram' = [r \in Regs |-> IF r \in Cleared THEN {} ELSE ram[r]]
  /\ Done(t)
  /\ UNCHANGED <<scene, mem, flag, source, req, drops>>

\* The register is set before RAM_Write_Reg, as in CoreWrite.
SetWifi(t) ==
  /\ At(t, {"wifi"})
  /\ WriteReg(t, WifiReg, WifiOn, WifiOn)

SystemReset(t) ==
  /\ At(t, {"restart"})
  /\ IF req[t] < Head(todo[t]).val THEN Down
     ELSE Done(t) /\ UNCHANGED <<scene, mem, flag, ram, stage, source, req, drops>>

Step(t) ==
  \/ WriteWord(t) \/ WriteFlag(t) \/ Drop(t) \/ StartSave(t) \/ CheckArea(t)
  \/ LoadReg(t) \/ FillRegs(t) \/ EndBoot(t) \/ SetWifi(t) \/ SystemReset(t)

----------------------------------------------------------------------------
Provisioned == [a \in Area |-> [s \in Slot |-> IF s = Sum THEN Checksum(Dft) ELSE Dft[s]]]

Blank == [a \in Area |-> [s \in Slot |-> Bits]]

\* The board is switched off; the EEPROM is new or holds the defaults.
Init ==
  /\ scene \in DOMAIN Scenarios
  /\ mem = IF S.virgin THEN Blank ELSE Provisioned
  /\ flag = IF S.virgin THEN "DEBUT" ELSE "USR"
  /\ ram = [r \in Regs |-> {}]
  /\ stage = "off" /\ source = "USR"
  /\ todo = [t \in Actors |-> <<>>]
  /\ req = [t \in Actors |-> 0]
  /\ drops = 0

Next ==
  \/ PowerFail \/ PowerOn
  \/ PadWrite \/ CoreWrite \/ MultiWrite \/ FactoryCommand \/ CpadCommand
  \/ \E t \in Actors : Step(t)

Spec == Init /\ [][Next]_vars

----------------------------------------------------------------------------
(* Properties.                                                             *)

\* Every variable stays within its type: the words, the flag and the count of
\* wrong areas that save_conf_reg keeps.
TypeOK ==
  /\ mem \in [Area -> [Slot -> Word]]
  /\ flag \in Flags
  /\ ram \in [Regs -> Word]
  /\ stage \in {"off", "boot", "up"}
  /\ source \in Flags
  /\ req \in [Actors -> 0..3]
  /\ drops \in 0..S.drops

\* What conf_reg_read_ee would load into register r now.
Stored(r) == InRange(r, CompareRead(r).val)

Idle == stage = "up" /\ \A t \in Actors : todo[t] = <<>>

\* With no operation under way the next start loads the user areas, and gets
\* from them what is in use (reg_map_write, save_conf_reg,
\* sys_global_var_init).
Durable ==
  Idle => flag = "USR" /\ \A r \in Regs \ Cleared : Stored(r) = InRange(r, ram[r])

\* With single writes the three checksums never all differ, so no write is
\* refused (eeprom_tripple_write).  With multiple writes they can, see README.md.
ChecksumsVote == Idle /\ S.images = {} /\ ~S.factory => ~CompareRead(Sum).err

\* The registers implement ConfRegisters, the word kept for a register being
\* the vote of its three copies: power failures and repairs included, it is
\* always the old or the new value (eeprom_compare_read, save_conf_reg).
Registers ==
  INSTANCE ConfRegisters WITH
    disk <- [r \in Regs |-> CompareRead(r).val],
    up <- (stage = "up"),
    plain <- (source = "USR")

KeptAtomically == Registers!AbsSpec

\* What the comment "EE_FLAG_OK: configuration data valid in eeprom" of
\* get_ee_status says of the flag: when it selects the user areas, the user
\* areas hold the configuration.  It does not hold, see README.md.
FlagMeansValid == flag = "USR" => \A r \in Regs : CompareRead(r).val \in Valid[r]
=============================================================================
