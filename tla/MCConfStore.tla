----------------------------- MODULE MCConfStore -----------------------------
(***************************************************************************)
(* Instances of ConfStore for TLC; the other constants are in the .cfg files. *)
(***************************************************************************)
EXTENDS ConfStore, TLC

\* Two bits, so that three copies of a word can all differ.
TwoBits == {0, 1}
AllButTop == {0}
OneBit == {0}

\* Register 0 has the range 0..2 and the default 1; register 1 takes every
\* value, is an identity register and has the default 2.
Ranges == [r \in 0..1 |-> IF r = 0 THEN {{}, {0}, {1}} ELSE SUBSET {0, 1}]
DefaultWords == [r \in 0..1 |-> IF r = 0 THEN {0} ELSE {1}]

\* The pad sets registers to one of two new values, the first
\* out of the range of register 0.
PadImages == {[r \in Regs |-> {0, 1}], [r \in Regs |-> {}]}

\* Single writes of the pad and of core, and nothing goes wrong.
Calm == [ramOnly |-> {}, threads |-> {"pad", "core"}, images |-> {},
         factory |-> FALSE, virgin |-> FALSE, jumper |-> {FALSE},
         powerLoss |-> FALSE, drops |-> 0]

\* The power fails between single writes, and between multiple ones.
Single == [Calm EXCEPT !.powerLoss = TRUE]
Multiple == [Single EXCEPT !.images = PadImages]

\* Register 0 says what to dispense.
Dispense == [Single EXCEPT !.ramOnly = {0}]

\* The power fails between the commands of cpad.
Commands == [Single EXCEPT !.threads = {"cpad", "core"}, !.factory = TRUE,
                           !.jumper = BOOLEAN]

\* A write fails.
Dropped == [Calm EXCEPT !.images = PadImages, !.drops = 1]

\* A new board, and the factory commands.
Fresh == [Calm EXCEPT !.threads = {"pad"}, !.images = PadImages, !.factory = TRUE,
                      !.virgin = TRUE, !.jumper = BOOLEAN]

\* What the store withstands.
KeptScenes == ("single" :> Single) @@ ("dispense" :> Dispense) @@
              ("multiple" :> Multiple) @@ ("commands" :> Commands) @@
              ("fresh" :> Fresh)
DurableScenes == ("single" :> Single) @@ ("dropped" :> Dropped) @@
                 ("fresh" :> Fresh)
CalmScenes == "calm" :> Calm

\* What it does not, see README.md.
MultipleScenes == "multiple" :> Multiple
FailingScenes == "failing" :> [Commands EXCEPT !.threads = Threads]
FreshFailing == "fresh" :> [Fresh EXCEPT !.powerLoss = TRUE]
=============================================================================
