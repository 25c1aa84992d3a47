---------------------------- MODULE MCModeStatus ----------------------------
(* The status word with one of the bits of bkg and one coil: the others    *)
(* are written in the same way.                                            *)
EXTENDS ModeStatus

OneBit == <<"PWR">>
OneCoil == <<"DEFROST1">>
=============================================================================
