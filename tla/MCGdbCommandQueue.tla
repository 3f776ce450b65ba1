-------------------------- MODULE MCGdbCommandQueue ---------------------------
(* Instances of GdbCommandQueue for TLC.                                   *)
EXTENDS GdbCommandQueue

CONSTANTS main, other   \* the thread of Fuzz() and the one of the preconditions

One == {main}
Two == {main, other}

NoSurprise == {}
Signal     == {"signal"}

(* Every call of the connector: those of the fuzzing loop and its loggers, *)
(* and those that connect, set breakpoints and read symbols.               *)
AllUses     == [c \in One |-> Class \ {RunCmd, SimpleCmd}]
(* The precondition thread looks variables up and writes memory while the  *)
(* main thread continues the target.                                       *)
PairUses    == [c \in Two |-> IF c = main THEN {ContinueCmd, DeleteBreakpointCmd, RecordSaveCmd}
                              ELSE {PrintCmd, RestoreCmd}]
ContinueUses == [c \in One |-> {ContinueCmd}]
===============================================================================
