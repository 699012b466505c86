----------------------------- MODULE MCSsuProc -----------------------------
(* TLC instances of SsuProc: the bounds and the tick windows of each run   *)
(* are in its .cfg file.                                                   *)
EXTENDS SsuProc

AllCommands == {"returns", "exits"}
NoWindow == {}
SwitchTicks == {"switch"}
HarmlessTicks == {"release", "idle"}
=============================================================================
