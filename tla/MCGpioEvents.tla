---------------------------- MODULE MCGpioEvents ----------------------------
(* Instances of GpioEvents for TLC: a program is the set of functions that *)
(* it calls.                                                               *)
EXTENDS GpioEvents

\* one that takes detection back and cleans up, and one that waits for edges
CleaningUp == {"addcb", "input", "remove", "cleanup"}
Watching   == {"add", "addcb", "callback", "input", "detected", "wait"}
=============================================================================
