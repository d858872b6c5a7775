---------------------------- MODULE MCSmapiThresh ---------------------------
(* Two attribute users of battery 0 and a BIOS that may succeed, fail or   *)
(* ask to be called again.                                                 *)
EXTENDS SmapiThresh, TLC

MCCodes == {"c0x00", "c0x90", "c0xa6"}
MCCodesWithBusy == MCCodes \cup {"c0x92"}

\* Below the clamps, in the middle, and the greatest, which is the default.
MCRequests == {1, 52, 100}

Symmetry == Permutations(Tasks)
=============================================================================
