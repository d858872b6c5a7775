---------------------------- MODULE MCThinkpadEC ----------------------------
(***************************************************************************)
(* Instances of ThinkpadEC for TLC: hdaps's accelerometer row, which is    *)
(* prefetched, and two of its configuration rows, which share their first  *)
(* and last argument byte and are not.                                     *)
(***************************************************************************)
EXTENDS ThinkpadEC

CONSTANTS accel, config1, config2

MCRows == {accel, config1, config2}
MCPrefetchRows == {accel}
MCKeys == {"0x00", "0x11", "0x10"}
MCKey == [r \in MCRows |-> IF r = accel THEN "0x11" ELSE "0x10"]
=============================================================================
