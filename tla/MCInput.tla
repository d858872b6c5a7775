------------------------------- MODULE MCInput ------------------------------
(***************************************************************************)
(* The two programs that make input events, wacom-input and tablet-mode.   *)
(* They share nothing: one of them runs, and the other has not started.    *)
(*                                                                         *)
(* A tablet for each parser and each way to compute the pressure, and one  *)
(* whose version has no parser.                                            *)
(***************************************************************************)
EXTENDS WacomTablet, TabletMode

MCTablets ==
  {[protocol |-> "V", major |-> 1, minor |-> 2],
   [protocol |-> "tpc", major |-> 0, minor |-> 0]}
    \cup {[protocol |-> "IV", major |-> 1, minor |-> m] : m \in 1 .. 4}
    \cup {[protocol |-> "IV", major |-> 2, minor |-> 0]}

VARIABLE program

InputInit == Init /\ ModeInit /\ program \in {"wacom-input", "tablet-mode"}

InputNext ==
  \/ program = "wacom-input" /\ Next /\ UNCHANGED <<modeVars, program>>
  \/ program = "tablet-mode" /\ ModeNext /\ UNCHANGED <<vars, program>>

InputSpec == InputInit /\ [][InputNext]_<<vars, modeVars, program>>
=============================================================================
