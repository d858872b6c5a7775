---------------------------- MODULE HdapsReadout ----------------------------
(***************************************************************************)
(* What src/tp_smapi/hdaps.c does with a readout: __hdaps_update stores    *)
(* the position in two globals and turns it there into the orientation of  *)
(* the machine, then calibrates if asked to, all under the EC semaphore;   *)
(* the stores of the invert and calibrate attributes write their globals   *)
(* without it.  A step is one access to a global that others write.        *)
(*                                                                         *)
(* A coordinate is named by the readout and the axis it comes from, and by *)
(* whether it was negated.                                                 *)
(***************************************************************************)
EXTENDS FiniteSets

CONSTANTS
  Tasks,         \* processes that use the attributes
  Poll,          \* the timer's softirq
  Nobody,        \* the semaphore is free
  Readouts,      \* accelerometer readouts told apart
  Nowhere,       \* what the positions are before the first readout
  Orientations   \* the orientation codes in use, as sets of bits

Procs == Tasks \cup {Poll}

Bits == {"SWAP", "INVERT_XY", "INVERT_X"}

\* What is written to the invert attribute: those codes and one above
\* HDAPS_ORIENT_MAX.
Written == Orientations \cup {{"more"}}

ASSUME ReadoutAssumption ==
  /\ Poll \notin Tasks /\ Nobody \notin Procs
  /\ Nowhere \notin Readouts
  /\ Orientations \subseteq SUBSET Bits

VARIABLES
  pc,                \* where each process is
  sem,               \* holder of thinkpad_ec_mutex
  readout,           \* the readout an update is storing
  pos_x, pos_y,      \* in the course of an update, half stored or half turned
  z,                 \* transform_axes's local variable
  rest_x, rest_y,
  hdaps_invert,
  needs_calibration,
  stale_readout,
  used,              \* history: hdaps_invert when pos_x was last stored
  turned,            \* history: it was stored since, before the update ended
  mixed              \* history: the same, of the update that calibrated

posVars == <<pos_x, pos_y, z>>
restVars == <<rest_x, rest_y, mixed>>
flagVars == <<needs_calibration, stale_readout>>
vars == <<pc, sem, readout, pos_x, pos_y, z, rest_x, rest_y, hdaps_invert,
          needs_calibration, stale_readout, used, turned, mixed>>

Coord(r, axis) == [of |-> r, axis |-> axis, neg |-> FALSE]
Coords == [of : Readouts \cup {Nowhere}, axis : {"X", "Y"}, neg : BOOLEAN]
Negated(c) == [c EXCEPT !.neg = ~@]

Goto(p, l) == pc' = [pc EXCEPT ![p] = l]

\* The steps of __hdaps_update after its row was read.
Parsing == {"y", "swap", "swap x", "swap y", "invert x", "invert y", "invert",
            "check"}

\* hdaps_init: the calibration is deferred.
Init ==
  /\ pc = [p \in Procs |-> IF p = Poll THEN "off" ELSE "out"]
  /\ sem = Nobody
  /\ readout = Nowhere
  /\ pos_x = Coord(Nowhere, "X") /\ pos_y = Coord(Nowhere, "Y")
  /\ z = Coord(Nowhere, "X")
  /\ rest_x = pos_x /\ rest_y = pos_y
  /\ hdaps_invert \in Orientations
  /\ needs_calibration = TRUE
  /\ stale_readout = TRUE
  /\ used = hdaps_invert /\ turned = FALSE /\ mixed = FALSE

-----------------------------------------------------------------------------
(* The attributes.                                                         *)

Stores(orientation) ==
  /\ hdaps_invert' = orientation
  /\ turned' = (turned \/ \E p \in Procs : pc[p] \in Parsing)

\* Mutant: the rest position is left as it was.
StoreInvertOnly(t, orientation) ==
  /\ pc[t] = "out" /\ orientation \in Orientations
  /\ Stores(orientation)
  /\ UNCHANGED <<pc, sem, readout, posVars, restVars, flagVars, used>>

\* Mutant: the code is not compared with HDAPS_ORIENT_MAX.
StoreInvertUnchecked(t, orientation) ==
  /\ pc[t] = "out"
  /\ Stores(orientation)
  /\ Goto(t, "calibrate")
  /\ UNCHANGED <<sem, readout, posVars, restVars, flagVars, used>>

\* hdaps_invert_store, up to hdaps_calibrate
StoreInvert(t, orientation) ==
  /\ pc[t] = "out" /\ orientation \in Orientations
  /\ Stores(orientation)
  /\ Goto(t, "calibrate")
  /\ UNCHANGED <<sem, readout, posVars, restVars, flagVars, used>>

\* hdaps_calibrate, from either store.
Calibrate(t) ==
  /\ pc[t] \in {"out", "calibrate"}
  /\ needs_calibration' = TRUE
  /\ Goto(t, "update")
  /\ UNCHANGED <<sem, readout, posVars, restVars, hdaps_invert, stale_readout,
                 used, turned>>

\* The attributes that show a readout.
Show(t) ==
  /\ pc[t] = "out"
  /\ Goto(t, "update")
  /\ UNCHANGED <<sem, readout, posVars, restVars, hdaps_invert, flagVars, used,
                 turned>>

\* hdaps_update returns at once: the last readout is recent, a signal came,
\* or the retries have taken READ_TIMEOUT_MSECS.
LeaveUpdate(t) ==
  /\ pc[t] \in {"update", "retry"}
  /\ Goto(t, "out")
  /\ UNCHANGED <<sem, readout, posVars, restVars, hdaps_invert, flagVars, used,
                 turned>>

-----------------------------------------------------------------------------
(* __hdaps_update.                                                         *)

Locks(p) ==
  /\ sem' = p
  /\ Goto(p, "read")
  /\ UNCHANGED <<readout, posVars, restVars, hdaps_invert, used, turned>>

\* thinkpad_ec_lock in hdaps_update
Lock(t) ==
  /\ pc[t] \in {"update", "retry"} /\ sem = Nobody
  /\ Locks(t)
  /\ UNCHANGED flagVars

\* Mutant: the timer does not look whether it got the semaphore.
FireIgnoringFailure ==
  /\ pc[Poll] = "out"
  /\ stale_readout' = TRUE
  /\ Locks(Poll)
  /\ UNCHANGED needs_calibration

\* The timer and its thinkpad_ec_try_lock
Fire ==
  /\ pc[Poll] = "out"
  /\ stale_readout' = TRUE
  /\ \/ sem = Nobody /\ Locks(Poll)
     \/ sem # Nobody
        /\ UNCHANGED <<pc, sem, readout, posVars, restVars, hdaps_invert, used,
                       turned>>
  /\ UNCHANGED needs_calibration

\* The first user of the input devices starts the timer, the last stops it
\* once its handler has returned.
Start ==
  /\ pc[Poll] = "off" /\ Goto(Poll, "out")
  /\ UNCHANGED <<sem, readout, posVars, restVars, hdaps_invert, flagVars, used,
                 turned>>

Stop ==
  /\ pc[Poll] = "out" /\ Goto(Poll, "off")
  /\ UNCHANGED <<sem, readout, posVars, restVars, hdaps_invert, flagVars, used,
                 turned>>

\* The row has a readout: pos_x is stored.
ReadX(p) ==
  /\ pc[p] = "read"
  /\ readout' \in Readouts
  /\ pos_x' = Coord(readout', "X")
  /\ Goto(p, "y")
  /\ used' = hdaps_invert /\ turned' = FALSE
  /\ UNCHANGED <<sem, pos_y, z, restVars, hdaps_invert, flagVars>>

\* No readout: hdaps_update leaves or tries again, and the timer is set
\* again or, on an error, never more.
ReadFails(p) ==
  /\ pc[p] = "read"
  /\ \E l \in {"out", IF p = Poll THEN "off" ELSE "retry"} : Goto(p, l)
  /\ sem' = Nobody
  /\ UNCHANGED <<readout, posVars, restVars, hdaps_invert, flagVars, used,
                 turned>>

StoreY(p) ==
  /\ pc[p] = "y"
  /\ pos_y' = Coord(readout, "Y")
  /\ Goto(p, "swap")
  /\ UNCHANGED <<sem, readout, pos_x, z, restVars, hdaps_invert, flagVars, used,
                 turned>>

\* transform_axes works on the globals and looks at hdaps_invert three times.
Swap(p) ==
  /\ \/ pc[p] = "swap" /\ "SWAP" \in hdaps_invert /\ Goto(p, "swap x")
        /\ z' = pos_x
        /\ UNCHANGED <<pos_x, pos_y>>
     \/ pc[p] = "swap" /\ "SWAP" \notin hdaps_invert /\ Goto(p, "invert x")
        /\ UNCHANGED <<pos_x, pos_y, z>>
     \/ pc[p] = "swap x" /\ Goto(p, "swap y")
        /\ pos_x' = pos_y
        /\ UNCHANGED <<pos_y, z>>
     \/ pc[p] = "swap y" /\ Goto(p, "invert x")
        /\ pos_y' = z /\ z' = Coord(Nowhere, "X")   \* out of scope
        /\ UNCHANGED pos_x
  /\ UNCHANGED <<sem, readout, restVars, hdaps_invert, flagVars, used, turned>>

InvertXY(p) ==
  /\ \/ pc[p] = "invert x" /\ "INVERT_XY" \in hdaps_invert
        /\ Goto(p, "invert y")
        /\ pos_x' = Negated(pos_x)
        /\ UNCHANGED pos_y
     \/ pc[p] = "invert x" /\ "INVERT_XY" \notin hdaps_invert
        /\ Goto(p, "invert")
        /\ UNCHANGED <<pos_x, pos_y>>
     \/ pc[p] = "invert y" /\ Goto(p, "invert")
        /\ pos_y' = Negated(pos_y)
        /\ UNCHANGED pos_x
  /\ UNCHANGED <<sem, readout, z, restVars, hdaps_invert, flagVars, used, turned>>

InvertX(p) ==
  /\ pc[p] = "invert"
  /\ pos_x' = IF "INVERT_X" \in hdaps_invert THEN Negated(pos_x) ELSE pos_x
  /\ stale_readout' = FALSE
  /\ Goto(p, "check")
  /\ UNCHANGED <<sem, readout, pos_y, z, restVars, hdaps_invert,
                 needs_calibration, used, turned>>

\* Mutant: the poll leaves the calibration to the next process.
FinishWithoutPoll(p) ==
  /\ pc[p] = "check"
  /\ IF needs_calibration /\ p # Poll
     THEN /\ rest_x' = pos_x /\ rest_y' = pos_y /\ mixed' = turned
          /\ needs_calibration' = FALSE
     ELSE UNCHANGED <<restVars, needs_calibration>>
  /\ sem' = Nobody
  /\ Goto(p, "out")
  /\ UNCHANGED <<readout, posVars, hdaps_invert, stale_readout, used, turned>>

\* The calibration and the unlock.  The test, the stores and the reset are
\* one step: only they write the rest position, and a request that comes
\* between them is lost as one that came just before.
Finish(p) ==
  /\ pc[p] = "check"
  /\ IF needs_calibration
     THEN /\ rest_x' = pos_x /\ rest_y' = pos_y /\ mixed' = turned
          /\ needs_calibration' = FALSE
     ELSE UNCHANGED <<restVars, needs_calibration>>
  /\ sem' = Nobody
  /\ Goto(p, "out")
  /\ UNCHANGED <<readout, posVars, hdaps_invert, stale_readout, used, turned>>

-----------------------------------------------------------------------------

Update(p) ==
  \/ ReadX(p) \/ ReadFails(p) \/ StoreY(p)
  \/ Swap(p) \/ InvertXY(p) \/ InvertX(p) \/ Finish(p)

Next ==
  \/ \E t \in Tasks :
       \/ \E orientation \in Written : StoreInvert(t, orientation)
       \/ Calibrate(t) \/ Show(t) \/ LeaveUpdate(t) \/ Lock(t)
  \/ Fire \/ Start \/ Stop
  \/ \E p \in Procs : Update(p)

Spec == Init /\ [][Next]_vars

\* An update that was begun ends, the timer fires again and again and finds
\* the semaphore free now and then, and a sensor that is read again and
\* again has a readout now and then.
Fairness ==
  /\ \A p \in Procs : WF_vars(Update(p)) /\ SF_vars(ReadX(p))
  /\ SF_vars(Fire /\ sem = Nobody)

FairSpec == Spec /\ Fairness

-----------------------------------------------------------------------------

TypeOK ==
  /\ pc \in [Procs -> {"off", "out", "calibrate", "update", "retry", "read"} \cup Parsing]
  /\ sem \in Procs \cup {Nobody}
  /\ readout \in Readouts \cup {Nowhere}
  /\ {pos_x, pos_y, z, rest_x, rest_y} \subseteq Coords
  /\ hdaps_invert \in Orientations /\ used \in Orientations
  /\ needs_calibration \in BOOLEAN /\ stale_readout \in BOOLEAN
  /\ turned \in BOOLEAN /\ mixed \in BOOLEAN

\* The position of readout r in orientation o, as the comments on the
\* HDAPS_ORIENT bits define it: the swap first, INVERT_X undone by INVERT_XY.
Turned(o, r) ==
  LET x == Coord(r, IF "SWAP" \in o THEN "Y" ELSE "X")
      y == Coord(r, IF "SWAP" \in o THEN "X" ELSE "Y")
  IN <<[x EXCEPT !.neg = ("INVERT_XY" \in o) # ("INVERT_X" \in o)],
       [y EXCEPT !.neg = "INVERT_XY" \in o]>>

(***************************************************************************)
(* Between updates both coordinates are of one readout, turned as the      *)
(* HDAPS_ORIENT codes say, unless the orientation was stored while the     *)
(* update ran.                                                             *)
(***************************************************************************)
SettledPosition ==
  sem = Nobody /\ ~stale_readout /\ ~turned =>
    \E r \in Readouts : <<pos_x, pos_y>> = Turned(used, r)

(***************************************************************************)
(* Once no calibration is pending the rest position fits the orientation,  *)
(* however stores and updates overlap, unless the orientation changed in   *)
(* the middle of the very update that calibrated.                          *)
(***************************************************************************)
RestFitsOrientation ==
  /\ ~needs_calibration /\ ~mixed
  /\ \A t \in Tasks : pc[t] # "calibrate"
  => \E r \in Readouts : <<rest_x, rest_y>> = Turned(hdaps_invert, r)

(***************************************************************************)
(* "If that fails, the mousedev poll will take care of things later": a    *)
(* requested calibration takes place, although hdaps_update may fail or    *)
(* find the last readout recent enough, unless the timer is stopped.       *)
(***************************************************************************)
CalibrationServed ==
  needs_calibration ~> ~needs_calibration \/ pc[Poll] = "off"

=============================================================================
