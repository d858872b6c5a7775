------------------------- MODULE HdapsReadout_proofs ------------------------
(***************************************************************************)
(* What HdapsReadout says of the position and of the rest position, for    *)
(* any tasks, readouts and orientations: every update that nobody          *)
(* disturbs stores one readout, turned as the orientation of its time      *)
(* says, and a calibration that is over used such an update.               *)
(***************************************************************************)
EXTENDS HdapsReadout, TLAPS

\* A coordinate by its parts.
Place(r, axis, neg) == [of |-> r, axis |-> axis, neg |-> neg]

\* The axis each position comes from in orientation o.
AxisOfX(o) == IF "SWAP" \in o THEN "Y" ELSE "X"
AxisOfY(o) == IF "SWAP" \in o THEN "X" ELSE "Y"

\* Where an update of readout r that is at l has got to in orientation o.
HalfWay(l, o, r) ==
  /\ l = "y" => pos_x = Coord(r, "X")
  /\ l = "swap" => pos_x = Coord(r, "X") /\ pos_y = Coord(r, "Y")
  /\ l = "swap x" =>
       "SWAP" \in o /\ z = Coord(r, "X") /\ pos_y = Coord(r, "Y")
  /\ l = "swap y" =>
       "SWAP" \in o /\ z = Coord(r, "X") /\ pos_x = Coord(r, "Y")
  /\ l \in {"invert x", "invert y"} => pos_y = Coord(r, AxisOfY(o))
  /\ l = "invert x" => pos_x = Coord(r, AxisOfX(o))
  /\ l = "invert y" =>
       "INVERT_XY" \in o /\ pos_x = Place(r, AxisOfX(o), TRUE)
  /\ l = "invert" =>
       /\ pos_x = Place(r, AxisOfX(o), "INVERT_XY" \in o)
       /\ pos_y = Place(r, AxisOfY(o), "INVERT_XY" \in o)
  /\ l = "check" => <<pos_x, pos_y>> = Turned(o, r)

\* The semaphore is held by whoever reads or parses a row.
LockInv == \A p \in Procs : sem = p <=> pc[p] \in {"read"} \cup Parsing

\* An update in progress, as far as no store came in between.
UpdateInv ==
  \A p \in Procs : pc[p] \in Parsing =>
    /\ readout \in Readouts
    /\ ~turned => used = hdaps_invert /\ HalfWay(pc[p], used, readout)

\* Outside of the parsing the globals hold what the last update made.
SettledInv ==
  (\A p \in Procs : pc[p] \notin Parsing) /\ ~stale_readout /\ ~turned =>
    \E r \in Readouts : <<pos_x, pos_y>> = Turned(used, r)

ReadoutInv ==
  TypeOK /\ LockInv /\ UpdateInv /\ SettledInv /\ RestFitsOrientation
-----------------------------------------------------------------------------
(* Coordinates by their parts.                                             *)

LEMMA CoordPlace ==
  ASSUME NEW r, NEW axis
  PROVE  Coord(r, axis) = Place(r, axis, FALSE)
  BY DEF Coord, Place

LEMMA NegatedPlace ==
  ASSUME NEW r, NEW axis, NEW neg \in BOOLEAN
  PROVE  Negated(Place(r, axis, neg)) = Place(r, axis, ~neg)
  BY DEF Negated, Place

\* The same where the sign is a bit of an orientation.
LEMMA NegatedBit ==
  ASSUME NEW r, NEW axis, NEW o
  PROVE  Negated(Place(r, axis, "INVERT_XY" \in o)) =
           Place(r, axis, ~("INVERT_XY" \in o))
  <1> DEFINE bit == "INVERT_XY" \in o
  <1>1. bit \in BOOLEAN
    OBVIOUS
  <1> HIDE DEF bit
  <1>2. Negated(Place(r, axis, bit)) = Place(r, axis, ~bit)
    BY <1>1, NegatedPlace
  <1>3. QED
    BY <1>2 DEF bit

LEMMA BitPlace ==
  ASSUME NEW r, NEW axis, NEW o
  PROVE  /\ "INVERT_XY" \in o =>
              Place(r, axis, "INVERT_XY" \in o) = Place(r, axis, TRUE)
         /\ "INVERT_XY" \notin o =>
              Place(r, axis, "INVERT_XY" \in o) = Place(r, axis, FALSE)
  <1> DEFINE bit == "INVERT_XY" \in o
  <1>1. bit \in BOOLEAN
    OBVIOUS
  <1> HIDE DEF bit
  <1>2. /\ bit => Place(r, axis, bit) = Place(r, axis, TRUE)
        /\ ~bit => Place(r, axis, bit) = Place(r, axis, FALSE)
    BY <1>1
  <1>3. QED
    BY <1>2 DEF bit

LEMMA PlaceCoords ==
  ASSUME NEW r \in Readouts \cup {Nowhere}, NEW axis \in {"X", "Y"},
         NEW neg \in BOOLEAN
  PROVE  Place(r, axis, neg) \in Coords
  BY DEF Place, Coords

LEMMA NegatedCoords ==
  ASSUME NEW c \in Coords
  PROVE  Negated(c) \in Coords
  BY DEF Negated, Coords

LEMMA TurnedPlaces ==
  ASSUME NEW o, NEW r
  PROVE  Turned(o, r) =
           <<Place(r, AxisOfX(o), ("INVERT_XY" \in o) # ("INVERT_X" \in o)),
             Place(r, AxisOfY(o), "INVERT_XY" \in o)>>
  BY DEF Turned, Coord, Place, AxisOfX, AxisOfY

-----------------------------------------------------------------------------

LEMMA ReadoutInit == Init => ReadoutInv
  <1> SUFFICES ASSUME Init
               PROVE  ReadoutInv
    OBVIOUS
  <1> USE ReadoutAssumption DEF Init
  <1>1. Coord(Nowhere, "X") \in Coords /\ Coord(Nowhere, "Y") \in Coords
    BY CoordPlace, PlaceCoords
  <1>2. \A p \in Procs : pc[p] \in {"off", "out"}
    OBVIOUS
  <1>3. TypeOK
    BY <1>1 DEF TypeOK
  <1>4. LockInv /\ UpdateInv
    BY <1>2 DEF LockInv, UpdateInv, Parsing, Procs
  <1>5. SettledInv /\ RestFitsOrientation
    BY DEF SettledInv, RestFitsOrientation
  <1>6. QED
    BY <1>3, <1>4, <1>5 DEF ReadoutInv

-----------------------------------------------------------------------------
(* Who has the semaphore.                                                  *)

\* One process at a time reads or parses a row.
LEMMA OneUpdate ==
  ASSUME LockInv, NEW p \in Procs, NEW q \in Procs,
         pc[p] \in {"read"} \cup Parsing, pc[q] \in {"read"} \cup Parsing
  PROVE  p = q
  BY DEF LockInv

\* A step that takes p to a location without the semaphore, from another.
LEMMA StaysOut ==
  ASSUME ReadoutInv, NEW p \in Procs,
         NEW l \in {"off", "out", "calibrate", "update", "retry"},
         pc[p] \notin {"read"} \cup Parsing,
         Goto(p, l), UNCHANGED sem
  PROVE  /\ pc' \in [Procs -> {"off", "out", "calibrate", "update", "retry",
                               "read"} \cup Parsing]
         /\ LockInv'
         /\ \A q \in Procs : pc'[q] \in Parsing <=> pc[q] \in Parsing
         /\ \A q \in Procs : q # p => pc'[q] = pc[q]
         /\ \A q \in Procs : pc[q] \in Parsing => pc'[q] = pc[q]
  BY DEF ReadoutInv, TypeOK, LockInv, Goto, Parsing

\* A step that leaves an update.
LEMMA Leaves ==
  ASSUME ReadoutInv, NEW p \in Procs,
         NEW l \in {"off", "out", "retry"},
         pc[p] \in {"read"} \cup Parsing,
         Goto(p, l), sem' = Nobody
  PROVE  /\ pc' \in [Procs -> {"off", "out", "calibrate", "update", "retry",
                               "read"} \cup Parsing]
         /\ LockInv'
         /\ \A q \in Procs : pc'[q] \notin Parsing
         /\ \A q \in Procs : q # p => pc'[q] = pc[q]
  <1>1. \A q \in Procs : pc'[q] = IF q = p THEN l ELSE pc[q]
    BY DEF ReadoutInv, TypeOK, Goto
  <1>2. \A q \in Procs : pc'[q] \notin {"read"} \cup Parsing
    BY <1>1, OneUpdate DEF ReadoutInv, Parsing
  <1>3. pc' \in [Procs -> {"off", "out", "calibrate", "update", "retry",
                           "read"} \cup Parsing]
    BY DEF ReadoutInv, TypeOK, Goto
  <1>4. Nobody \notin Procs
    BY ReadoutAssumption
  <1>5. QED
    BY <1>1, <1>2, <1>3, <1>4 DEF LockInv

\* A step of the update itself.
LEMMA Moves ==
  ASSUME ReadoutInv, NEW p \in Procs, NEW l \in Parsing,
         pc[p] \in {"read"} \cup Parsing,
         Goto(p, l), UNCHANGED sem
  PROVE  /\ pc' \in [Procs -> {"off", "out", "calibrate", "update", "retry",
                               "read"} \cup Parsing]
         /\ LockInv'
         /\ pc'[p] = l
         /\ \A q \in Procs : pc'[q] \in Parsing => q = p
         /\ \A q \in Procs : q # p => pc'[q] = pc[q]
  <1>1. \A q \in Procs : pc'[q] = IF q = p THEN l ELSE pc[q]
    BY DEF ReadoutInv, TypeOK, Goto
  <1>2. pc' \in [Procs -> {"off", "out", "calibrate", "update", "retry",
                           "read"} \cup Parsing]
    BY DEF ReadoutInv, TypeOK, Goto
  <1>3. QED
    BY <1>1, <1>2, OneUpdate DEF ReadoutInv, LockInv

-----------------------------------------------------------------------------
(* Steps outside of an update.                                             *)

\* The rest position keeps fitting while neither it nor the orientation
\* changes and the store that is not calibrated yet stays where it is.
LEMMA RestKept ==
  ASSUME RestFitsOrientation,
         UNCHANGED <<restVars, hdaps_invert, needs_calibration>>,
         \A t \in Tasks : pc[t] = "calibrate" => pc'[t] = "calibrate"
  PROVE  RestFitsOrientation'
  BY DEF RestFitsOrientation, restVars, Turned, Coord

LEMMA OutsideKeeps ==
  ASSUME ReadoutInv, NEW p \in Procs, NEW l \in {"off", "out", "update"},
         pc[p] \in {"off", "out", "update", "retry"},
         Goto(p, l),
         UNCHANGED <<sem, readout, posVars, restVars, hdaps_invert, flagVars,
                     used, turned>>
  PROVE  ReadoutInv'
  <1> USE DEF posVars, restVars, flagVars
  <1>1. /\ TypeOK' /\ LockInv'
        /\ \A q \in Procs : pc'[q] \in Parsing <=> pc[q] \in Parsing
        /\ \A q \in Procs : q # p => pc'[q] = pc[q]
        /\ \A q \in Procs : pc[q] \in Parsing => pc'[q] = pc[q]
    BY StaysOut DEF ReadoutInv, TypeOK, Parsing
  <1>2. UpdateInv'
    BY <1>1 DEF ReadoutInv, UpdateInv, HalfWay, Turned, Coord
  <1>3. SettledInv'
    BY <1>1 DEF ReadoutInv, SettledInv, Turned, Coord
  <1>4. RestFitsOrientation'
    BY <1>1, RestKept DEF ReadoutInv, Procs
  <1>5. QED
    BY <1>1, <1>2, <1>3, <1>4 DEF ReadoutInv

LEMMA StoreInvertKeeps ==
  ASSUME ReadoutInv, NEW t \in Tasks, NEW orientation \in Written,
         StoreInvert(t, orientation)
  PROVE  ReadoutInv'
  <1> USE DEF StoreInvert, Stores, posVars, restVars, flagVars
  <1>0. t \in Procs /\ Goto(t, "calibrate") /\ UNCHANGED sem
    BY DEF Procs
  <1>1. /\ TypeOK' /\ LockInv'
        /\ \A q \in Procs : pc'[q] \in Parsing <=> pc[q] \in Parsing
    BY <1>0, StaysOut DEF ReadoutInv, TypeOK, Parsing
  <1>2. UpdateInv'
    BY <1>1 DEF ReadoutInv, UpdateInv
  <1>3. SettledInv'
    BY <1>1 DEF ReadoutInv, TypeOK, SettledInv, Turned, Coord
  <1>4. pc'[t] = "calibrate"
    BY <1>0 DEF ReadoutInv, TypeOK, Goto
  <1>5. RestFitsOrientation'
    BY <1>4 DEF RestFitsOrientation
  <1>6. QED
    BY <1>1, <1>2, <1>3, <1>5 DEF ReadoutInv

LEMMA CalibrateKeeps ==
  ASSUME ReadoutInv, NEW t \in Tasks, Calibrate(t)
  PROVE  ReadoutInv'
  <1> USE DEF Calibrate, posVars, restVars
  <1>0. t \in Procs /\ Goto(t, "update") /\ UNCHANGED sem
    BY DEF Procs
  <1>1. /\ TypeOK' /\ LockInv'
        /\ \A q \in Procs : pc'[q] \in Parsing <=> pc[q] \in Parsing
        /\ \A q \in Procs : pc[q] \in Parsing => pc'[q] = pc[q]
    BY <1>0, StaysOut DEF ReadoutInv, TypeOK, Parsing
  <1>2. UpdateInv'
    BY <1>1 DEF ReadoutInv, UpdateInv, HalfWay, Turned, Coord
  <1>3. SettledInv'
    BY <1>1 DEF ReadoutInv, SettledInv, Turned, Coord
  <1>4. RestFitsOrientation'
    BY DEF RestFitsOrientation
  <1>5. QED
    BY <1>1, <1>2, <1>3, <1>4 DEF ReadoutInv

\* thinkpad_ec_lock and thinkpad_ec_try_lock that succeed.
LEMMA LocksKeeps ==
  ASSUME ReadoutInv, NEW p \in Procs,
         pc[p] \in {"out", "update", "retry"}, sem = Nobody, Locks(p),
         UNCHANGED needs_calibration,
         stale_readout' \in {stale_readout, TRUE}
  PROVE  ReadoutInv'
  <1> USE DEF Locks, posVars, restVars
  <1>1. \A q \in Procs : pc'[q] = IF q = p THEN "read" ELSE pc[q]
    BY DEF ReadoutInv, TypeOK, Goto
  <1>2. \A q \in Procs : pc[q] \notin {"read"} \cup Parsing
    BY ReadoutAssumption DEF ReadoutInv, LockInv
  <1>3. TypeOK'
    BY DEF ReadoutInv, TypeOK, Goto
  <1>4. LockInv'
    BY <1>1, <1>2 DEF LockInv
  <1>5. \A q \in Procs : pc'[q] \notin Parsing
    BY <1>1, <1>2 DEF Parsing
  <1>6. UpdateInv'
    BY <1>5 DEF UpdateInv
  <1>7. SettledInv'
    BY <1>2 DEF ReadoutInv, TypeOK, SettledInv, Turned, Coord
  <1>8. RestFitsOrientation'
    BY <1>1, RestKept DEF ReadoutInv, Procs
  <1>9. QED
    BY <1>3, <1>4, <1>6, <1>7, <1>8 DEF ReadoutInv

LEMMA FireKeeps ==
  ASSUME ReadoutInv, Fire
  PROVE  ReadoutInv'
  <1>1. CASE sem = Nobody /\ Locks(Poll)
    BY <1>1, LocksKeeps DEF Fire, Procs
  <1>2. CASE UNCHANGED <<pc, sem, readout, posVars, restVars, hdaps_invert, used,
                         turned>>
    BY <1>2 DEF Fire, ReadoutInv, TypeOK, LockInv, UpdateInv, HalfWay,
                SettledInv, RestFitsOrientation, Turned, Coord, posVars, restVars
  <1>3. QED
    BY <1>1, <1>2 DEF Fire

-----------------------------------------------------------------------------
(* The steps of an update.                                                 *)

\* A step to l of the parsing keeps the invariant once it keeps the types
\* and, if undisturbed, brings the position to where it is at l.
LEMMA ParsingKeeps ==
  ASSUME ReadoutInv, NEW p \in Procs, NEW l \in Parsing,
         pc[p] \in {"read"} \cup Parsing,
         Goto(p, l),
         UNCHANGED <<sem, restVars, hdaps_invert, needs_calibration>>,
         pos_x' \in Coords, pos_y' \in Coords, z' \in Coords,
         readout' \in Readouts, used' \in Orientations,
         stale_readout' \in BOOLEAN, turned' \in BOOLEAN,
         ~turned' => used' = hdaps_invert /\ HalfWay(l, used, readout)'
  PROVE  ReadoutInv'
  <1>1. /\ pc' \in [Procs -> {"off", "out", "calibrate", "update", "retry",
                              "read"} \cup Parsing]
        /\ LockInv'
        /\ pc'[p] = l
        /\ \A q \in Procs : pc'[q] \in Parsing => q = p
        /\ \A q \in Procs : q # p => pc'[q] = pc[q]
    BY Moves
  <1>2. TypeOK'
    BY <1>1 DEF ReadoutInv, TypeOK, restVars
  <1>3. UpdateInv'
    <2>1. /\ readout' \in Readouts
          /\ ~turned' => used' = hdaps_invert' /\ HalfWay(pc[p], used, readout)'
      BY <1>1 DEF HalfWay
    <2>2. QED
      BY <1>1, <2>1 DEF UpdateInv
  <1>4. SettledInv'
    BY <1>1 DEF SettledInv
  <1>5. RestFitsOrientation'
    <2>1. \A t \in Tasks : pc[t] = "calibrate" => pc'[t] = "calibrate"
      BY <1>1 DEF Procs, Parsing
    <2>2. QED
      BY <2>1, RestKept DEF ReadoutInv
  <1>6. QED
    BY <1>1, <1>2, <1>3, <1>4, <1>5 DEF ReadoutInv

LEMMA ReadXKeeps ==
  ASSUME ReadoutInv, NEW p \in Procs, ReadX(p)
  PROVE  ReadoutInv'
  <1> USE DEF ReadX, flagVars
  <1>1. pos_x' \in Coords /\ pos_y' \in Coords /\ z' \in Coords
    BY CoordPlace, PlaceCoords DEF ReadoutInv, TypeOK
  <1>2. HalfWay("y", used, readout)'
    BY DEF HalfWay
  <1>3. /\ used' \in Orientations /\ used' = hdaps_invert
        /\ stale_readout' \in BOOLEAN /\ turned' \in BOOLEAN
    BY DEF ReadoutInv, TypeOK
  <1>4. "y" \in Parsing
    BY DEF Parsing
  <1>5. QED
    BY <1>1, <1>2, <1>3, <1>4, ParsingKeeps

LEMMA ReadFailsKeeps ==
  ASSUME ReadoutInv, NEW p \in Procs, ReadFails(p)
  PROVE  ReadoutInv'
  <1> USE DEF ReadFails, posVars, restVars, flagVars
  <1>1. /\ TypeOK' /\ LockInv'
        /\ \A q \in Procs : pc'[q] \notin Parsing
        /\ \A q \in Procs : q # p => pc'[q] = pc[q]
    BY Leaves DEF ReadoutInv, TypeOK
  <1>2. UpdateInv'
    BY <1>1 DEF UpdateInv
  <1>3. \A q \in Procs : pc[q] \notin Parsing
    BY OneUpdate DEF ReadoutInv, Parsing
  <1>4. SettledInv'
    BY <1>3 DEF ReadoutInv, SettledInv, Turned, Coord
  <1>5. RestFitsOrientation'
    BY <1>1, RestKept DEF ReadoutInv, Procs
  <1>6. QED
    BY <1>1, <1>2, <1>4, <1>5 DEF ReadoutInv

LEMMA StoreYKeeps ==
  ASSUME ReadoutInv, NEW p \in Procs, StoreY(p)
  PROVE  ReadoutInv'
  <1> USE DEF StoreY, flagVars
  <1>1. /\ pc[p] \in Parsing /\ "swap" \in Parsing
        /\ readout \in Readouts
        /\ ~turned => used = hdaps_invert /\ pos_x = Coord(readout, "X")
    BY DEF ReadoutInv, UpdateInv, HalfWay, Parsing
  <1>2. pos_x' \in Coords /\ pos_y' \in Coords /\ z' \in Coords
    BY <1>1, CoordPlace, PlaceCoords DEF ReadoutInv, TypeOK
  <1>3. ~turned => HalfWay("swap", used, readout)'
    BY <1>1 DEF HalfWay
  <1>4. QED
    BY <1>1, <1>2, <1>3, ParsingKeeps DEF ReadoutInv, TypeOK

LEMMA SwapKeeps ==
  ASSUME ReadoutInv, NEW p \in Procs, Swap(p)
  PROVE  ReadoutInv'
  <1> USE DEF Swap, flagVars
  <1>1. pc[p] \in Parsing /\ {"swap x", "swap y", "invert x"} \subseteq Parsing
    BY DEF Parsing
  <1>2. /\ readout \in Readouts
        /\ ~turned => used = hdaps_invert /\ HalfWay(pc[p], used, readout)
    BY <1>1 DEF ReadoutInv, UpdateInv
  <1>3. pos_x' \in Coords /\ pos_y' \in Coords /\ z' \in Coords
    BY CoordPlace, PlaceCoords DEF ReadoutInv, TypeOK
  <1>4. /\ used' \in Orientations /\ turned' \in BOOLEAN
        /\ stale_readout' \in BOOLEAN /\ readout' \in Readouts
    BY <1>2 DEF ReadoutInv, TypeOK
  <1>5. CASE pc[p] = "swap" /\ Goto(p, "swap x")
    <2>1. ~turned => HalfWay("swap x", used, readout)'
      BY <1>2, <1>5 DEF HalfWay, Goto, ReadoutInv, TypeOK
    <2>2. QED
      BY <1>1, <1>2, <1>3, <1>4, <1>5, <2>1, ParsingKeeps
  <1>6. CASE pc[p] = "swap" /\ Goto(p, "invert x")
    <2>1. ~turned => HalfWay("invert x", used, readout)'
      BY <1>2, <1>6 DEF HalfWay, Goto, ReadoutInv, TypeOK, AxisOfX, AxisOfY
    <2>2. QED
      BY <1>1, <1>2, <1>3, <1>4, <1>6, <2>1, ParsingKeeps
  <1>7. CASE pc[p] = "swap x"
    <2>1. ~turned => HalfWay("swap y", used, readout)'
      BY <1>2, <1>7 DEF HalfWay
    <2>2. QED
      BY <1>1, <1>2, <1>3, <1>4, <1>7, <2>1, ParsingKeeps
  <1>8. CASE pc[p] = "swap y"
    <2>1. ~turned => HalfWay("invert x", used, readout)'
      BY <1>2, <1>8 DEF HalfWay, AxisOfX, AxisOfY
    <2>2. QED
      BY <1>1, <1>2, <1>3, <1>4, <1>8, <2>1, ParsingKeeps
  <1>9. QED
    BY <1>5, <1>6, <1>7, <1>8

LEMMA InvertXYKeeps ==
  ASSUME ReadoutInv, NEW p \in Procs, InvertXY(p)
  PROVE  ReadoutInv'
  <1> USE DEF InvertXY, flagVars
  <1>1. pc[p] \in Parsing /\ {"invert y", "invert"} \subseteq Parsing
    BY DEF Parsing
  <1>2. /\ readout \in Readouts
        /\ ~turned => used = hdaps_invert /\ HalfWay(pc[p], used, readout)
    BY <1>1 DEF ReadoutInv, UpdateInv
  <1>3. pos_x' \in Coords /\ pos_y' \in Coords /\ z' \in Coords
    BY NegatedCoords DEF ReadoutInv, TypeOK
  <1>4. /\ used' \in Orientations /\ turned' \in BOOLEAN
        /\ stale_readout' \in BOOLEAN /\ readout' \in Readouts
    BY <1>2 DEF ReadoutInv, TypeOK
  <1>5. \A axis : /\ Coord(readout, axis) = Place(readout, axis, FALSE)
                  /\ Negated(Place(readout, axis, FALSE)) =
                       Place(readout, axis, TRUE)
    BY CoordPlace, NegatedPlace
  <1>6. CASE pc[p] = "invert x" /\ "INVERT_XY" \in hdaps_invert
    <2>1. ~turned => HalfWay("invert y", used, readout)'
      BY <1>2, <1>5, <1>6 DEF HalfWay
    <2>2. QED
      BY <1>1, <1>2, <1>3, <1>4, <1>6, <2>1, ParsingKeeps
  <1>7. CASE pc[p] = "invert x" /\ "INVERT_XY" \notin hdaps_invert
    <2>1. ~turned => /\ "INVERT_XY" \notin used
                     /\ pos_x = Place(readout, AxisOfX(used), FALSE)
                     /\ pos_y = Place(readout, AxisOfY(used), FALSE)
      BY <1>2, <1>5, <1>7 DEF HalfWay
    <2>2. pos_x' = pos_x /\ pos_y' = pos_y
      BY <1>7
    <2>3. ~turned =>
            /\ pos_x' = Place(readout, AxisOfX(used), "INVERT_XY" \in used)
            /\ pos_y' = Place(readout, AxisOfY(used), "INVERT_XY" \in used)
      BY <2>1, <2>2, BitPlace
    <2>4. ~turned => HalfWay("invert", used, readout)'
      BY <2>3 DEF HalfWay
    <2>5. QED
      BY <1>1, <1>2, <1>3, <1>4, <1>7, <2>4, ParsingKeeps
  <1>8. CASE pc[p] = "invert y"
    <2>1. ~turned => /\ "INVERT_XY" \in used
                     /\ pos_x = Place(readout, AxisOfX(used), TRUE)
                     /\ pos_y = Place(readout, AxisOfY(used), FALSE)
      BY <1>2, <1>5, <1>8 DEF HalfWay
    <2>2. ~turned => /\ pos_x' = Place(readout, AxisOfX(used), TRUE)
                     /\ pos_y' = Place(readout, AxisOfY(used), TRUE)
      BY <1>5, <1>8, <2>1
    <2>3. ~turned =>
            /\ pos_x' = Place(readout, AxisOfX(used), "INVERT_XY" \in used)
            /\ pos_y' = Place(readout, AxisOfY(used), "INVERT_XY" \in used)
      BY <2>1, <2>2, BitPlace
    <2>4. ~turned => HalfWay("invert", used, readout)'
      BY <2>3 DEF HalfWay
    <2>5. QED
      BY <1>1, <1>2, <1>3, <1>4, <1>8, <2>4, ParsingKeeps
  <1>9. QED
    BY <1>6, <1>7, <1>8

LEMMA InvertXKeeps ==
  ASSUME ReadoutInv, NEW p \in Procs, InvertX(p)
  PROVE  ReadoutInv'
  <1> USE DEF InvertX
  <1>1. pc[p] \in Parsing /\ "check" \in Parsing
    BY DEF Parsing
  <1>2. /\ readout \in Readouts
        /\ ~turned => used = hdaps_invert /\ HalfWay("invert", used, readout)
    BY <1>1 DEF ReadoutInv, UpdateInv
  <1>3. pos_x' \in Coords /\ pos_y' \in Coords /\ z' \in Coords
    BY NegatedCoords DEF ReadoutInv, TypeOK
  <1>4. ~turned => HalfWay("check", used, readout)'
    <2> SUFFICES ASSUME ~turned
                 PROVE  <<pos_x', pos_y'>> = Turned(used, readout)
      BY DEF HalfWay, Turned, Coord
    <2>1. /\ pos_x = Place(readout, AxisOfX(used), "INVERT_XY" \in used)
          /\ pos_y = Place(readout, AxisOfY(used), "INVERT_XY" \in used)
      BY <1>2 DEF HalfWay
    <2>2. pos_x' = Place(readout, AxisOfX(used),
                         ("INVERT_XY" \in used) # ("INVERT_X" \in used))
      <3>1. CASE "INVERT_X" \in used
        <4>1. pos_x' = Negated(pos_x)
          BY <1>2, <3>1
        <4>2. Negated(pos_x) =
                Place(readout, AxisOfX(used), ~("INVERT_XY" \in used))
          BY <2>1, NegatedBit
        <4>3. (("INVERT_XY" \in used) # ("INVERT_X" \in used))
                = ~("INVERT_XY" \in used)
          BY <3>1
        <4>4. QED
          BY <4>1, <4>2, <4>3
      <3>2. CASE "INVERT_X" \notin used
        <4>1. pos_x' = pos_x
          BY <1>2, <3>2
        <4>2. (("INVERT_XY" \in used) # ("INVERT_X" \in used))
                = ("INVERT_XY" \in used)
          BY <3>2
        <4>3. QED
          BY <2>1, <4>1, <4>2
      <3>3. QED
        BY <3>1, <3>2
    <2>3. QED
      BY <2>1, <2>2, TurnedPlaces
  <1>5. QED
    BY <1>1, <1>2, <1>3, <1>4, ParsingKeeps DEF ReadoutInv, TypeOK

\* The calibration takes the position of the update that ends.
LEMMA FinishKeeps ==
  ASSUME ReadoutInv, NEW p \in Procs, Finish(p)
  PROVE  ReadoutInv'
  <1> USE DEF Finish, posVars, restVars
  <1>1. /\ pc' \in [Procs -> {"off", "out", "calibrate", "update", "retry",
                              "read"} \cup Parsing]
        /\ LockInv'
        /\ \A q \in Procs : pc'[q] \notin Parsing
        /\ \A q \in Procs : q # p => pc'[q] = pc[q]
    BY Leaves DEF Parsing
  <1>2. TypeOK'
    BY <1>1 DEF ReadoutInv, TypeOK
  <1>3. UpdateInv'
    BY <1>1 DEF UpdateInv
  <1>4. /\ readout \in Readouts
        /\ ~turned => /\ used = hdaps_invert
                      /\ <<pos_x, pos_y>> = Turned(used, readout)
    BY DEF ReadoutInv, UpdateInv, HalfWay, Parsing
  <1>5. SettledInv'
    BY <1>4 DEF SettledInv, Turned, Coord
  <1>6. RestFitsOrientation'
    <2>1. CASE needs_calibration
      <3>1. /\ rest_x' = pos_x /\ rest_y' = pos_y /\ mixed' = turned
            /\ hdaps_invert' = hdaps_invert
        BY <2>1
      <3>2. ~mixed' =>
              \E r \in Readouts : <<rest_x', rest_y'>> = Turned(hdaps_invert, r)
        BY <1>4, <3>1
      <3>3. QED
        BY <3>1, <3>2 DEF RestFitsOrientation, Turned, Coord
    <2>2. CASE ~needs_calibration
      <3>1. \A t \in Tasks : pc[t] = "calibrate" => pc'[t] = "calibrate"
        BY <1>1 DEF Procs
      <3>2. QED
        BY <2>2, <3>1, RestKept DEF ReadoutInv
    <2>3. QED
      BY <2>1, <2>2 DEF ReadoutInv, TypeOK
  <1>7. QED
    BY <1>1, <1>2, <1>3, <1>5, <1>6 DEF ReadoutInv

LEMMA ReadoutStep == ReadoutInv /\ [Next]_vars => ReadoutInv'
  <1> SUFFICES ASSUME ReadoutInv, [Next]_vars
               PROVE  ReadoutInv'
    OBVIOUS
  <1>1. ASSUME NEW t \in Tasks, NEW orientation \in Written,
               StoreInvert(t, orientation)
        PROVE  ReadoutInv'
    BY <1>1, StoreInvertKeeps
  <1>2. ASSUME NEW t \in Tasks, Calibrate(t)
        PROVE  ReadoutInv'
    BY <1>2, CalibrateKeeps
  <1>3. ASSUME NEW t \in Tasks, Show(t) \/ LeaveUpdate(t)
        PROVE  ReadoutInv'
    BY <1>3, OutsideKeeps DEF Show, LeaveUpdate, Procs
  <1>4. ASSUME NEW t \in Tasks, Lock(t)
        PROVE  ReadoutInv'
    BY <1>4, LocksKeeps DEF Lock, Procs, flagVars
  <1>5. CASE Fire
    BY <1>5, FireKeeps
  <1>6. CASE Start \/ Stop
    BY <1>6, OutsideKeeps DEF Start, Stop, Procs
  <1>7. ASSUME NEW p \in Procs, Update(p)
        PROVE  ReadoutInv'
    BY <1>7, ReadXKeeps, ReadFailsKeeps, StoreYKeeps, SwapKeeps, InvertXYKeeps,
       InvertXKeeps, FinishKeeps DEF Update
  <1>8. CASE UNCHANGED vars
    BY <1>8 DEF vars, ReadoutInv, TypeOK, LockInv, UpdateInv, HalfWay, SettledInv,
                RestFitsOrientation, Turned, Coord
  <1>9. QED
    BY <1>1, <1>2, <1>3, <1>4, <1>5, <1>6, <1>7, <1>8 DEF Next

LEMMA ReadoutAlways == Spec => []ReadoutInv
  BY ReadoutInit, ReadoutStep, PTL DEF Spec

-----------------------------------------------------------------------------

\* Every variable of the readout keeps its type: in particular only codes in
\* use reach hdaps_invert, whatever is written to the attribute.
THEOREM Typing == Spec => []TypeOK
  <1>1. ReadoutInv => TypeOK
    BY DEF ReadoutInv
  <1>2. QED
    BY <1>1, ReadoutAlways, PTL

\* Whatever the tasks and the timer do, the position that an undisturbed
\* update leaves is one readout in the orientation of that update: the steps
\* of transform_axes on the globals make no mixture.
THEOREM Settled == Spec => []SettledPosition
  <1>1. ReadoutInv => SettledPosition
    <2> SUFFICES ASSUME ReadoutInv, sem = Nobody
                 PROVE  \A p \in Procs : pc[p] \notin Parsing
      BY DEF ReadoutInv, SettledInv, SettledPosition
    <2>1. QED
      BY ReadoutAssumption DEF ReadoutInv, LockInv
  <1>2. QED
    BY <1>1, ReadoutAlways, PTL

\* However the stores of invert and calibrate overlap with updates, a rest
\* position that is not about to be replaced fits the orientation.
THEOREM RestFits == Spec => []RestFitsOrientation
  <1>1. ReadoutInv => RestFitsOrientation
    BY DEF ReadoutInv
  <1>2. QED
    BY <1>1, ReadoutAlways, PTL


=============================================================================
