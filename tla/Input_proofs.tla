----------------------------- MODULE Input_proofs ---------------------------
(***************************************************************************)
(* Proofs about the programs that make input events: TabletMode, for any   *)
(* size of evdev's buffer; WacomTablet, for any tablets, tools, threshold, *)
(* line and number of faults; and WacomSerial, the bytes that WacomTablet  *)
(* has whole packets of, for packets of any length and any number of lost  *)
(* bytes.                                                                  *)
(***************************************************************************)
EXTENDS WacomSerial, WacomTablet, TabletMode,
        FiniteSetTheorems, SequenceTheorems, WellFoundedInduction, TLAPS

-----------------------------------------------------------------------------
(* tablet-mode.                                                            *)

Events == Switched \cup {Other}

\* Only the rest of q's reports is left.
NoSwitch(q) == \A j \in DOMAIN q : q[j] = Other

\* The last switch event in q says m.
Tells(q, m) ==
  \A i \in DOMAIN q :
    q[i] # Other /\ (\A j \in DOMAIN q : j > i => q[j] = Other)
      => q[i] = [value |-> m]

\* While the device is there and nothing was dropped, the last switch event in
\* the queue tells the mode, and without one what was asked for or sent does.
LidInv ==
  /\ queue \in Seq(Events) /\ mode \in BOOLEAN
  /\ at \in {"openfd", "sleep", "EVIOCGSW", "send", "read", "exit"}
  /\ at = "openfd" => queue = <<>>
  /\ Opened /\ ~gone /\ ~dropped =>
       /\ Tells(queue, mode)
       /\ NoSwitch(queue) /\ at = "send" => sw_state = mode
       /\ NoSwitch(queue) /\ at = "read" => lid = mode

LEMMA Differ == Other \notin Switched
  BY DEF Other, Switched

LEMMA OthersAre ==
  ASSUME NEW q \in Seq(Events)
  PROVE  Others(q) \in Seq(Events) /\ NoSwitch(Others(q))
  <1> DEFINE S == {j \in DOMAIN q : q[j] = Other}
  <1>1. IsFiniteSet(1 .. Len(q))
    BY FS_Interval
  <1>2. IsFiniteSet(S)
    BY <1>1, FS_Subset
  <1>3. Cardinality(S) \in Nat
    BY <1>2, FS_CardinalityType
  <1> DEFINE n == Cardinality(S)
  <1>4. Others(q) = [i \in 1 .. n |-> Other]
    BY DEF Others
  <1> HIDE DEF n
  <1>5. QED
    BY <1>3, <1>4 DEF n, Events, NoSwitch

LEMMA ModeInitLid == ModeInit => LidInv
  BY DEF ModeInit, LidInv, Opened, Tells, NoSwitch, Events

LEMMA SwitchLid ==
  ASSUME LidInv, Switch
  PROVE  LidInv'
  <1>1. mode' \in BOOLEAN /\ UNCHANGED <<gone, at, sw_state, lid>>
    BY DEF LidInv, Switch
  <1>2. CASE ~Opened \/ gone
    BY <1>1, <1>2 DEF LidInv, Switch, Opened
  <1>3. CASE Opened /\ ~gone /\ queue' = <<Other, Other>> /\ dropped'
    BY <1>1, <1>3 DEF LidInv, Opened, Events
  <1>4. CASE /\ Opened /\ ~gone /\ UNCHANGED dropped
             /\ queue' = queue \o <<[value |-> mode'], Other>>
    <2> DEFINE m == mode'
               e == [value |-> m]
    <2>1. e \in Events /\ e # Other /\ Other \in Events
      BY <1>1, Differ DEF Events, Switched
    <2> HIDE DEF e
    <2>2. queue \in Seq(Events)
      BY DEF LidInv
    <2>3. queue' = queue \o <<e, Other>>
      BY <1>4 DEF e
    <2>4. /\ queue' \in Seq(Events) /\ DOMAIN queue' = 1 .. Len(queue) + 2
          /\ Len(queue) \in Nat
          /\ queue'[Len(queue) + 1] = e /\ queue'[Len(queue) + 2] = Other
      BY <2>1, <2>2, <2>3
    <2>5. ~NoSwitch(queue')
      BY <2>1, <2>4 DEF NoSwitch
    <2>6. \A i \in DOMAIN queue' :
            queue'[i] # Other /\ (\A j \in DOMAIN queue' : j > i => queue'[j] = Other)
              => i = Len(queue) + 1
      BY <2>1, <2>4
    <2>7. Tells(queue', m)
      BY <2>4, <2>6 DEF Tells, e
    <2>8. QED
      BY <1>1, <1>4, <2>4, <2>5, <2>7 DEF LidInv, Opened
  <1>5. QED
    BY <1>2, <1>3, <1>4 DEF Switch

LEMMA ReadEventLid ==
  ASSUME LidInv, ReadEvent
  PROVE  LidInv'
  <1> DEFINE q == queue
  <1>1. /\ at = "read" /\ q # <<>> /\ ~gone /\ queue' = Tail(q)
        /\ lid' = IF Head(q) \in Switched THEN Head(q).value ELSE lid
        /\ UNCHANGED <<mode, gone, at, sw_state, dropped>>
    BY DEF ReadEvent, Repeat
  <1>2. q \in Seq(Events)
    BY DEF LidInv
  <1>3. /\ Tail(q) \in Seq(Events) /\ Len(Tail(q)) = Len(q) - 1
        /\ Len(q) \in Nat \ {0} /\ Head(q) = q[1] /\ q[1] \in Events
        /\ \A i \in 1 .. Len(q) - 1 : Tail(q)[i] = q[i + 1]
    BY <1>1, <1>2
  <1> HIDE DEF q
  <1>4. DOMAIN Tail(q) = 1 .. Len(q) - 1 /\ DOMAIN q = 1 .. Len(q)
    BY <1>2, <1>3
  <1>5. ASSUME Tells(q, mode)
        PROVE  Tells(Tail(q), mode)
    <2> SUFFICES ASSUME NEW i \in 1 .. Len(q) - 1, Tail(q)[i] # Other,
                        \A j \in 1 .. Len(q) - 1 : j > i => Tail(q)[j] = Other
                 PROVE  Tail(q)[i] = [value |-> mode]
      BY <1>4 DEF Tells
    <2>1. \A j \in 1 .. Len(q) : j > i + 1 => q[j] = Other
      <3> TAKE j \in 1 .. Len(q)
      <3> HAVE j > i + 1
      <3>1. j - 1 \in 1 .. Len(q) - 1 /\ j - 1 > i /\ (j - 1) + 1 = j
        BY <1>3
      <3>2. QED
        BY <1>3, <3>1
    <2>2. i + 1 \in 1 .. Len(q) /\ q[i + 1] # Other
      BY <1>3
    <2>3. q[i + 1] = [value |-> mode]
      BY <1>4, <1>5, <2>1, <2>2 DEF Tells
    <2>4. QED
      BY <1>3, <2>3
  <1>6. ASSUME NoSwitch(Tail(q)), Tells(q, mode), q[1] # Other
        PROVE  q[1] = [value |-> mode]
    <2>1. \A j \in 1 .. Len(q) : j > 1 => q[j] = Other
      <3> TAKE j \in 1 .. Len(q)
      <3> HAVE j > 1
      <3>1. j - 1 \in 1 .. Len(q) - 1 /\ (j - 1) + 1 = j
        BY <1>3
      <3>2. QED
        BY <1>3, <1>4, <1>6, <3>1 DEF NoSwitch
    <2>2. 1 \in 1 .. Len(q)
      BY <1>3
    <2>3. QED
      BY <1>4, <1>6, <2>1, <2>2 DEF Tells
  <1>7. ASSUME NoSwitch(Tail(q)), q[1] = Other
        PROVE  NoSwitch(q)
    <2> SUFFICES ASSUME NEW j \in 1 .. Len(q)
                 PROVE  q[j] = Other
      BY <1>4 DEF NoSwitch
    <2>1. CASE j = 1
      BY <1>7, <2>1
    <2>2. CASE j # 1
      <3>1. j - 1 \in 1 .. Len(q) - 1 /\ (j - 1) + 1 = j
        BY <1>3, <2>2
      <3>2. QED
        BY <1>3, <1>4, <1>7, <3>1 DEF NoSwitch
    <2>3. QED
      BY <2>1, <2>2
  <1>8. ASSUME ~dropped, NoSwitch(Tail(q))
        PROVE  lid' = mode
    <2>1. Tells(q, mode) /\ (NoSwitch(q) => lid = mode) /\ mode \in BOOLEAN
      BY <1>1, <1>8 DEF LidInv, Opened, q
    <2>2. CASE q[1] = Other
      BY <1>1, <1>3, <1>7, <1>8, <2>1, <2>2, Differ
    <2>3. CASE q[1] # Other
      <3>1. Head(q) = [value |-> mode] /\ Head(q) \in Switched
        BY <1>3, <1>6, <1>8, <2>1, <2>3 DEF Events
      <3>2. Head(q).value = mode
        BY <3>1
      <3>3. QED
        BY <1>1, <3>1, <3>2
    <2>4. QED
      BY <2>2, <2>3
  <1>9. ~dropped => Tells(Tail(q), mode)
    BY <1>1, <1>5 DEF LidInv, Opened, q
  <1>10. QED
    BY <1>1, <1>3, <1>8, <1>9 DEF LidInv, Opened

LEMMA ModeStepLid == LidInv /\ [ModeNext]_modeVars => LidInv'
  <1> SUFFICES ASSUME LidInv, [ModeNext]_modeVars
               PROVE  LidInv'
    OBVIOUS
  <1>1. CASE Switch
    BY <1>1, SwitchLid
  <1>2. CASE Removed
    BY <1>2 DEF LidInv, Removed, Opened
  <1>3. CASE Open
    BY <1>3 DEF LidInv, Open, Opened, Tells, NoSwitch
  <1>4. CASE SetUp
    BY <1>4 DEF LidInv, SetUp, Opened
  <1>5. CASE GetState
    <2>1. /\ at = "EVIOCGSW" /\ UNCHANGED <<mode, gone, lid, dropped>>
          /\ queue \in Seq(Events)
          /\ \/ ~gone /\ sw_state' = mode /\ at' = "send"
                /\ (queue' = queue \/ queue' = Others(queue))
             \/ gone /\ at' = "read" /\ queue' = queue
      BY <1>5 DEF GetState, LidInv
    <2>2. Others(queue) \in Seq(Events) /\ NoSwitch(Others(queue))
      BY <2>1, OthersAre
    <2>3. Tells(Others(queue), mode)
      BY <2>2 DEF Tells, NoSwitch
    <2>4. QED
      BY <2>1, <2>2, <2>3 DEF LidInv, Opened
  <1>6. CASE SendState
    BY <1>6 DEF LidInv, SendState, Opened
  <1>7. CASE ReadEvent
    BY <1>7, ReadEventLid
  <1>8. CASE ReadFails
    BY <1>8 DEF LidInv, ReadFails, Opened
  <1>9. CASE UNCHANGED modeVars
    BY <1>9 DEF LidInv, modeVars, Opened
  <1>10. QED
    BY <1>1, <1>2, <1>3, <1>4, <1>5, <1>6, <1>7, <1>8, <1>9 DEF ModeNext

\* With everything read the lid is as the switch is, wherever in the program's
\* start the switch moved, unless evdev dropped an event.
THEOREM LidAsSwitch == ModeInit /\ [][ModeNext]_modeVars => []LidFollows
  <1>1. LidInv => LidFollows
    BY DEF LidInv, LidFollows, Opened, NoSwitch
  <1>2. QED
    BY <1>1, ModeInitLid, ModeStepLid, PTL


-----------------------------------------------------------------------------
(* wacom-input: the invariant.                                             *)

Pens ==
  {Away} \cup {Near(t, press, s, odd) :
                 t \in {"pen", "eraser", "airbrush", "mouse"}, press \in 0 .. MaxPressure,
                 s \in {"none", "STYLUS", "STYLUS2"}, odd \in BOOLEAN}

Fits(r) ==
  /\ r \in Pens
  /\ r # Away => /\ r.tool \in Tools /\ r.press \in Presses(r.tool)
                 /\ r.switch \in Switches(r.tool)

PenFits == kind \in Tablets /\ Fits(pen)

\* The parser that a tablet gets.
ParserOf ==
  CASE kind.protocol = "tpc" -> "TabletPC"
    [] kind.protocol = "V" -> "V"
    [] OTHER -> IF kind.major # 1 THEN "NULL"
                ELSE IF kind.minor >= 4 THEN "IV_1_4"
                ELSE IF kind.minor = 3 THEN "IV_1_3" ELSE "IV_1_2"

\* What the program knows of the tablet: nothing wrong at any time, and what
\* the parsers use once it was opened, whichever resets fail.
SetupInv ==
  /\ pDevice \in {"NULL", kind.protocol}
  /\ kind.protocol = "tpc" => /\ pc # "ident again"
                              /\ pc \in {"config", "ident"} => pDevice = "tpc"
  /\ pc \in {"init", "start"} => pDevice = kind.protocol
  /\ kind.protocol = "IV" /\ (pc \in {"init", "start"} \/ opened)
       => version = <<kind.major, kind.minor>>
  /\ pfnParse \in {"NULL", ParserOf}
  /\ pc = "start" \/ opened => pfnParse = ParserOf
  /\ tilt => kind.protocol = "IV" /\ kind.minor >= 4
  /\ pc = "exit" => line = <<>>

\* What the tablet may send of pen q, perhaps in another mode.
SentOf(q) ==
  CASE kind.protocol = "IV" ->
         {[IVPacket(q) EXCEPT !.length = n] : n \in IF kind.minor >= 4 THEN {7, 9} ELSE {7}}
    [] kind.protocol = "tpc" -> {TPCPacket(q)}
    [] OTHER -> IF q = Away THEN {VOut} ELSE {VIn(q)} \cup VData(q)

Letters == UNION {SentOf(q) : q \in Pens}

LineFits == line \in Seq(Letters) /\ Len(line) <= LineSize

States ==
  [prox : BOOLEAN, tool : {"NONE", "PEN", "ERASER", "AIRBRUSH", "MOUSE"},
   press : 0 .. MaxPressure, buttons : SUBSET {"TOUCH", "STYLUS", "STYLUS2"}]

\* The packets that settle a value of the state by themselves.
ProxCodes == {"in", "out", "IV", "tpc"}
PressCodes == {"pen", "air", "out", "IV", "tpc"}
Codes(e) == IF e \in {"prox", "tool"} THEN ProxCodes ELSE PressCodes

None(q, codes) == \A i \in DOMAIN q : q[i].code \notin codes

\* Packet i is the last one in q with one of the codes.
Decides(q, i, codes) ==
  q[i].code \in codes /\ \A j \in DOMAIN q : j > i => q[j].code \notin codes

ReadPressure(p) ==
  IF kind.protocol = "tpc" THEN (p.p6 % 2) * 128 + p.p5
  ELSE IF Coarse(kind) THEN (p.p6 % 64) + (IF p.p6 >= 64 THEN 0 ELSE 64)
  ELSE EightBits(p)

\* The value of e that packet p leaves, that pen r has, and that state s has.
Side == {"STYLUS", "STYLUS2"}

Says(p, e) ==
  CASE e = "prox" -> p.code = "in" \/ (p.code \in {"IV", "tpc"} /\ p.prox)
    [] e = "tool" -> IF p.code = "in" THEN ToolOf[p.tool] ELSE "NONE"
    [] e = "press" -> CASE p.code = "pen" -> p.p5 * 128 + p.p6
                        [] p.code \in {"IV", "tpc"} -> IF p.prox THEN ReadPressure(p) ELSE 0
                        [] OTHER -> 0
    [] e = "buttons" -> IF p.code = "pen" THEN {p.switch} \cap Side ELSE {}

Has(r, e) ==
  CASE e = "prox" -> r # Away
    [] e = "tool" -> IF r = Away THEN "NONE" ELSE ToolOf[r.tool]
    [] e = "press" -> IF r = Away THEN 0 ELSE r.press
    [] e = "buttons" -> IF r = Away THEN {} ELSE {r.switch} \cap Side

Holds(s, e) ==
  CASE e = "prox" -> s.prox
    [] e = "tool" -> s.tool
    [] e = "press" -> s.press
    [] e = "buttons" -> s.buttons \cap Side

Fresh(e) == (IF e = "buttons" THEN "press" ELSE e) \notin stale

\* The last packet in q that settles e says v, and the state does when there
\* is none.
Told(q, e, v) ==
  /\ \A i \in DOMAIN q : Decides(q, i, Codes(e)) => Says(q[i], e) = v
  /\ None(q, Codes(e)) /\ Fresh(e) => Holds(state, e) = v

Values == {"prox", "press"} \cup (IF kind.protocol = "V" THEN {"tool", "buttons"} ELSE {})

Exempt(r, e) == e = "press" /\ r # Away /\ r.tool = "airbrush"

ToldInv == \A e \in Values : Exempt(pen, e) \/ Told(line, e, Has(pen, e))

\* From 1.3 on the tool is settled where a stay begins, in the line or before.
Stay(q, i) == \A j \in DOMAIN q : j >= i => q[j].prox

Chosen(p) == IF p.stylus THEN IF p.eraser THEN "ERASER" ELSE "PEN" ELSE "MOUSE"

Kept(q, r) ==
  kind.protocol = "IV" /\ kind.minor > 2 /\ r # Away /\ ~r.odd =>
    /\ \A i \in DOMAIN q :
         Stay(q, i) => /\ q[i].stylus <=> r.tool # "mouse"
                       /\ i > 1 /\ ~q[i - 1].prox => Chosen(q[i]) = ToolOf[r.tool]
    /\ Stay(q, 1) /\ "tool" \notin stale =>
         IF state.prox THEN state.tool = ToolOf[r.tool]
         ELSE q # <<>> => Chosen(q[1]) = ToolOf[r.tool]

\* The last packet is about the pen as it is, and the state is when there is
\* none: for the protocols whose packets tell everything.
LastOf(q, r) == kind.protocol # "V" /\ q # <<>> => q[Len(q)] \in SentOf(r)

SeenInv ==
  kind.protocol # "V" /\ line = <<>> /\ stale = {} /\ pen # Away /\ ~Ambiguous
    => /\ state.tool = ToolOf[pen.tool]
       /\ state.buttons \cap Side = {pen.switch} \cap Reported

FollowInv ==
  pc # "exit" /\ Supported =>
    /\ touch = Report(state)
    /\ "tool" \notin stale => "prox" \notin stale
    /\ ToldInv /\ Kept(line, pen) /\ LastOf(line, pen) /\ SeenInv

\* The control's types.
Types ==
  /\ running \in BOOLEAN /\ tilt \in BOOLEAN /\ faults \in 0 .. MaxFaults
  /\ pc \in {"find", "config", "ident", "ident again", "init", "start", "failed",
            "read", "exit"}
  /\ opened \in BOOLEAN /\ (pc = "read" => opened)
  /\ version \in Nat \X Nat /\ uPacketLength \in {0, 7, 9}
  /\ nBitErrors \in 0 .. 4 /\ touch \in BOOLEAN /\ stale \subseteq All

DataFit == PenFits /\ LineFits /\ state \in States

TabletInv == Types /\ SetupInv /\ DataFit /\ FollowInv

-----------------------------------------------------------------------------
(* Packets.                                                                *)

LEMMA KindIs ==
  ASSUME kind \in Tablets
  PROVE  kind.protocol \in {"IV", "V", "tpc"} /\ kind.major \in Nat /\ kind.minor \in Nat
  BY TabletAssumption

LEMMA PenIs ==
  ASSUME NEW q \in Pens, q # Away
  PROVE  /\ q.tool \in {"pen", "eraser", "airbrush", "mouse"}
         /\ q.press \in 0 .. MaxPressure /\ q.switch \in {"none", "STYLUS", "STYLUS2"}
  BY DEF Pens, Near

LEMMA IVFields ==
  ASSUME kind.protocol = "IV", NEW q \in Pens, NEW p \in SentOf(q)
  PROVE  /\ p.code = "IV" /\ p.length \in {7, 9} /\ (p.length = 9 => kind.minor >= 4)
         /\ p.prox <=> q # Away
         /\ p.stylus <=> q # Away /\ q.tool # "mouse"
         /\ p.side <=> q # Away /\ q.switch = "STYLUS"
         /\ p.eraser <=> q # Away /\ (q.tool = "eraser" \/ q.switch = "STYLUS2")
         /\ p.p6 = IVPressure(IF q # Away THEN q.press ELSE 0).p6
         /\ p.low = IVPressure(IF q # Away THEN q.press ELSE 0).low
  <1> DEFINE near == q # Away
             side == near /\ q.switch = "STYLUS"
             eraser == near /\ (q.tool = "eraser" \/ q.switch = "STYLUS2")
             stylus == near /\ q.tool # "mouse"
             pressure == IVPressure(IF near THEN q.press ELSE 0)
  <1>1. PICK n \in IF kind.minor >= 4 THEN {7, 9} ELSE {7} :
          p = [IVPacket(q) EXCEPT !.length = n]
    BY DEF SentOf
  <1>2. IVPacket(q) = [code |-> "IV", length |-> Length, prox |-> near,
                       stylus |-> stylus, side |-> side, eraser |-> eraser,
                       p6 |-> pressure.p6, low |-> pressure.low]
    BY DEF IVPacket
  <1>3. p = [code |-> "IV", length |-> n, prox |-> near,
             stylus |-> stylus, side |-> side, eraser |-> eraser,
             p6 |-> pressure.p6, low |-> pressure.low]
    <2> HIDE DEF near, stylus, side, eraser, pressure
    <2>1. QED
      BY <1>1, <1>2
  <1>4. p.length = n /\ n \in {7, 9} /\ (n = 9 => kind.minor >= 4)
    <2> HIDE DEF near, stylus, side, eraser, pressure
    <2>1. p.length = n
      BY <1>3
    <2>2. n \in {7, 9} /\ (n = 9 => kind.minor >= 4)
      OBVIOUS
    <2>3. QED
      BY <2>1, <2>2
  <1>5. /\ p.code = "IV" /\ p.prox = near /\ p.stylus = stylus /\ p.side = side
        /\ p.eraser = eraser /\ p.p6 = pressure.p6 /\ p.low = pressure.low
    <2> HIDE DEF near, stylus, side, eraser, pressure
    <2>1. QED
      BY <1>3
  <1>6. QED
    BY <1>4, <1>5

LEMMA TPCFields ==
  ASSUME kind.protocol = "tpc", NEW q \in Pens, NEW p \in SentOf(q)
  PROVE  /\ p.code = "tpc" /\ p.length = 9
         /\ p.prox \in BOOLEAN
         /\ p.prox <=> q # Away
         /\ p.side <=> q # Away /\ q.switch = "STYLUS"
         /\ p.eraser <=> q # Away /\ (q.tool = "eraser" \/ q.switch = "STYLUS2")
         /\ p.p5 = (IF q # Away THEN q.press ELSE 0) % 128
         /\ p.p6 = (IF q # Away THEN q.press ELSE 0) \div 128
  <1> DEFINE near == q # Away
             press == IF near THEN q.press ELSE 0
             touch1 == press > 0
             side == near /\ q.switch = "STYLUS"
             eraser == near /\ (q.tool = "eraser" \/ q.switch = "STYLUS2")
             high == press \div 128
             rest == press % 128
  <1>1. p = [code |-> "tpc", length |-> 9, prox |-> near, touch |-> touch1,
             side |-> side, eraser |-> eraser, p5 |-> rest, p6 |-> high]
    BY DEF SentOf, TPCPacket
  <1>2. /\ p.code = "tpc" /\ p.length = 9 /\ p.prox = near
        /\ p.side = side /\ p.eraser = eraser /\ p.p5 = rest /\ p.p6 = high
    <2> HIDE DEF near, side, eraser, high, rest, touch1
    <2>1. QED
      BY <1>1
  <1>3. QED
    BY <1>2

LEMMA VFields ==
  ASSUME kind.protocol = "V", NEW q \in Pens, NEW p \in SentOf(q)
  PROVE  /\ p.length = 9 /\ p.code \in {"in", "out", "pen", "air", "mouse"}
         /\ p.code = "out" <=> q = Away
         /\ p.code = "in" => p.tool = q.tool
         /\ p.code = "mouse" => q.tool = "mouse"
         /\ p.code = "air" => q.tool = "airbrush"
         /\ p.code = "pen" => /\ q.tool # "mouse" /\ p.switch = q.switch
                              /\ p.p5 = q.press \div 128 /\ p.p6 = q.press % 128
  BY DEF SentOf, VIn, VOut, VData

\* The pieces that a packet has of the pressure make the pressure.
LEMMA Pieces ==
  /\ \A n \in 0 .. 127 : (n % 64) + (IF n < 64 THEN 64 ELSE 0) \in 0 .. 127
  /\ \A n \in 0 .. 127 :
       LET p6 == (n % 64) + (IF n < 64 THEN 64 ELSE 0)
       IN (p6 % 64) + (IF p6 >= 64 THEN 0 ELSE 64) = n
  /\ \A n \in 0 .. 255 :
       LET p6 == ((n \div 2) % 64) + (IF n < 128 THEN 64 ELSE 0)
       IN (p6 % 64) * 2 + (n % 2) + (IF p6 >= 64 THEN 0 ELSE 128) = n
  /\ \A n \in 0 .. 255 : ((n \div 128) % 2) * 128 + (n % 128) = n
  /\ \A n \in 0 .. 1023 : (n \div 128) * 128 + (n % 128) = n
  OBVIOUS

LEMMA PressureRead ==
  ASSUME kind \in Tablets, kind.protocol # "V", NEW q \in Pens, q # Away,
         NEW p \in SentOf(q)
  PROVE  ReadPressure(p) = q.press
  <1>1. q.press \in 0 .. MaxPressure
    BY PenIs
  <1>2. CASE kind.protocol = "tpc"
    <2>1. q.press \in 0 .. 255
      BY <1>1, <1>2 DEF MaxPressure, Coarse
    <2>2. p.p5 = q.press % 128 /\ p.p6 = q.press \div 128
      BY <1>2, TPCFields
    <2>3. QED
      BY <1>2, <2>1, <2>2, Pieces DEF ReadPressure
  <1>3. CASE kind.protocol = "IV" /\ Coarse(kind)
    <2>1. q.press \in 0 .. 127
      BY <1>1, <1>3 DEF MaxPressure
    <2>2. p.p6 = (q.press % 64) + (IF q.press < 64 THEN 64 ELSE 0)
      BY <1>3, IVFields DEF IVPressure
    <2>3. QED
      BY <1>3, <2>1, <2>2, Pieces DEF ReadPressure
  <1>4. CASE kind.protocol = "IV" /\ ~Coarse(kind)
    <2>1. q.press \in 0 .. 255
      BY <1>1, <1>4 DEF MaxPressure
    <2>2. /\ p.p6 = ((q.press \div 2) % 64) + (IF q.press < 128 THEN 64 ELSE 0)
          /\ p.low = q.press % 2
      BY <1>4, IVFields DEF IVPressure
    <2>3. QED
      BY <1>4, <2>1, <2>2, Pieces DEF ReadPressure, EightBits
  <1>5. QED
    BY <1>2, <1>3, <1>4, KindIs

\* A packet about a pen says of a value what the pen has.
LEMMA SaysOf ==
  ASSUME kind \in Tablets, NEW r, Fits(r), NEW p \in SentOf(r), NEW e \in Values,
         ~Exempt(r, e), p.code \in Codes(e)
  PROVE  Says(p, e) = Has(r, e)
  <1>0. r \in Pens
    BY DEF Fits
  <1>1. CASE kind.protocol = "V"
    <2>1. CASE e = "prox"
      BY <1>0, <1>1, <2>1, VFields DEF Says, Has, Codes, ProxCodes
    <2>2. CASE e = "tool"
      BY <1>0, <1>1, <2>2, VFields DEF Says, Has, Codes, ProxCodes
    <2>3. CASE e = "press"
      <3>1. r # Away => r.press \in 0 .. 1023
        BY <1>0, <1>1, PenIs DEF MaxPressure
      <3>2. CASE p.code = "pen"
        <4>1. /\ r # Away /\ p.p5 = r.press \div 128
              /\ p.p6 = r.press % 128
          BY <1>0, <1>1, <3>2, VFields
        <4>2. p.p5 * 128 + p.p6 = r.press
          BY <3>1, <4>1, Pieces
        <4>3. Says(p, e) = p.p5 * 128 + p.p6 /\ Has(r, e) = r.press
          BY <2>3, <3>2, <4>1 DEF Says, Has
        <4>4. QED
          BY <4>2, <4>3
      <3>3. CASE p.code # "pen"
        <4>1. p.code = "out" \/ p.code = "air"
          BY <1>0, <1>1, <2>3, <3>3, VFields DEF Codes, PressCodes
        <4>2. r = Away
          BY <1>0, <1>1, <2>3, <4>1, VFields DEF Exempt
        <4>3. QED
          BY <2>3, <4>1, <4>2 DEF Says, Has
      <3>4. QED
        BY <3>2, <3>3
    <2>4. CASE e = "buttons"
      <3>1. CASE p.code = "pen"
        BY <1>0, <1>1, <2>4, <3>1, VFields DEF Says, Has
      <3>2. CASE p.code = "out"
        BY <1>0, <1>1, <2>4, <3>2, VFields DEF Says, Has
      <3>3. CASE p.code = "air"
        <4>1. r # Away /\ r.switch = "none"
          BY <1>0, <1>1, <3>3, VFields DEF Fits, Switches
        <4>2. QED
          BY <2>4, <3>3, <4>1 DEF Says, Has, Side
      <3>4. QED
        BY <1>0, <1>1, <2>4, <3>1, <3>2, <3>3, VFields DEF Codes, PressCodes
    <2>5. QED
      BY <2>1, <2>2, <2>3, <2>4 DEF Values
  <1>2. CASE kind.protocol # "V"
    <2>1. p.code \in {"IV", "tpc"} /\ (p.prox <=> r # Away)
      BY <1>0, <1>2, KindIs, IVFields, TPCFields
    <2>2. CASE e = "prox"
      BY <2>1, <2>2 DEF Says, Has
    <2>3. CASE e = "press"
      BY <1>0, <1>2, <2>1, <2>3, PressureRead DEF Says, Has
    <2>4. QED
      BY <1>0, <1>2, <2>2, <2>3 DEF Values
  <1>3. QED
    BY <1>0, <1>1, <1>2
-----------------------------------------------------------------------------
(* What the parsers make of a packet.                                      *)

LEMMA NothingFits == Nothing \in States
  BY TabletAssumption DEF Nothing, States, MaxPressure

\* The tool and the switches that a packet which says prox leaves.
ToolNow(p) ==
  CASE kind.protocol = "tpc" -> IF p.eraser THEN "ERASER" ELSE "PEN"
    [] kind.protocol = "IV" /\ kind.minor > 2 -> IF p.stylus THEN ToolKept(p) ELSE "MOUSE"
    [] OTHER -> IF p.stylus THEN "PEN" ELSE "MOUSE"

SideNow(p) ==
  CASE kind.protocol = "tpc" -> If(~p.eraser /\ p.side, "STYLUS")
    [] kind.protocol = "IV" /\ kind.minor > 2 ->
         If(ToolNow(p) = "PEN" /\ p.side, "STYLUS")
           \cup If(ToolNow(p) = "PEN" /\ p.eraser, "STYLUS2")
    [] OTHER -> If(p.stylus /\ p.side, "STYLUS")

LEMMA ParsedTPC ==
  ASSUME kind.protocol = "tpc", pfnParse = "TabletPC", NEW p, p.length = 9, p.prox
  PROVE  /\ Parsed(p).prox /\ Parsed(p).press = ReadPressure(p)
         /\ Parsed(p).tool = ToolNow(p) /\ Parsed(p).buttons \cap Side = SideNow(p)
         /\ Parsed(p) = [prox |-> TRUE, tool |-> Parsed(p).tool, press |-> Parsed(p).press,
                         buttons |-> Parsed(p).buttons]
         /\ Parsed(p).buttons \subseteq {"TOUCH", "STYLUS", "STYLUS2"}
  <1>1. Parsed(p) = ParseTabletPC(p)
    BY DEF Parsed
  <1> DEFINE tool == IF p.eraser THEN "ERASER" ELSE "PEN"
             press == (p.p6 % 2) * 128 + p.p5
             side == If(~p.eraser /\ p.side, "STYLUS")
             buttons == If(p.touch, "TOUCH") \cup side
  <1>2. ParseTabletPC(p) = [prox |-> TRUE, tool |-> tool, press |-> press, buttons |-> buttons]
    BY DEF ParseTabletPC
  <1>3. buttons \cap Side = side /\ buttons \subseteq {"TOUCH", "STYLUS", "STYLUS2"}
    BY DEF If, Side
  <1>4. tool = ToolNow(p) /\ press = ReadPressure(p) /\ side = SideNow(p)
    BY DEF ToolNow, ReadPressure, SideNow
  <1> HIDE DEF tool, press, side, buttons
  <1>5. QED
    BY <1>1, <1>2, <1>3, <1>4

LEMMA ParsedLater ==
  ASSUME kind.protocol = "IV", kind.minor \in Nat, kind.minor > 2,
         pfnParse = IF kind.minor >= 4 THEN "IV_1_4" ELSE "IV_1_3",
         NEW p, p.length \in {7, 9}, p.length = 9 => kind.minor >= 4, p.prox
  PROVE  /\ Parsed(p).prox /\ Parsed(p).press = ReadPressure(p)
         /\ Parsed(p).tool = ToolNow(p) /\ Parsed(p).buttons \cap Side = SideNow(p)
         /\ Parsed(p) = [prox |-> TRUE, tool |-> Parsed(p).tool, press |-> Parsed(p).press,
                         buttons |-> Parsed(p).buttons]
         /\ Parsed(p).buttons \subseteq {"TOUCH", "STYLUS", "STYLUS2"}
  <1>1. Parsed(p) = ParseIV_1_3(p)
    BY DEF Parsed
  <1> DEFINE tool == IF p.stylus THEN ToolKept(p) ELSE "MOUSE"
             press == EightBits(p)
             side == If(tool = "PEN" /\ p.side, "STYLUS")
                       \cup If(tool = "PEN" /\ p.eraser, "STYLUS2")
             buttons == If(p.stylus /\ press > 10, "TOUCH")
                          \cup If(tool = "PEN" /\ p.side, "STYLUS")
                          \cup If(tool = "PEN" /\ p.eraser, "STYLUS2")
  <1>2. ParseIV_1_3(p) = [prox |-> TRUE, tool |-> tool, press |-> press, buttons |-> buttons]
    BY DEF ParseIV_1_3
  <1>3. buttons \cap Side = side /\ buttons \subseteq {"TOUCH", "STYLUS", "STYLUS2"}
    BY DEF If, Side
  <1>4. press = ReadPressure(p)
    BY DEF ReadPressure, Coarse
  <1>5. tool = ToolNow(p)
    BY DEF ToolNow
  <1>6. side = SideNow(p)
    BY <1>5 DEF SideNow
  <1> HIDE DEF tool, press, side, buttons
  <1>7. QED
    BY <1>1, <1>2, <1>3, <1>4, <1>5, <1>6

LEMMA ParsedEarlier ==
  ASSUME kind.protocol = "IV", kind.minor \in Nat, kind.minor <= 2,
         pfnParse = "IV_1_2", version[2] = kind.minor, NEW p, p.length = 7, p.prox
  PROVE  /\ Parsed(p).prox /\ Parsed(p).press = ReadPressure(p)
         /\ Parsed(p).tool = ToolNow(p) /\ Parsed(p).buttons \cap Side = SideNow(p)
         /\ Parsed(p) = [prox |-> TRUE, tool |-> Parsed(p).tool, press |-> Parsed(p).press,
                         buttons |-> Parsed(p).buttons]
         /\ Parsed(p).buttons \subseteq {"TOUCH", "STYLUS", "STYLUS2"}
  <1>1. Parsed(p) = ParseIV_1_2(p)
    BY DEF Parsed
  <1> DEFINE tool == IF p.stylus THEN "PEN" ELSE "MOUSE"
             press == Pressure(p)
             side == If(p.stylus /\ p.side, "STYLUS")
             buttons == If(p.stylus /\ press > 10, "TOUCH") \cup side
  <1>2. ParseIV_1_2(p) = [prox |-> TRUE, tool |-> tool, press |-> press, buttons |-> buttons]
    BY DEF ParseIV_1_2
  <1>3. buttons \cap Side = side /\ buttons \subseteq {"TOUCH", "STYLUS", "STYLUS2"}
    BY DEF If, Side
  <1>4. press = ReadPressure(p)
    BY DEF ReadPressure, Coarse, Pressure
  <1>5. tool = ToolNow(p) /\ side = SideNow(p)
    BY DEF ToolNow, SideNow
  <1> HIDE DEF tool, press, side, buttons
  <1>6. QED
    BY <1>1, <1>2, <1>3, <1>4, <1>5

\* The program knows enough of the tablet to parse.
Parsing == PenFits /\ SetupInv /\ opened /\ Supported /\ state \in States

LEMMA AsState ==
  ASSUME NEW s,
         s = [prox |-> TRUE, tool |-> s.tool, press |-> s.press, buttons |-> s.buttons],
         s.tool \in {"NONE", "PEN", "ERASER", "AIRBRUSH", "MOUSE"},
         s.press \in 0 .. MaxPressure,
         s.buttons \subseteq {"TOUCH", "STYLUS", "STYLUS2"}
  PROVE  s \in States
  <1> DEFINE tool == s.tool
             press == s.press
             buttons == s.buttons
  <1>1. s = [prox |-> TRUE, tool |-> tool, press |-> press, buttons |-> buttons]
    OBVIOUS
  <1>2. /\ tool \in {"NONE", "PEN", "ERASER", "AIRBRUSH", "MOUSE"}
        /\ press \in 0 .. MaxPressure
        /\ buttons \in SUBSET {"TOUCH", "STYLUS", "STYLUS2"}
    OBVIOUS
  <1> HIDE DEF tool, press, buttons
  <1>3. [prox |-> TRUE, tool |-> tool, press |-> press, buttons |-> buttons] \in States
    BY <1>2 DEF States
  <1>4. QED
    BY <1>1, <1>3

LEMMA ParsedAll ==
  ASSUME Parsing, kind.protocol # "V", NEW p \in Letters
  PROVE  /\ p.code \in {"IV", "tpc"} /\ p.prox \in BOOLEAN
         /\ ~p.prox => Parsed(p) = Nothing
         /\ p.prox => /\ Parsed(p) \in States /\ Parsed(p).prox
                      /\ Parsed(p).press = ReadPressure(p)
                      /\ Parsed(p).tool = ToolNow(p)
                      /\ Parsed(p).buttons \cap Side = SideNow(p)
  <1>1. /\ kind \in Tablets /\ kind.protocol \in {"IV", "V", "tpc"} /\ kind.minor \in Nat
        /\ pfnParse = ParserOf /\ state \in States
    BY KindIs DEF Parsing, PenFits, SetupInv
  <1>2. PICK q \in Pens : p \in SentOf(q)
    BY DEF Letters
  <1>3. CASE kind.protocol = "tpc"
    <2>1. /\ p.code = "tpc" /\ p.length = 9 /\ pfnParse = "TabletPC"
          /\ p.prox <=> q # Away
      <3>1. pfnParse = "TabletPC"
        BY <1>1, <1>3 DEF ParserOf
      <3>2. QED
        BY <1>2, <1>3, <3>1, TPCFields
    <2>2. p.prox \in BOOLEAN
      BY <1>2, <1>3, TPCFields
    <2>3. ~p.prox => Parsed(p) = Nothing
      BY <2>1 DEF Parsed, ParseTabletPC
    <2>4. ASSUME p.prox
          PROVE  ReadPressure(p) \in 0 .. MaxPressure
      BY <1>1, <1>2, <1>3, <2>1, <2>4, PressureRead, PenIs
    <2>5. ToolNow(p) \in {"PEN", "ERASER"}
      BY <1>3 DEF ToolNow
    <2>6. QED
      <3>1. ASSUME p.prox
            PROVE  /\ Parsed(p) \in States /\ Parsed(p).prox
                   /\ Parsed(p).press = ReadPressure(p)
                   /\ Parsed(p).tool = ToolNow(p)
                   /\ Parsed(p).buttons \cap Side = SideNow(p)
        BY <1>3, <2>1, <2>4, <2>5, <3>1, ParsedTPC, AsState
      <3>2. QED
        BY <2>1, <2>2, <2>3, <3>1
  <1>4. CASE kind.protocol = "IV"
    <2>1. /\ p.code = "IV" /\ p.length \in {7, 9} /\ (p.length = 9 => kind.minor >= 4)
          /\ p.prox <=> q # Away
      BY <1>2, <1>4, IVFields
    <2>2. p.prox \in BOOLEAN
      BY <1>2, <1>4 DEF SentOf, IVPacket
    <2>3. kind.major = 1 /\ version[2] = kind.minor
      BY <1>4 DEF Parsing, Supported, SetupInv
    <2>4. pfnParse = IF kind.minor >= 4 THEN "IV_1_4"
                     ELSE IF kind.minor = 3 THEN "IV_1_3" ELSE "IV_1_2"
      BY <1>1, <1>4, <2>3 DEF ParserOf
    <2>5. ~p.prox => Parsed(p) = Nothing
      BY <1>1, <2>1, <2>4 DEF Parsed, ParseIV_1_3, ParseIV_1_2
    <2>6. ASSUME p.prox
          PROVE  ReadPressure(p) \in 0 .. MaxPressure
      BY <1>1, <1>2, <1>4, <2>1, <2>6, PressureRead, PenIs
    <2>7. ToolNow(p) \in {"NONE", "PEN", "ERASER", "AIRBRUSH", "MOUSE"}
      BY <1>1, <1>4 DEF ToolNow, ToolKept, States
    <2>8. CASE kind.minor > 2
      <3>1. pfnParse = IF kind.minor >= 4 THEN "IV_1_4" ELSE "IV_1_3"
        BY <1>1, <2>4, <2>8
      <3>2. ASSUME p.prox
            PROVE  /\ Parsed(p) \in States /\ Parsed(p).prox
                   /\ Parsed(p).press = ReadPressure(p)
                   /\ Parsed(p).tool = ToolNow(p)
                   /\ Parsed(p).buttons \cap Side = SideNow(p)
        BY <1>1, <1>4, <2>1, <2>6, <2>7, <2>8, <3>1, <3>2, ParsedLater, AsState
      <3>3. QED
        BY <2>1, <2>2, <2>5, <3>2
    <2>9. CASE kind.minor <= 2
      <3>1. pfnParse = "IV_1_2" /\ p.length = 7
        BY <1>1, <2>1, <2>4, <2>9
      <3>2. ASSUME p.prox
            PROVE  /\ Parsed(p) \in States /\ Parsed(p).prox
                   /\ Parsed(p).press = ReadPressure(p)
                   /\ Parsed(p).tool = ToolNow(p)
                   /\ Parsed(p).buttons \cap Side = SideNow(p)
        BY <1>1, <1>4, <2>1, <2>3, <2>6, <2>7, <2>9, <3>1, <3>2, ParsedEarlier, AsState
      <3>3. QED
        BY <2>1, <2>2, <2>5, <3>2
    <2>10. QED
      BY <1>1, <2>8, <2>9
  <1>5. QED
    BY <1>1, <1>3, <1>4

LEMMA StateIs ==
  ASSUME NEW s \in States
  PROVE  /\ s = [prox |-> s.prox, tool |-> s.tool, press |-> s.press, buttons |-> s.buttons]
         /\ s.prox \in BOOLEAN
         /\ s.tool \in {"NONE", "PEN", "ERASER", "AIRBRUSH", "MOUSE"}
         /\ s.press \in 0 .. MaxPressure
         /\ s.buttons \in SUBSET {"TOUCH", "STYLUS", "STYLUS2"}
         /\ s # Refused
  BY DEF States, Refused

LEMMA ParsedV ==
  ASSUME Parsing, kind.protocol = "V", NEW p \in Letters
  PROVE  /\ Parsed(p) \in States
         /\ \A e \in Values :
              Holds(Parsed(p), e) = IF p.code \in Codes(e) THEN Says(p, e) ELSE Holds(state, e)
  <1>1. state \in States /\ pfnParse = "V" /\ MaxPressure = 1023
    BY DEF Parsing, SetupInv, ParserOf, MaxPressure
  <1>2. PICK q \in Pens : p \in SentOf(q)
    BY DEF Letters
  <1>3. /\ p.length = 9 /\ p.code \in {"in", "out", "pen", "air", "mouse"}
        /\ p.code # "out" => q # Away
        /\ p.code = "in" => p.tool = q.tool
        /\ p.code = "pen" => /\ p.switch = q.switch
                             /\ p.p5 = q.press \div 128 /\ p.p6 = q.press % 128
    BY <1>2, VFields
  <1>4. Parsed(p) = ParseV(p)
    BY <1>1, <1>3 DEF Parsed
  <1> DEFINE prox == state.prox
             tool == state.tool
             press == state.press
             buttons == state.buttons
  <1>5. /\ state = [prox |-> prox, tool |-> tool, press |-> press, buttons |-> buttons]
        /\ prox \in BOOLEAN
        /\ tool \in {"NONE", "PEN", "ERASER", "AIRBRUSH", "MOUSE"}
        /\ press \in 0 .. MaxPressure
        /\ buttons \in SUBSET {"TOUCH", "STYLUS", "STYLUS2"}
    BY <1>1, StateIs
  <1>6. /\ Holds(state, "prox") = prox /\ Holds(state, "tool") = tool
        /\ Holds(state, "press") = press /\ Holds(state, "buttons") = buttons \cap Side
    BY DEF Holds
  <1>7. Values = {"prox", "press", "tool", "buttons"}
    BY DEF Values
  <1> HIDE DEF prox, tool, press, buttons
  <1>8. CASE p.code = "in"
    <2> DEFINE t == ToolOf[p.tool]
    <2>1. t \in {"PEN", "ERASER", "AIRBRUSH", "MOUSE"}
      BY <1>2, <1>3, <1>8, PenIs DEF ToolOf
    <2>2. ParseV(p) = [state EXCEPT !.prox = TRUE, !.tool = t]
      BY <1>8 DEF ParseV
    <2>3. Says(p, "prox") = TRUE /\ Says(p, "tool") = t
      BY <1>8 DEF Says
    <2> HIDE DEF t
    <2>4. ParseV(p) = [prox |-> TRUE, tool |-> t, press |-> press, buttons |-> buttons]
      BY <1>5, <2>2
    <2>5. ParseV(p) \in States
      BY <1>5, <2>1, <2>4 DEF States
    <2>6. /\ Holds(ParseV(p), "prox") = TRUE /\ Holds(ParseV(p), "tool") = t
          /\ Holds(ParseV(p), "press") = press
          /\ Holds(ParseV(p), "buttons") = buttons \cap Side
      <3> DEFINE s == [prox |-> TRUE, tool |-> t, press |-> press, buttons |-> buttons]
      <3>1. /\ s.prox = TRUE /\ s.tool = t /\ s.press = press /\ s.buttons = buttons
        OBVIOUS
      <3> HIDE DEF s
      <3>2. /\ Holds(s, "prox") = TRUE /\ Holds(s, "tool") = t
            /\ Holds(s, "press") = press /\ Holds(s, "buttons") = buttons \cap Side
        BY <3>1 DEF Holds
      <3>3. ParseV(p) = s
        BY <2>4 DEF s
      <3>4. QED
        BY <3>2, <3>3
    <2>7. QED
      BY <1>4, <1>6, <1>7, <1>8, <2>3, <2>5, <2>6 DEF Codes, ProxCodes, PressCodes
  <1>9. CASE p.code = "out"
    <2>1. ParseV(p) = Nothing
      BY <1>9 DEF ParseV, Out
    <2>2. /\ Says(p, "prox") = FALSE /\ Says(p, "tool") = "NONE"
          /\ Says(p, "press") = 0 /\ Says(p, "buttons") = {}
      BY <1>9 DEF Says
    <2>3. /\ Holds(Nothing, "prox") = FALSE /\ Holds(Nothing, "tool") = "NONE"
          /\ Holds(Nothing, "press") = 0 /\ Holds(Nothing, "buttons") = {}
      BY DEF Holds, Nothing
    <2>4. QED
      BY <1>4, <1>7, <1>9, <2>1, <2>2, <2>3, NothingFits DEF Codes, ProxCodes, PressCodes
  <1>10. CASE p.code = "pen"
    <2> DEFINE n == p.p5 * 128 + p.p6
               b == If(n > 10, "TOUCH") \cup If(p.switch # "none", p.switch)
    <2>1. q.press \in 0 .. 1023
      BY <1>1, <1>2, <1>3, <1>10, PenIs
    <2>2. n \in 0 .. MaxPressure
      BY <1>1, <1>3, <1>10, <2>1, Pieces
    <2>3. /\ b \in SUBSET {"TOUCH", "STYLUS", "STYLUS2"}
          /\ b \cap Side = {p.switch} \cap Side
      BY <1>2, <1>3, <1>10, PenIs DEF If, Side
    <2>4. ParseV(p) = [state EXCEPT !.press = n, !.buttons = b]
      BY <1>10 DEF ParseV
    <2>5. Says(p, "press") = n /\ Says(p, "buttons") = {p.switch} \cap Side
      BY <1>10 DEF Says
    <2> HIDE DEF n, b
    <2>6. ParseV(p) = [prox |-> prox, tool |-> tool, press |-> n, buttons |-> b]
      BY <1>5, <2>4
    <2>7. ParseV(p) \in States
      BY <1>5, <2>2, <2>3, <2>6 DEF States
    <2>8. /\ Holds(ParseV(p), "prox") = prox /\ Holds(ParseV(p), "tool") = tool
          /\ Holds(ParseV(p), "press") = n /\ Holds(ParseV(p), "buttons") = b \cap Side
      BY <2>6 DEF Holds
    <2>9. QED
      BY <1>4, <1>6, <1>7, <1>10, <2>3, <2>5, <2>7, <2>8 DEF Codes, ProxCodes, PressCodes
  <1>11. CASE p.code = "air"
    <2>1. ParseV(p) = [state EXCEPT !.press = 0, !.buttons = {}]
      BY <1>11 DEF ParseV
    <2>2. Says(p, "press") = 0 /\ Says(p, "buttons") = {}
      BY <1>11 DEF Says
    <2>3. ParseV(p) = [prox |-> prox, tool |-> tool, press |-> 0, buttons |-> {}]
      BY <1>5, <2>1
    <2>4. ParseV(p) \in States
      BY <1>1, <1>5, <2>3 DEF States
    <2>5. /\ Holds(ParseV(p), "prox") = prox /\ Holds(ParseV(p), "tool") = tool
          /\ Holds(ParseV(p), "press") = 0 /\ Holds(ParseV(p), "buttons") = {}
      BY <2>3 DEF Holds
    <2>6. QED
      BY <1>4, <1>6, <1>7, <1>11, <2>2, <2>4, <2>5 DEF Codes, ProxCodes, PressCodes
  <1>12. CASE p.code = "mouse"
    <2>1. ParseV(p) = state
      BY <1>12 DEF ParseV
    <2>2. QED
      BY <1>1, <1>4, <1>12, <2>1 DEF Codes, ProxCodes, PressCodes
  <1>13. QED
    BY <1>3, <1>8, <1>9, <1>10, <1>11, <1>12

\* Parsing a packet leaves what it says, and for the rest what there was.
LEMMA ParsedSays ==
  ASSUME Parsing, NEW p \in Letters
  PROVE  /\ Parsed(p) \in States
         /\ \A e \in Values :
              Holds(Parsed(p), e) = IF p.code \in Codes(e) THEN Says(p, e) ELSE Holds(state, e)
  <1>1. CASE kind.protocol = "V"
    BY <1>1, ParsedV
  <1>2. CASE kind.protocol # "V"
    <2>1. Values = {"prox", "press"}
      BY <1>2 DEF Values
    <2>2. p.code \in {"IV", "tpc"} /\ p.prox \in BOOLEAN
      BY <1>2, ParsedAll
    <2>3. p.code \in Codes("prox") /\ p.code \in Codes("press")
      BY <2>2 DEF Codes, ProxCodes, PressCodes
    <2>4. /\ Says(p, "prox") = p.prox
          /\ Says(p, "press") = IF p.prox THEN ReadPressure(p) ELSE 0
      BY <2>2 DEF Says
    <2>5. CASE p.prox
      <3>1. /\ Parsed(p) \in States /\ Parsed(p).prox /\ Parsed(p).prox \in BOOLEAN
            /\ Parsed(p).press = ReadPressure(p)
        BY <1>2, <2>5, ParsedAll, StateIs
      <3>2. Holds(Parsed(p), "prox") = p.prox /\ Holds(Parsed(p), "press") = ReadPressure(p)
        BY <2>2, <2>5, <3>1 DEF Holds
      <3>3. QED
        BY <2>1, <2>3, <2>4, <2>5, <3>1, <3>2
    <2>6. CASE ~p.prox
      <3>1. Parsed(p) = Nothing
        BY <1>2, <2>6, ParsedAll
      <3>2. Holds(Nothing, "prox") = FALSE /\ Holds(Nothing, "press") = 0
        BY DEF Holds, Nothing
      <3>3. p.prox = FALSE
        BY <2>2, <2>6
      <3>4. QED
        BY <2>1, <2>3, <2>4, <3>1, <3>2, <3>3, NothingFits
    <2>7. QED
      BY <2>5, <2>6
  <1>3. QED
    BY <1>1, <1>2

-----------------------------------------------------------------------------
(* Which packet decides, when one is taken from the line or added to it.   *)

LEMMA TailFacts ==
  ASSUME NEW S, NEW q \in Seq(S), q # <<>>
  PROVE  /\ Tail(q) \in Seq(S) /\ Len(Tail(q)) = Len(q) - 1 /\ Len(q) \in Nat \ {0}
         /\ DOMAIN q = 1 .. Len(q) /\ DOMAIN Tail(q) = 1 .. Len(q) - 1
         /\ Head(q) = q[1] /\ q[1] \in S
         /\ \A i \in 1 .. Len(q) - 1 : Tail(q)[i] = q[i + 1]
  OBVIOUS

LEMMA TailDecides ==
  ASSUME NEW S, NEW q \in Seq(S), q # <<>>, NEW codes, NEW i \in DOMAIN Tail(q),
         Decides(Tail(q), i, codes)
  PROVE  i + 1 \in DOMAIN q /\ Tail(q)[i] = q[i + 1] /\ Decides(q, i + 1, codes)
  <1> DEFINE t == Tail(q)
             n == Len(q)
  <1>1. /\ n \in Nat \ {0} /\ DOMAIN q = 1 .. n /\ DOMAIN t = 1 .. n - 1
        /\ \A k \in 1 .. n - 1 : t[k] = q[k + 1]
    BY TailFacts
  <1>2. t[i].code \in codes /\ \A j \in DOMAIN t : j > i => t[j].code \notin codes
    BY DEF Decides
  <1>3. i \in 1 .. n - 1
    BY <1>1
  <1> HIDE DEF t, n
  <1>4. \A j \in 1 .. n : j > i + 1 => q[j].code \notin codes
    <2> TAKE j \in 1 .. n
    <2> HAVE j > i + 1
    <2>1. j - 1 \in 1 .. n - 1 /\ j - 1 > i /\ (j - 1) + 1 = j
      BY <1>1, <1>3
    <2>2. QED
      BY <1>1, <1>2, <2>1
  <1>5. i + 1 \in 1 .. n /\ t[i] = q[i + 1]
    BY <1>1, <1>3
  <1>6. QED
    BY <1>1, <1>2, <1>4, <1>5 DEF Decides, t

LEMMA TailNone ==
  ASSUME NEW S, NEW q \in Seq(S), q # <<>>, NEW codes, None(Tail(q), codes)
  PROVE  /\ q[1].code \in codes => Decides(q, 1, codes)
         /\ q[1].code \notin codes => None(q, codes)
  <1> DEFINE t == Tail(q)
             n == Len(q)
  <1>1. /\ n \in Nat \ {0} /\ DOMAIN q = 1 .. n /\ DOMAIN t = 1 .. n - 1
        /\ \A k \in 1 .. n - 1 : t[k] = q[k + 1]
    BY TailFacts
  <1>2. \A k \in 1 .. n - 1 : t[k].code \notin codes
    BY <1>1 DEF None
  <1> HIDE DEF t, n
  <1>3. \A j \in 1 .. n : j > 1 => q[j].code \notin codes
    <2> TAKE j \in 1 .. n
    <2> HAVE j > 1
    <2>1. j - 1 \in 1 .. n - 1 /\ (j - 1) + 1 = j
      BY <1>1
    <2>2. QED
      BY <1>1, <1>2, <2>1
  <1>4. \A j \in 1 .. n : j > 1 \/ j = 1
    BY <1>1
  <1>5. QED
    BY <1>1, <1>3, <1>4 DEF Decides, None

LEMMA AppendFacts ==
  ASSUME NEW S, NEW q \in Seq(S), NEW d \in S
  PROVE  /\ Append(q, d) \in Seq(S) /\ Len(q) \in Nat /\ Len(Append(q, d)) = Len(q) + 1
         /\ DOMAIN q = 1 .. Len(q) /\ DOMAIN Append(q, d) = 1 .. Len(q) + 1
         /\ Append(q, d)[Len(q) + 1] = d
         /\ \A i \in 1 .. Len(q) : Append(q, d)[i] = q[i]
         /\ Append(q, d) = q \o <<d>>
  OBVIOUS

LEMMA AppendDecides ==
  ASSUME NEW S, NEW q \in Seq(S), NEW d \in S, NEW codes
  PROVE  LET r == Append(q, d)
         IN /\ d.code \in codes => /\ \A i \in DOMAIN r : Decides(r, i, codes) => r[i] = d
                                   /\ ~None(r, codes)
            /\ d.code \notin codes =>
                 /\ \A i \in DOMAIN r :
                      Decides(r, i, codes) => i \in DOMAIN q /\ r[i] = q[i] /\ Decides(q, i, codes)
                 /\ None(r, codes) => None(q, codes)
  <1> DEFINE r == Append(q, d)
             n == Len(q)
  <1>1. /\ n \in Nat /\ DOMAIN q = 1 .. n /\ DOMAIN r = 1 .. n + 1
        /\ r[n + 1] = d /\ \A i \in 1 .. n : r[i] = q[i]
    BY AppendFacts
  <1> HIDE DEF r, n
  <1>2. n + 1 \in 1 .. n + 1 /\ \A i \in 1 .. n + 1 : i = n + 1 \/ (i \in 1 .. n /\ n + 1 > i)
    BY <1>1
  <1>3. \A i \in 1 .. n : i \in 1 .. n + 1
    BY <1>1
  <1>4. ASSUME d.code \in codes
        PROVE  (\A i \in DOMAIN r : Decides(r, i, codes) => r[i] = d) /\ ~None(r, codes)
    BY <1>1, <1>2, <1>4 DEF Decides, None
  <1>5. ASSUME d.code \notin codes
        PROVE  /\ \A i \in DOMAIN r :
                    Decides(r, i, codes) => i \in DOMAIN q /\ r[i] = q[i] /\ Decides(q, i, codes)
               /\ None(r, codes) => None(q, codes)
    BY <1>1, <1>2, <1>3, <1>5 DEF Decides, None
  <1>6. QED
    BY <1>4, <1>5 DEF r

LEMMA ToldAppend ==
  ASSUME NEW q \in Seq(Letters), NEW d \in Letters, NEW e, NEW v,
         d.code \in Codes(e) => Says(d, e) = v,
         d.code \notin Codes(e) => Told(q, e, v)
  PROVE  Told(Append(q, d), e, v)
  <1> DEFINE r == Append(q, d)
             codes == Codes(e)
  <1>1. /\ d.code \in codes => /\ \A i \in DOMAIN r : Decides(r, i, codes) => r[i] = d
                               /\ ~None(r, codes)
        /\ d.code \notin codes =>
             /\ \A i \in DOMAIN r :
                  Decides(r, i, codes) => i \in DOMAIN q /\ r[i] = q[i] /\ Decides(q, i, codes)
             /\ None(r, codes) => None(q, codes)
    BY AppendDecides
  <1> HIDE DEF r
  <1>2. Told(r, e, v)
    BY <1>1 DEF Told
  <1>3. QED
    BY <1>2 DEF r

\* A packet is taken away: what it settled is in the state, or gone stale.
LEMMA ToldLost ==
  ASSUME NEW q \in Seq(Letters), q # <<>>, NEW e, NEW v, Told(q, e, v)
  PROVE  \A i \in DOMAIN Tail(q) : Decides(Tail(q), i, Codes(e)) => Says(Tail(q)[i], e) = v
  BY TailDecides DEF Told

LEMMA ToldTaken ==
  ASSUME NEW q \in Seq(Letters), q # <<>>, NEW e, NEW v, Told(q, e, v), None(Tail(q), Codes(e))
  PROVE  IF q[1].code \in Codes(e) THEN Says(q[1], e) = v
         ELSE Fresh(e) => Holds(state, e) = v
  <1>1. 1 \in DOMAIN q
    BY TailFacts
  <1>2. QED
    BY <1>1, TailNone DEF Told

-----------------------------------------------------------------------------
(* The tablet sends.                                                       *)

TiltFits == tilt => kind.protocol = "IV" /\ kind.minor >= 4

LEMMA PacketsAre ==
  ASSUME kind \in Tablets, TiltFits, NEW r \in Pens, NEW enters \in BOOLEAN,
         NEW ps \in Packets(r, enters)
  PROVE  /\ kind.protocol # "V" => \E d \in SentOf(r) : ps = <<d>>
         /\ kind.protocol = "V" /\ r = Away => ps = <<VOut>>
         /\ kind.protocol = "V" /\ r # Away =>
              \E d \in VData(r) : ps = IF enters THEN <<VIn(r), d>> ELSE <<d>>
  <1>1. CASE kind.protocol = "tpc"
    BY <1>1 DEF Packets, SentOf
  <1>2. CASE kind.protocol = "V"
    <2>1. CASE r = Away
      BY <1>2, <2>1 DEF Packets
    <2>2. CASE r # Away
      <3>1. PICK d \in VData(r) : ps = (IF enters THEN <<VIn(r)>> ELSE <<>>) \o <<d>>
        BY <1>2, <2>2 DEF Packets
      <3>2. ps = IF enters THEN <<VIn(r), d>> ELSE <<d>>
        <4> DEFINE f == VIn(r)
        <4> HIDE DEF f
        <4>1. <<f>> \in Seq({f, d}) /\ <<d>> \in Seq({f, d}) /\ <<>> \in Seq({f, d})
          OBVIOUS
        <4>2. <<f>> \o <<d>> = <<f, d>>
          <5> DEFINE w == <<f>> \o <<d>>
          <5>1. w \in Seq({f, d}) /\ Len(w) = 2 /\ w[1] = f /\ w[2] = d
            BY <4>1
          <5> HIDE DEF w
          <5>2. w = <<f, d>>
            BY <5>1
          <5>3. QED
            BY <5>2 DEF w
        <4>3. <<>> \o <<d>> = <<d>>
          BY <4>1
        <4>4. QED
          BY <3>1, <4>2, <4>3 DEF f
      <3>3. QED
        BY <1>2, <2>2, <3>2
    <2>3. QED
      BY <1>2, <2>1, <2>2
  <1>3. CASE kind.protocol = "IV"
    <2> DEFINE p == IVPacket(r)
    <2>1. ps = <<p>>
      BY <1>3 DEF Packets
    <2>2. Length \in IF kind.minor >= 4 THEN {7, 9} ELSE {7}
      BY <1>3 DEF Length, TiltFits
    <2>3. p = [p EXCEPT !.length = Length]
      <3> DEFINE near == r # Away
                 side == near /\ r.switch = "STYLUS"
                 eraser == near /\ (r.tool = "eraser" \/ r.switch = "STYLUS2")
                 stylus == near /\ r.tool # "mouse"
                 pressure == IVPressure(IF near THEN r.press ELSE 0)
                 a == pressure.p6
                 b == pressure.low
                 n == Length
      <3>1. p = [code |-> "IV", length |-> n, prox |-> near, stylus |-> stylus,
                 side |-> side, eraser |-> eraser, p6 |-> a, low |-> b]
        BY DEF IVPacket
      <3> HIDE DEF near, side, eraser, stylus, pressure, a, b, n
      <3>2. [p EXCEPT !.length = n]
              = [code |-> "IV", length |-> n, prox |-> near, stylus |-> stylus,
                 side |-> side, eraser |-> eraser, p6 |-> a, low |-> b]
        <4> HIDE DEF p
        <4>1. QED
          BY <3>1
      <3>3. p = [p EXCEPT !.length = n]
        BY <3>1, <3>2, Zenon
      <3>4. QED
        BY <3>3 DEF n
    <2>4. p \in SentOf(r)
      <3> HIDE DEF p
      <3>1. p \in {[p EXCEPT !.length = n] : n \in IF kind.minor >= 4 THEN {7, 9} ELSE {7}}
        BY <2>2, <2>3
      <3>2. QED
        BY <1>3, <3>1 DEF SentOf, p
    <2>5. QED
      BY <1>3, <2>1, <2>4
  <1>4. QED
    BY <1>1, <1>2, <1>3, KindIs

LEMMA VLetters ==
  ASSUME kind.protocol = "V", NEW r \in Pens, r # Away
  PROVE  /\ VIn(r) \in SentOf(r) /\ VIn(r).code = "in"
         /\ \A d \in VData(r) : d \in SentOf(r) /\ d.code \in {"pen", "air", "mouse"}
  BY DEF SentOf, VIn, VData

SameStay(r, r2) == r # Away /\ r2 # Away /\ r2.tool = r.tool /\ r2.odd = r.odd
Comes(r, r2) == r = Away /\ r2 # Away /\ (r2.odd => r2.switch = "STYLUS2")
                /\ (~r2.odd => r2.switch # "STYLUS2")
Moves(r, r2, enters) == r2 = Away \/ SameStay(r, r2) \/ (enters /\ Comes(r, r2))

LEMMA ToldMoves ==
  ASSUME kind \in Tablets, TiltFits, NEW r, NEW r2, Fits(r), Fits(r2),
         NEW q \in Seq(Letters), NEW enters \in BOOLEAN, Moves(r, r2, enters),
         NEW ps \in Packets(r2, enters), NEW e \in Values, ~Exempt(r2, e),
         Exempt(r, e) \/ Told(q, e, Has(r, e))
  PROVE  Told(q \o ps, e, Has(r2, e))
  <1>0. r2 \in Pens /\ SentOf(r2) \subseteq Letters
    BY DEF Fits, Letters
  <1>1. \A d \in SentOf(r2) : d.code \in Codes(e) => Says(d, e) = Has(r2, e)
    BY SaysOf
  <1>2. CASE kind.protocol # "V"
    <2>1. PICK d \in SentOf(r2) : ps = <<d>>
      BY <1>0, <1>2, PacketsAre
    <2>2. d.code \in {"IV", "tpc"}
      BY <1>0, <1>2, IVFields, TPCFields, KindIs
    <2>3. d.code \in Codes(e)
      BY <2>2 DEF Codes, ProxCodes, PressCodes
    <2>4. Told(Append(q, d), e, Has(r2, e)) /\ Append(q, d) = q \o <<d>>
      BY <1>0, <1>1, <2>3, ToldAppend, AppendFacts
    <2>5. QED
      BY <2>1, <2>4
  <1>3. CASE kind.protocol = "V" /\ r2 = Away
    <2>1. ps = <<VOut>> /\ VOut \in SentOf(r2) /\ VOut.code = "out"
      BY <1>0, <1>3, PacketsAre DEF SentOf, VOut
    <2>2. VOut.code \in Codes(e)
      BY <2>1 DEF Codes, ProxCodes, PressCodes
    <2>3. Told(Append(q, VOut), e, Has(r2, e)) /\ Append(q, VOut) = q \o <<VOut>>
      BY <1>0, <1>1, <2>1, <2>2, ToldAppend, AppendFacts
    <2>4. QED
      BY <2>1, <2>3
  <1>4. CASE kind.protocol = "V" /\ r2 # Away
    <2> DEFINE f == VIn(r2)
    <2>1. PICK d \in VData(r2) : ps = IF enters THEN <<f, d>> ELSE <<d>>
      BY <1>0, <1>4, PacketsAre
    <2>2. /\ f \in Letters /\ d \in Letters /\ f \in SentOf(r2) /\ d \in SentOf(r2)
          /\ f.code = "in" /\ d.code \in {"pen", "air", "mouse"}
      BY <1>0, <1>4, VLetters
    <2> HIDE DEF f
    <2>3. SameStay(r, r2) \/ (enters /\ Comes(r, r2))
      BY <1>4 DEF Moves
    <2>4. CASE d.code \in Codes(e)
      <3>1. \A s \in Seq(Letters) : Told(Append(s, d), e, Has(r2, e))
        BY <1>1, <2>2, <2>4, ToldAppend
      <3>2. /\ q \o <<d>> = Append(q, d) /\ Append(q, f) \in Seq(Letters)
            /\ q \o <<f, d>> = Append(Append(q, f), d)
        BY <2>2
      <3>3. QED
        BY <2>1, <3>1, <3>2
    <2>5. CASE d.code \notin Codes(e) /\ e \in {"prox", "tool"}
      <3>1. SameStay(r, r2) => Told(q, e, Has(r2, e))
        <4>1. ~Exempt(r, e)
          BY <2>5 DEF Exempt
        <4>2. SameStay(r, r2) => Has(r, e) = Has(r2, e)
          BY <2>5 DEF SameStay, Has
        <4>3. QED
          BY <4>1, <4>2
      <3>2. f.code \in Codes(e)
        BY <2>2, <2>5 DEF Codes, ProxCodes
      <3>3. Told(Append(q, f), e, Has(r2, e))
        BY <1>1, <2>2, <3>2, ToldAppend
      <3>4. Told(Append(Append(q, f), d), e, Has(r2, e))
        BY <2>2, <2>5, <3>3, ToldAppend, AppendFacts
      <3>5. SameStay(r, r2) => Told(Append(q, d), e, Has(r2, e))
        BY <2>2, <2>5, <3>1, ToldAppend
      <3>6. q \o <<d>> = Append(q, d) /\ q \o <<f, d>> = Append(Append(q, f), d)
        BY <2>2
      <3>7. QED
        BY <2>1, <2>3, <3>4, <3>5, <3>6
    <2>6. CASE d.code \notin Codes(e) /\ e \in {"press", "buttons"}
      <3>1. d.code = "mouse"
        BY <2>2, <2>6 DEF Codes, PressCodes
      <3>2. r2.tool = "mouse" /\ (r = Away \/ r.tool = "mouse")
        BY <1>0, <1>4, <2>2, <2>3, <3>1, VFields DEF SameStay, Comes
      <3>3. \A x : Fits(x) /\ x # Away /\ x.tool = "mouse"
                     => x.press = 0 /\ x.switch = "none"
        BY DEF Fits, Presses, Switches
      <3>4. \A x : Fits(x) /\ (x = Away \/ x.tool = "mouse")
                     => Has(x, e) = IF e = "press" THEN 0 ELSE {}
        <4> TAKE x
        <4> HAVE Fits(x) /\ (x = Away \/ x.tool = "mouse")
        <4>1. {"none"} \cap Side = {}
          BY DEF Side
        <4>2. CASE e = "press"
          BY <3>3, <4>2 DEF Has
        <4>3. CASE e = "buttons"
          BY <3>3, <4>1, <4>3 DEF Has
        <4>4. QED
          BY <2>6, <4>2, <4>3
      <3>5. Has(r2, e) = Has(r, e) /\ ~Exempt(r, e)
        <4> DEFINE v == IF e = "press" THEN 0 ELSE {}
        <4> HIDE DEF v
        <4>1. Has(r2, e) = v /\ Has(r, e) = v
          BY <3>2, <3>4 DEF v
        <4>2. ~Exempt(r, e)
          BY <3>2 DEF Exempt
        <4>3. QED
          BY <4>1, <4>2
      <3>6. Told(q, e, Has(r2, e))
        BY <3>5
      <3>7. f.code \notin Codes(e)
        BY <2>2, <2>6 DEF Codes, PressCodes
      <3>8. Told(Append(q, f), e, Has(r2, e)) /\ Append(q, f) \in Seq(Letters)
        BY <2>2, <3>6, <3>7, ToldAppend, AppendFacts
      <3>9. Told(Append(Append(q, f), d), e, Has(r2, e)) /\ Told(Append(q, d), e, Has(r2, e))
        BY <2>2, <2>6, <3>6, <3>8, ToldAppend
      <3>10. q \o <<d>> = Append(q, d) /\ q \o <<f, d>> = Append(Append(q, f), d)
        BY <2>2
      <3>11. QED
        BY <2>1, <3>9, <3>10
    <2>7. QED
      BY <2>4, <2>5, <2>6 DEF Values
  <1>5. QED
    BY <1>2, <1>3, <1>4

LEMMA LastMoves ==
  ASSUME kind \in Tablets, TiltFits, NEW r \in Pens, NEW q \in Seq(Letters),
         NEW enters \in BOOLEAN, NEW ps \in Packets(r, enters)
  PROVE  LastOf(q \o ps, r)
  <1> SUFFICES ASSUME kind.protocol # "V"
               PROVE  (q \o ps)[Len(q \o ps)] \in SentOf(r)
    BY DEF LastOf
  <1>1. PICK d \in SentOf(r) : ps = <<d>>
    BY PacketsAre
  <1>2. d \in Letters
    BY DEF Letters
  <1>3. (q \o <<d>>)[Len(q \o <<d>>)] = d
    BY <1>2
  <1>4. QED
    BY <1>1, <1>3

LEMMA KeptMoves ==
  ASSUME kind \in Tablets, TiltFits, NEW r, NEW r2, Fits(r), Fits(r2),
         NEW q \in Seq(Letters), NEW enters \in BOOLEAN, Moves(r, r2, enters),
         NEW ps \in Packets(r2, enters), LastOf(q, r), Kept(q, r),
         "tool" \notin stale => "prox" \notin stale,
         Told(q, "prox", r # Away)
  PROVE  Kept(q \o ps, r2)
  <1> SUFFICES ASSUME kind.protocol = "IV", kind.minor > 2, r2 # Away, ~r2.odd
               PROVE  Kept(q \o ps, r2)
    BY DEF Kept
  <1>0. r2 \in Pens /\ SentOf(r2) \subseteq Letters
    BY DEF Fits, Letters
  <1>1. PICK d \in SentOf(r2) : ps = <<d>>
    BY <1>0, PacketsAre
  <1> DEFINE q2 == Append(q, d)
             n == Len(q)
             T == ToolOf[r2.tool]
  <1>2. /\ q2 \in Seq(Letters) /\ n \in Nat /\ DOMAIN q = 1 .. n /\ DOMAIN q2 = 1 .. n + 1
        /\ q2[n + 1] = d /\ (\A i \in 1 .. n : q2[i] = q[i]) /\ q \o ps = q2
    BY <1>0, <1>1, AppendFacts
  <1>3. /\ d.prox
        /\ d.stylus <=> r2.tool # "mouse"
        /\ d.eraser <=> r2.tool = "eraser" \/ r2.switch = "STYLUS2"
    BY <1>0, IVFields
  <1>4. SameStay(r, r2) \/ Comes(r, r2)
    BY DEF Moves
  <1>5. r2.tool \in {"pen", "eraser", "mouse"}
    BY DEF Fits, Tools
  <1>6. n > 0 => (q[n].prox <=> r # Away)
    <2>1. n > 0 => q # <<>> /\ q[n] \in SentOf(r)
      BY <1>2 DEF LastOf
    <2>2. r \in Pens
      BY DEF Fits
    <2>3. QED
      BY <2>1, <2>2, IVFields
  <1>7. n = 0 /\ "tool" \notin stale => (state.prox <=> r # Away)
    <2>1. n = 0 => None(q, Codes("prox"))
      BY <1>2 DEF None
    <2>2. "tool" \notin stale => Fresh("prox")
      BY DEF Fresh
    <2>3. Holds(state, "prox") = state.prox
      BY DEF Holds
    <2>4. QED
      BY <2>1, <2>2, <2>3 DEF Told
  <1>8. n + 1 \in 1 .. n + 1 /\ \A i \in 1 .. n + 1 : i = n + 1 \/ (i \in 1 .. n /\ n + 1 > i)
    BY <1>2
  <1>9. \A i \in 1 .. n : i - 1 \in 1 .. n \/ i = 1
    BY <1>2
  <1> HIDE DEF q2, n, T
  <1>10. CASE Comes(r, r2)
    <2>1. Chosen(d) = T
      BY <1>3, <1>5, <1>10 DEF Chosen, ToolOf, Comes, T
    <2>2. \A i \in 1 .. n : ~Stay(q2, i)
      <3> TAKE i \in 1 .. n
      <3>1. n > 0 /\ n \in 1 .. n /\ n \in 1 .. n + 1 /\ n >= i
        BY <1>2
      <3>2. ~q2[n].prox
        BY <1>2, <1>6, <1>10, <3>1 DEF Comes
      <3>3. QED
        BY <1>2, <3>1, <3>2 DEF Stay
    <2>3. ASSUME NEW i \in 1 .. n + 1, Stay(q2, i)
          PROVE  /\ q2[i].stylus <=> r2.tool # "mouse"
                 /\ Chosen(q2[i]) = T
      <3>1. i = n + 1
        BY <1>8, <2>2, <2>3
      <3>2. QED
        BY <1>2, <1>3, <2>1, <3>1
    <2>4. ASSUME Stay(q2, 1), "tool" \notin stale
          PROVE  ~state.prox /\ Chosen(q2[1]) = T
      <3>1. 1 \notin 1 .. n
        BY <2>2, <2>4
      <3>2. n = 0
        BY <1>2, <3>1
      <3>3. QED
        BY <1>2, <1>7, <1>10, <2>1, <2>4, <3>2 DEF Comes
    <2>5. QED
      BY <1>2, <2>3, <2>4 DEF Kept, T
  <1>11. CASE SameStay(r, r2)
    <2>1. /\ r # Away /\ ~r.odd /\ T = ToolOf[r.tool] /\ r2.tool = r.tool
      BY <1>11 DEF SameStay, T
    <2>2. /\ \A i \in 1 .. n :
               Stay(q, i) => /\ q[i].stylus <=> r2.tool # "mouse"
                             /\ i > 1 /\ ~q[i - 1].prox => Chosen(q[i]) = T
          /\ Stay(q, 1) /\ "tool" \notin stale =>
               IF state.prox THEN state.tool = T
               ELSE q # <<>> => Chosen(q[1]) = T
      BY <1>2, <2>1 DEF Kept
    <2>3. \A i : Stay(q2, i) => Stay(q, i)
      <3>1. \A j \in 1 .. n : j \in 1 .. n + 1
        BY <1>2
      <3>2. QED
        BY <1>2, <3>1 DEF Stay
    <2>4. n > 0 => q2[n].prox
      <3>1. n > 0 => n \in 1 .. n
        BY <1>2
      <3>2. QED
        BY <1>2, <1>6, <2>1, <3>1
    <2>5. ASSUME NEW i \in 1 .. n + 1, Stay(q2, i)
          PROVE  /\ q2[i].stylus <=> r2.tool # "mouse"
                 /\ i > 1 /\ ~q2[i - 1].prox => Chosen(q2[i]) = T
      <3>1. CASE i = n + 1
        <4>1. i > 1 => n > 0 /\ i - 1 = n
          BY <1>2, <3>1
        <4>2. QED
          BY <1>2, <1>3, <2>4, <3>1, <4>1
      <3>2. CASE i \in 1 .. n
        <4>1. i > 1 => q2[i - 1] = q[i - 1]
          BY <1>2, <1>9, <3>2
        <4>2. QED
          BY <1>2, <2>2, <2>3, <2>5, <3>2, <4>1
      <3>3. QED
        BY <1>8, <3>1, <3>2
    <2>6. ASSUME Stay(q2, 1), "tool" \notin stale
          PROVE  IF state.prox THEN state.tool = T ELSE Chosen(q2[1]) = T
      <3>1. CASE n = 0
        BY <1>7, <2>1, <2>2, <2>3, <2>6, <3>1
      <3>2. CASE n # 0
        <4>1. 1 \in 1 .. n /\ q # <<>>
          BY <1>2, <3>2 DEF n
        <4>2. QED
          BY <1>2, <2>2, <2>3, <2>6, <4>1
      <3>3. QED
        BY <3>1, <3>2
    <2>7. QED
      BY <1>2, <2>5, <2>6 DEF Kept, T
  <1>12. QED
    BY <1>4, <1>10, <1>11

-----------------------------------------------------------------------------
(* The invariant after each kind of step.                                  *)

LEMMA SentSame ==
  ASSUME UNCHANGED kind
  PROVE  SentOf(pen)' = SentOf(pen')
  <1> DEFINE x == pen'
             near == x # Away
             side == near /\ x.switch = "STYLUS"
             eraser == near /\ (x.tool = "eraser" \/ x.switch = "STYLUS2")
             stylus == near /\ x.tool # "mouse"
             pressure == IVPressure(IF near THEN x.press ELSE 0)
             a == pressure.p6
             b == pressure.low
             m == Length
             m2 == Length'
             R(k) == [code |-> "IV", length |-> k, prox |-> near, stylus |-> stylus,
                      side |-> side, eraser |-> eraser, p6 |-> a, low |-> b]
  <1>1. IVPacket(pen') = R(m)
    BY DEF IVPacket
  <1>2. IVPacket(pen)' = R(m2)
    BY DEF IVPacket, IVPressure, Coarse, Away
  <1>3. \A n : [R(m) EXCEPT !.length = n] = R(n) /\ [R(m2) EXCEPT !.length = n] = R(n)
    <2> HIDE DEF near, side, eraser, stylus, pressure, a, b, m, m2
    <2>1. QED
      OBVIOUS
  <1> HIDE DEF R, m, m2, x
  <1>4. CASE kind.protocol = "IV"
    <2> DEFINE L == IF kind.minor >= 4 THEN {7, 9} ELSE {7}
    <2>1. SentOf(pen') = {[IVPacket(pen') EXCEPT !.length = n] : n \in L}
      BY <1>4 DEF SentOf
    <2>2. SentOf(pen)' = {[IVPacket(pen)' EXCEPT !.length = n] : n \in L}
      BY <1>4 DEF SentOf
    <2> HIDE DEF L
    <2>3. SentOf(pen') = {R(n) : n \in L} /\ SentOf(pen)' = {R(n) : n \in L}
      BY <1>1, <1>2, <1>3, <2>1, <2>2
    <2>4. QED
      BY <2>3
  <1>5. CASE kind.protocol # "IV"
    BY <1>5 DEF SentOf, TPCPacket, VIn, VOut, VData, Away
  <1>6. QED
    BY <1>4, <1>5

LEMMA ToldSame ==
  ASSUME UNCHANGED <<kind, state, stale>>, NEW e \in {"prox", "tool", "press", "buttons"},
         Told(line', e, Has(pen', e))
  PROVE  Told(line, e, Has(pen, e))'
  <1>1. Has(pen, e)' = Has(pen', e)
    BY DEF Has, Away, ToolOf, Side
  <1>2. \A i \in DOMAIN line' : Says(line[i], e)' = Says(line'[i], e)
    BY DEF Says, ReadPressure, EightBits, Coarse
  <1>3. Fresh(e)' = Fresh(e) /\ Holds(state, e)' = Holds(state, e)
    BY DEF Fresh, Holds
  <1>4. QED
    BY <1>1, <1>2, <1>3 DEF Told, None, Decides, Codes

LEMMA KeptSame ==
  ASSUME UNCHANGED <<kind, state, stale>>, Kept(line', pen')
  PROVE  Kept(line, pen)'
  BY DEF Kept, Stay, Chosen, ToolOf, Away

LEMMA LastSame ==
  ASSUME UNCHANGED kind, LastOf(line', pen')
  PROVE  LastOf(line, pen)'
  BY SentSame DEF LastOf

LEMMA ToldInvSame ==
  ASSUME UNCHANGED <<kind, state, stale>>,
         \A e \in Values : Exempt(pen', e) \/ Told(line', e, Has(pen', e))
  PROVE  ToldInv'
  <1>1. Values' = Values /\ Values \subseteq {"prox", "tool", "press", "buttons"}
    BY DEF Values
  <1>2. \A e \in Values : Exempt(pen, e)' = Exempt(pen', e)
    BY DEF Exempt, Away
  <1>3. \A e \in Values : Told(line', e, Has(pen', e)) => Told(line, e, Has(pen, e))'
    BY <1>1, ToldSame
  <1>4. \A e \in Values : (Exempt(pen, e) \/ Told(line, e, Has(pen, e)))'
    BY <1>2, <1>3
  <1>5. QED
    BY <1>1, <1>4 DEF ToldInv

\* Nothing happens that FollowInv is about.
LEMMA FollowSame ==
  ASSUME FollowInv, UNCHANGED <<kind, pen, line, state, touch, stale>>,
         pc' # "exit" => pc # "exit"
  PROVE  FollowInv'
  <1> SUFFICES ASSUME pc # "exit", Supported
               PROVE  /\ touch' = Report(state)'
                      /\ "tool" \notin stale' => "prox" \notin stale'
                      /\ ToldInv' /\ Kept(line, pen)' /\ LastOf(line, pen)' /\ SeenInv'
    BY DEF FollowInv, Supported
  <1>1. /\ touch = Report(state)
        /\ "tool" \notin stale => "prox" \notin stale
        /\ ToldInv /\ Kept(line, pen) /\ LastOf(line, pen) /\ SeenInv
    BY DEF FollowInv
  <1>2. ToldInv'
    BY <1>1, ToldInvSame DEF ToldInv
  <1>3. Kept(line, pen)' /\ LastOf(line, pen)'
    BY <1>1, KeptSame, LastSame
  <1>4. SeenInv'
    BY <1>1 DEF SeenInv, Ambiguous, Reported, Side, ToolOf, Away
  <1>5. touch' = Report(state)'
    BY <1>1 DEF Report
  <1>6. QED
    BY <1>1, <1>2, <1>3, <1>4, <1>5

LEMMA FollowSends ==
  ASSUME FollowInv, PenFits, TiltFits, line \in Seq(Letters), pc # "exit",
         UNCHANGED <<kind, state, touch, stale>>, Fits(pen'),
         NEW enters \in BOOLEAN, Moves(pen, pen', enters),
         NEW ps \in Packets(pen', enters), line' = line \o ps
  PROVE  FollowInv'
  <1> SUFFICES ASSUME Supported
               PROVE  /\ touch' = Report(state)'
                      /\ "tool" \notin stale' => "prox" \notin stale'
                      /\ ToldInv' /\ Kept(line, pen)' /\ LastOf(line, pen)' /\ SeenInv'
    BY DEF FollowInv, Supported
  <1>1. /\ touch = Report(state)
        /\ "tool" \notin stale => "prox" \notin stale
        /\ ToldInv /\ Kept(line, pen) /\ LastOf(line, pen)
    BY DEF FollowInv
  <1>2. kind \in Tablets /\ Fits(pen) /\ pen' \in Pens
    BY DEF PenFits, Fits
  <1> DEFINE r == pen
             r2 == pen'
             q == line
             q2 == line'
  <1> HIDE DEF r, r2, q, q2
  <1>3. /\ kind \in Tablets /\ TiltFits /\ Fits(r) /\ Fits(r2) /\ q \in Seq(Letters)
        /\ Moves(r, r2, enters) /\ ps \in Packets(r2, enters) /\ q2 = q \o ps
        /\ LastOf(q, r) /\ Kept(q, r) /\ r2 \in Pens
    BY <1>1, <1>2 DEF r, r2, q, q2
  <1>4. \A e \in Values : Exempt(r, e) \/ Told(q, e, Has(r, e))
    BY <1>1 DEF ToldInv, r, q
  <1>5. \A e \in Values : Exempt(r2, e) \/ Told(q2, e, Has(r2, e))
    BY <1>3, <1>4, ToldMoves
  <1>6. Told(q, "prox", r # Away)
    <2>1. "prox" \in Values /\ ~Exempt(r, "prox") /\ Has(r, "prox") = (r # Away)
      BY DEF Values, Exempt, Has
    <2>2. QED
      BY <1>4, <2>1
  <1>7. Kept(q2, r2)
    BY <1>1, <1>3, <1>6, KeptMoves
  <1>8. LastOf(q2, r2)
    BY <1>3, LastMoves
  <1>9. ToldInv' /\ Kept(line, pen)' /\ LastOf(line, pen)'
    BY <1>5, <1>7, <1>8, ToldInvSame, KeptSame, LastSame DEF q2, r2
  <1>10. SeenInv'
    <2>1. kind.protocol # "V" => line' # <<>>
      <3>1. kind.protocol # "V" => \E d \in SentOf(r2) : ps = <<d>>
        BY <1>3, PacketsAre
      <3>2. \A d \in SentOf(r2) : q \o <<d>> # <<>>
        BY <1>3
      <3>3. QED
        BY <1>3, <3>1, <3>2 DEF q2
    <2>2. QED
      BY <2>1 DEF SeenInv
  <1>11. touch' = Report(state)'
    BY <1>1 DEF Report
  <1>12. QED
    BY <1>1, <1>9, <1>10, <1>11

LEMMA TailLast ==
  ASSUME NEW q \in Seq(Letters), q # <<>>, NEW r, LastOf(q, r)
  PROVE  LastOf(Tail(q), r)
  <1>1. Tail(q) # <<>> => Tail(q)[Len(Tail(q))] = q[Len(q)]
    OBVIOUS
  <1>2. QED
    BY <1>1 DEF LastOf

LEMMA TailStays ==
  ASSUME NEW q \in Seq(Letters), q # <<>>
  PROVE  /\ \A i \in DOMAIN Tail(q) : Stay(Tail(q), i) => Stay(q, i + 1)
         /\ Stay(Tail(q), 1) /\ q[1].prox => Stay(q, 1)
  <1> DEFINE t == Tail(q)
             n == Len(q)
  <1>1. /\ n \in Nat \ {0} /\ DOMAIN q = 1 .. n /\ DOMAIN t = 1 .. n - 1
        /\ \A k \in 1 .. n - 1 : t[k] = q[k + 1]
    BY TailFacts
  <1> HIDE DEF t, n
  <1>2. \A j \in 1 .. n : j = 1 \/ (j - 1 \in 1 .. n - 1 /\ (j - 1) + 1 = j)
    BY <1>1
  <1>3. ASSUME NEW i \in 1 .. n - 1, Stay(t, i)
        PROVE  Stay(q, i + 1)
    <2> SUFFICES ASSUME NEW j \in 1 .. n, j >= i + 1
                 PROVE  q[j].prox
      BY <1>1 DEF Stay
    <2>1. j - 1 \in 1 .. n - 1 /\ j - 1 >= i /\ (j - 1) + 1 = j
      BY <1>1
    <2>2. QED
      BY <1>1, <1>3, <2>1 DEF Stay
  <1>4. ASSUME Stay(t, 1), q[1].prox
        PROVE  Stay(q, 1)
    <2> SUFFICES ASSUME NEW j \in 1 .. n
                 PROVE  q[j].prox
      BY <1>1 DEF Stay
    <2>1. CASE j = 1
      BY <1>4, <2>1
    <2>2. CASE j # 1
      <3>1. j - 1 \in 1 .. n - 1 /\ j - 1 >= 1 /\ (j - 1) + 1 = j
        BY <1>1, <2>2
      <3>2. QED
        BY <1>1, <1>4, <3>1 DEF Stay
    <2>3. QED
      BY <2>1, <2>2
  <1>5. QED
    BY <1>1, <1>3, <1>4 DEF t

\* What Kept says of the packets in the line.
KeptLine(q, r) ==
  kind.protocol = "IV" /\ kind.minor > 2 /\ r # Away /\ ~r.odd =>
    \A i \in DOMAIN q :
      Stay(q, i) => /\ q[i].stylus <=> r.tool # "mouse"
                    /\ i > 1 /\ ~q[i - 1].prox => Chosen(q[i]) = ToolOf[r.tool]

LEMMA KeptTail ==
  ASSUME NEW q \in Seq(Letters), q # <<>>, NEW r, Kept(q, r)
  PROVE  KeptLine(Tail(q), r)
  <1> SUFFICES ASSUME kind.protocol = "IV", kind.minor > 2, r # Away, ~r.odd,
                      NEW i \in DOMAIN Tail(q), Stay(Tail(q), i)
               PROVE  /\ Tail(q)[i].stylus <=> r.tool # "mouse"
                      /\ i > 1 /\ ~Tail(q)[i - 1].prox
                           => Chosen(Tail(q)[i]) = ToolOf[r.tool]
    BY DEF KeptLine
  <1> DEFINE t == Tail(q)
             n == Len(q)
             T == ToolOf[r.tool]
             j == i + 1
  <1>1. /\ n \in Nat \ {0} /\ DOMAIN q = 1 .. n /\ DOMAIN t = 1 .. n - 1
        /\ \A k \in 1 .. n - 1 : t[k] = q[k + 1]
    BY TailFacts
  <1>2. Stay(q, j)
    BY TailStays
  <1>3. j \in 1 .. n /\ i \in 1 .. n - 1 /\ j > 1 /\ j - 1 = i /\ t[i] = q[j]
    BY <1>1
  <1>4. i > 1 => t[i - 1] = q[j - 1]
    <2>1. i > 1 => i - 1 \in 1 .. n - 1 /\ (i - 1) + 1 = j - 1
      BY <1>1
    <2>2. QED
      BY <1>1, <2>1
  <1> HIDE DEF t, n, T, j
  <1>5. /\ q[j].stylus <=> r.tool # "mouse"
        /\ j > 1 /\ ~q[j - 1].prox => Chosen(q[j]) = T
    BY <1>1, <1>2, <1>3 DEF Kept, T
  <1>6. /\ t[i].stylus <=> r.tool # "mouse"
        /\ i > 1 /\ ~t[i - 1].prox => Chosen(t[i]) = T
    BY <1>3, <1>4, <1>5
  <1>7. QED
    BY <1>6 DEF t, T

LEMMA KeptLineSame ==
  ASSUME UNCHANGED kind, KeptLine(line', pen'), "tool" \in stale'
  PROVE  Kept(line, pen)'
  BY DEF Kept, KeptLine, Stay, Chosen, ToolOf, Away

\* All is stale: what is in the line must still be true.
LEMMA FollowStale ==
  ASSUME FollowInv, line \in Seq(Letters), stale' = All,
         UNCHANGED <<kind, pen, state, touch>>, pc # "exit" \/ pc' = "exit",
         line' = <<>> \/ (line # <<>> /\ line' = Tail(line))
  PROVE  FollowInv'
  <1> SUFFICES ASSUME pc # "exit", Supported
               PROVE  /\ touch' = Report(state)'
                      /\ "tool" \notin stale' => "prox" \notin stale'
                      /\ ToldInv' /\ Kept(line, pen)' /\ LastOf(line, pen)' /\ SeenInv'
    BY DEF FollowInv, Supported
  <1>1. /\ touch = Report(state)
        /\ ToldInv /\ Kept(line, pen) /\ LastOf(line, pen)
    BY DEF FollowInv
  <1>2. stale' = {"prox", "tool", "press"}
    BY DEF All
  <1>3. ToldInv'
    <2>1. Values' = Values /\ Values \subseteq {"prox", "tool", "press", "buttons"}
      BY DEF Values
    <2>2. ASSUME NEW e \in Values, ~Exempt(pen, e)
          PROVE  Told(line, e, Has(pen, e))'
      <3>1. Told(line, e, Has(pen, e))
        BY <1>1, <2>2 DEF ToldInv
      <3>2. \A i \in DOMAIN line' :
              Decides(line', i, Codes(e)) => Says(line'[i], e) = Has(pen, e)
        <4>1. CASE line' = <<>>
          BY <4>1
        <4>2. CASE line # <<>> /\ line' = Tail(line)
          <5>1. \A i \in DOMAIN Tail(line) :
                  Decides(Tail(line), i, Codes(e)) => Says(Tail(line)[i], e) = Has(pen, e)
            BY <3>1, <4>2, ToldLost
          <5>2. QED
            BY <4>2, <5>1
        <4>3. QED
          BY <4>1, <4>2
      <3>3. Has(pen, e)' = Has(pen, e)
        BY DEF Has, Away, ToolOf, Side
      <3>4. \A i \in DOMAIN line' : Says(line[i], e)' = Says(line'[i], e)
        BY DEF Says, ReadPressure, EightBits, Coarse
      <3>5. ~Fresh(e)'
        BY <1>2, <2>1 DEF Fresh
      <3>6. QED
        BY <3>2, <3>3, <3>4, <3>5 DEF Told, Decides, Codes
    <2>3. \A e \in Values : Exempt(pen, e)' = Exempt(pen, e)
      BY DEF Exempt, Away
    <2>4. QED
      BY <2>1, <2>2, <2>3 DEF ToldInv
  <1>4. Kept(line, pen)'
    <2>1. KeptLine(line', pen')
      <3>1. CASE line' = <<>>
        BY <3>1 DEF KeptLine
      <3>2. CASE line # <<>> /\ line' = Tail(line)
        BY <1>1, <3>2, KeptTail
      <3>3. QED
        BY <3>1, <3>2
    <2>2. QED
      BY <1>2, <2>1, KeptLineSame
  <1>5. LastOf(line, pen)'
    <2>1. LastOf(line', pen')
      <3>1. CASE line' = <<>>
        BY <3>1 DEF LastOf
      <3>2. CASE line # <<>> /\ line' = Tail(line)
        BY <1>1, <3>2, TailLast
      <3>3. QED
        BY <3>1, <3>2
    <2>2. QED
      BY <2>1, LastSame
  <1>6. SeenInv'
    BY <1>2 DEF SeenInv
  <1>7. touch' = Report(state)'
    BY <1>1 DEF Report
  <1>8. QED
    BY <1>2, <1>3, <1>4, <1>5, <1>6, <1>7

\* A packet brings up to date only what it settles.
LEMMA BringsOnly ==
  ASSUME kind \in Tablets, NEW p \in Letters
  PROVE  /\ \A e \in Values : p.code \notin Codes(e) =>
              (IF e = "buttons" THEN "press" ELSE e) \notin Brings(p)
         /\ "tool" \in Brings(p) => "prox" \in Brings(p)
         /\ kind.protocol = "IV" /\ kind.minor > 2 /\ p.prox => "tool" \notin Brings(p)
  <1>1. PICK q \in Pens : p \in SentOf(q)
    BY DEF Letters
  <1>2. p.code \in {"in", "pen", "air", "mouse", "out", "IV", "tpc"}
    BY <1>1, KindIs, IVFields, TPCFields, VFields
  <1>3. \A e \in Values : p.code \notin Codes(e) =>
          (IF e = "buttons" THEN "press" ELSE e) \notin Brings(p)
    <2> TAKE e \in Values
    <2> HAVE p.code \notin Codes(e)
    <2>1. CASE e \in {"prox", "tool"}
      <3>1. p.code \in {"pen", "air", "mouse"}
        BY <1>2, <2>1 DEF Codes, ProxCodes
      <3>2. QED
        BY <2>1, <3>1 DEF Brings
    <2>2. CASE e \in {"press", "buttons"}
      <3>1. p.code \in {"in", "mouse"}
        BY <1>2, <2>2 DEF Codes, PressCodes
      <3>2. QED
        BY <2>2, <3>1 DEF Brings
    <2>3. QED
      BY <2>1, <2>2 DEF Values
  <1>4. "tool" \in Brings(p) => "prox" \in Brings(p)
    BY <1>2 DEF Brings, All
  <1>5. kind.protocol = "IV" /\ kind.minor > 2 /\ p.prox => "tool" \notin Brings(p)
    <2>1. kind.protocol = "IV" => p.code = "IV"
      BY <1>1, IVFields
    <2>2. QED
      BY <2>1 DEF Brings
  <1>6. QED
    BY <1>3, <1>4, <1>5

LEMMA KeptReceived ==
  ASSUME Parsing, NEW q \in Seq(Letters), q # <<>>, NEW r, r \in Pens, Kept(q, r),
         kind.protocol = "IV", kind.minor > 2, r # Away, ~r.odd,
         "tool" \notin stale \ Brings(q[1]), Stay(Tail(q), 1)
  PROVE  IF Parsed(q[1]).prox THEN Parsed(q[1]).tool = ToolOf[r.tool]
         ELSE Tail(q) # <<>> => Chosen(Tail(q)[1]) = ToolOf[r.tool]
  <1> DEFINE p == q[1]
             n == Len(q)
             T == ToolOf[r.tool]
             t == Tail(q)
  <1>1. /\ p \in Letters /\ n \in Nat \ {0} /\ DOMAIN q = 1 .. n /\ DOMAIN t = 1 .. n - 1
        /\ \A k \in 1 .. n - 1 : t[k] = q[k + 1]
    BY TailFacts
  <1>2. /\ p.prox \in BOOLEAN
        /\ ~p.prox => Parsed(p) = Nothing
        /\ p.prox => Parsed(p).prox /\ Parsed(p).tool = ToolNow(p)
    BY <1>1, ParsedAll
  <1>3. r.tool \in {"pen", "eraser", "airbrush", "mouse"}
    BY PenIs
  <1>4. CASE p.prox
    <2>1. Stay(q, 1) /\ 1 \in DOMAIN q
      BY <1>1, <1>4, TailStays
    <2>2. "tool" \notin stale
      <3>1. kind \in Tablets
        BY DEF Parsing, PenFits
      <3>2. QED
        BY <1>1, <1>4, <3>1, BringsOnly
    <2>3. /\ p.stylus <=> r.tool # "mouse"
          /\ IF state.prox THEN state.tool = T ELSE Chosen(p) = T
      BY <2>1, <2>2 DEF Kept
    <2>4. ToolNow(p) = IF p.stylus THEN ToolKept(p) ELSE "MOUSE"
      BY DEF ToolNow
    <2>5. ToolNow(p) = T
      <3>1. CASE ~p.stylus
        BY <2>3, <2>4, <3>1 DEF ToolOf
      <3>2. CASE p.stylus /\ state.prox
        BY <2>3, <2>4, <3>2 DEF ToolKept
      <3>3. CASE p.stylus /\ ~state.prox
        BY <2>3, <2>4, <3>3 DEF ToolKept, Chosen
      <3>4. QED
        BY <3>1, <3>2, <3>3
    <2>6. QED
      BY <1>2, <1>4, <2>5
  <1>5. CASE ~p.prox
    <2>1. ~Parsed(p).prox
      BY <1>2, <1>5 DEF Nothing
    <2>2. ASSUME t # <<>>
          PROVE  Chosen(t[1]) = T
      <3>1. n > 1
        <4>1. t \in Seq(Letters) /\ Len(t) = n - 1
          BY TailFacts
        <4>2. Len(t) # 0
          BY <2>2, <4>1
        <4>3. QED
          BY <1>1, <4>1, <4>2
      <3>2. 1 \in DOMAIN t /\ 2 \in DOMAIN q /\ t[1] = q[2]
        BY <1>1, <3>1
      <3>3. Stay(q, 2)
        BY <3>2, TailStays
      <3>4. QED
        BY <1>5, <3>2, <3>3 DEF Kept
    <2>3. QED
      BY <2>1, <2>2
  <1>6. QED
    BY <1>2, <1>4, <1>5

\* The last packet of a protocol that tells everything.
LEMMA SeenReceived ==
  ASSUME Parsing, kind.protocol # "V", pen # Away, ~Ambiguous, NEW p \in SentOf(pen),
         kind.protocol = "IV" /\ kind.minor > 2 => ToolNow(p) = ToolOf[pen.tool]
  PROVE  /\ Parsed(p).tool = ToolOf[pen.tool]
         /\ Parsed(p).buttons \cap Side = {pen.switch} \cap Reported
  <1>1. pen \in Pens /\ p \in Letters /\ kind \in Tablets
    BY DEF Letters, Parsing, PenFits, Fits
  <1>2. /\ pen.tool \in Tools /\ pen.switch \in {"none", "STYLUS", "STYLUS2"}
        /\ pen.tool # "pen" => pen.switch = "none"
    BY <1>1, PenIs DEF Parsing, PenFits, Fits, Switches
  <1>3. p.prox
    BY <1>1, KindIs, IVFields, TPCFields
  <1>4. Parsed(p).tool = ToolNow(p) /\ Parsed(p).buttons \cap Side = SideNow(p)
    BY <1>1, <1>3, ParsedAll
  <1>5. CASE kind.protocol = "tpc"
    <2>1. /\ p.side <=> pen.switch = "STYLUS"
          /\ p.eraser <=> pen.tool = "eraser"
      BY <1>1, <1>5, TPCFields DEF Ambiguous
    <2>2. pen.tool \in {"pen", "eraser"} /\ pen.switch # "STYLUS2"
      BY <1>2, <1>5 DEF Tools, Ambiguous
    <2>3. ToolNow(p) = ToolOf[pen.tool]
      BY <1>5, <2>1, <2>2 DEF ToolNow, ToolOf
    <2>4. SideNow(p) = {pen.switch} \cap Reported
      BY <1>2, <1>5, <2>1, <2>2 DEF SideNow, Reported, If
    <2>5. QED
      BY <1>4, <2>3, <2>4
  <1>6. CASE kind.protocol = "IV" /\ kind.minor > 2
    <2>1. /\ p.side <=> pen.switch = "STYLUS"
          /\ p.eraser <=> pen.tool = "eraser" \/ pen.switch = "STYLUS2"
      BY <1>1, <1>6, IVFields
    <2>2. pen.tool \in {"pen", "eraser", "mouse"}
      BY <1>2, <1>6 DEF Tools
    <2>3. ToolNow(p) = "PEN" <=> pen.tool = "pen"
      BY <1>6, <2>2 DEF ToolOf
    <2>4. SideNow(p) = {pen.switch} \cap Reported
      BY <1>2, <1>6, <2>1, <2>2, <2>3 DEF SideNow, Reported, If
    <2>5. QED
      BY <1>4, <1>6, <2>4
  <1>7. CASE kind.protocol = "IV" /\ ~(kind.minor > 2)
    <2>1. /\ p.side <=> pen.switch = "STYLUS"
          /\ p.stylus <=> pen.tool # "mouse"
      BY <1>1, <1>7, IVFields
    <2>2. pen.tool \in {"pen", "mouse"}
      BY <1>1, <1>2, <1>7, KindIs DEF Tools
    <2>3. ToolNow(p) = ToolOf[pen.tool]
      BY <1>7, <2>1, <2>2 DEF ToolNow, ToolOf
    <2>4. SideNow(p) = {pen.switch} \cap Reported
      BY <1>2, <1>7, <2>1, <2>2 DEF SideNow, Reported, If
    <2>5. QED
      BY <1>4, <2>3, <2>4
  <1>8. QED
    BY <1>1, <1>5, <1>6, <1>7, KindIs

LEMMA FollowReceives ==
  ASSUME FollowInv, PenFits, SetupInv, line \in Seq(Letters), state \in States,
         opened, Receive
  PROVE  FollowInv'
  <1> DEFINE q == line
             p == q[1]
             s == Parsed(p)
  <1>1. /\ q # <<>> /\ line' = Tail(q) /\ pc # "exit"
        /\ stale' = stale \ Brings(p) /\ UNCHANGED <<kind, pen>>
        /\ IF Accepted(s) THEN state' = s /\ touch' = Report(s)
           ELSE UNCHANGED <<state, touch>>
    BY DEF Receive, tabletVars
  <1> SUFFICES ASSUME Supported
               PROVE  /\ touch' = Report(state)'
                      /\ "tool" \notin stale' => "prox" \notin stale'
                      /\ ToldInv' /\ Kept(line, pen)' /\ LastOf(line, pen)' /\ SeenInv'
    BY <1>1 DEF FollowInv, Supported
  <1>2. /\ "tool" \notin stale => "prox" \notin stale
        /\ ToldInv /\ Kept(q, pen) /\ LastOf(q, pen)
    BY <1>1 DEF FollowInv
  <1>3. Parsing /\ q \in Seq(Letters) /\ kind \in Tablets /\ pen \in Pens
    BY DEF Parsing, PenFits, Fits
  <1> HIDE DEF q
  <1>4. p \in Letters
    BY <1>1, <1>3, TailFacts
  <1>5. /\ s \in States /\ s # Refused
        /\ \A e \in Values :
             Holds(s, e) = IF p.code \in Codes(e) THEN Says(p, e) ELSE Holds(state, e)
    BY <1>3, <1>4, ParsedSays, StateIs
  <1> HIDE DEF p, s
  <1>6. state' = s /\ touch' = Report(s)
    BY <1>1, <1>5 DEF Accepted
  <1>7. "tool" \notin stale' => "prox" \notin stale'
    BY <1>1, <1>2, <1>3, <1>4, BringsOnly
  <1>8. ToldInv'
    <2>1. Values' = Values /\ Values \subseteq {"prox", "tool", "press", "buttons"}
      BY <1>1 DEF Values
    <2>2. ASSUME NEW e \in Values, ~Exempt(pen, e)
          PROVE  Told(line, e, Has(pen, e))'
      <3> DEFINE v == Has(pen, e)
      <3>1. Told(q, e, v)
        BY <1>2, <2>2 DEF ToldInv, q
      <3>2. Has(pen, e)' = v
        BY <1>1 DEF Has, Away, ToolOf, Side
      <3>3. \A i \in DOMAIN line' : Says(line[i], e)' = Says(line'[i], e)
        BY <1>1 DEF Says, ReadPressure, EightBits, Coarse
      <3> HIDE DEF v
      <3>4. \A i \in DOMAIN line' :
              Decides(line', i, Codes(e)) => Says(line'[i], e) = v
        BY <1>1, <1>3, <3>1, ToldLost
      <3>5. Fresh(e)' /\ p.code \notin Codes(e) => Fresh(e)
        BY <1>1, <1>3, <1>4, BringsOnly DEF Fresh
      <3>6. ASSUME None(line', Codes(e)), Fresh(e)'
            PROVE  Holds(s, e) = v
        <4>1. IF p.code \in Codes(e) THEN Says(p, e) = v
              ELSE Fresh(e) => Holds(state, e) = v
          BY <1>1, <1>3, <3>1, <3>6, ToldTaken DEF p
        <4>2. QED
          BY <1>5, <2>2, <3>5, <3>6, <4>1
      <3>7. Holds(state, e)' = Holds(s, e)
        BY <1>6 DEF Holds, Side
      <3>8. QED
        BY <3>2, <3>3, <3>4, <3>6, <3>7 DEF Told, None, Decides, Codes
    <2>3. \A e \in Values : Exempt(pen, e)' = Exempt(pen, e)
      BY <1>1 DEF Exempt, Away
    <2>4. QED
      BY <2>1, <2>2, <2>3 DEF ToldInv
  <1>9. Kept(line, pen)'
    <2> DEFINE r == pen
               t == line'
    <2>1. KeptLine(t, r)
      BY <1>1, <1>2, <1>3, KeptTail
    <2>2. ASSUME kind.protocol = "IV", kind.minor > 2, r # Away, ~r.odd,
                 Stay(t, 1), "tool" \notin stale'
          PROVE  IF s.prox THEN s.tool = ToolOf[r.tool]
                 ELSE t # <<>> => Chosen(t[1]) = ToolOf[r.tool]
      <3>1. Stay(Tail(q), 1) /\ "tool" \notin stale \ Brings(q[1])
        BY <1>1, <2>2 DEF p
      <3>2. IF Parsed(q[1]).prox THEN Parsed(q[1]).tool = ToolOf[r.tool]
            ELSE Tail(q) # <<>> => Chosen(Tail(q)[1]) = ToolOf[r.tool]
        BY <1>1, <1>2, <1>3, <2>2, <3>1, KeptReceived
      <3>3. QED
        BY <1>1, <3>2 DEF s, p
    <2>3. QED
      BY <1>1, <1>6, <2>1, <2>2 DEF Kept, KeptLine, Stay, Chosen, ToolOf, Away
  <1>10. LastOf(line, pen)'
    BY <1>1, <1>2, <1>3, TailLast, LastSame
  <1>11. SeenInv'
    <2> SUFFICES ASSUME kind.protocol # "V", line' = <<>>, stale' = {}, pen # Away,
                        ~Ambiguous
                 PROVE  /\ s.tool = ToolOf[pen.tool]
                        /\ s.buttons \cap Side = {pen.switch} \cap Reported
      BY <1>1, <1>6 DEF SeenInv, Ambiguous, Reported, Side, ToolOf, Away
    <2>1. Len(q) = 1
      <3>1. Len(Tail(q)) = Len(q) - 1 /\ Len(q) \in Nat
        BY <1>1, <1>3, TailFacts
      <3>2. Len(Tail(q)) = 0
        <4>1. Tail(q) = <<>>
          BY <1>1
        <4>2. Len(<<>>) = 0
          OBVIOUS
        <4>3. QED
          BY <4>1, <4>2
      <3>3. QED
        BY <3>1, <3>2
    <2>2. p \in SentOf(pen)
      BY <1>1, <1>2, <2>1 DEF LastOf, p
    <2>3. ASSUME kind.protocol = "IV", kind.minor > 2
          PROVE  ToolNow(p) = ToolOf[pen.tool]
      <3>1. ~pen.odd
        BY <2>3 DEF Ambiguous
      <3>2. Stay(Tail(q), 1)
        BY <1>1 DEF Stay
      <3>3. "tool" \notin stale \ Brings(q[1])
        BY <1>1 DEF p
      <3>4. IF s.prox THEN s.tool = ToolOf[pen.tool]
            ELSE Tail(q) # <<>> => Chosen(Tail(q)[1]) = ToolOf[pen.tool]
        BY <1>1, <1>2, <1>3, <2>3, <3>1, <3>2, <3>3, KeptReceived DEF s, p
      <3>5. p.prox
        BY <1>3, <2>2, <2>3, IVFields
      <3>6. s.prox /\ s.tool = ToolNow(p)
        BY <1>3, <1>4, <2>3, <3>5, ParsedAll DEF s
      <3>7. QED
        BY <3>4, <3>6
    <2>4. QED
      BY <1>3, <2>2, <2>3, SeenReceived DEF s
  <1>12. touch' = Report(state)'
    BY <1>6 DEF Report
  <1>13. QED
    BY <1>7, <1>8, <1>9, <1>10, <1>11, <1>12

-----------------------------------------------------------------------------
(* Every step keeps the invariant.                                         *)

LEMMA LettersSame ==
  ASSUME UNCHANGED kind
  PROVE  /\ Letters' = Letters /\ States' = States
         /\ \A r : Fits(r)' <=> Fits(r)
         /\ ParserOf' = ParserOf
  <1>1. Pens' = Pens /\ MaxPressure' = MaxPressure /\ States' = States
    BY DEF Pens, Near, Away, MaxPressure, Coarse, States
  <1>2. \A r : SentOf(r)' = SentOf(r)
    <2> SUFFICES ASSUME NEW CONSTANT x
                 PROVE  SentOf(x)' = SentOf(x)
      OBVIOUS
    <2> DEFINE near == x # Away
               side == near /\ x.switch = "STYLUS"
               eraser == near /\ (x.tool = "eraser" \/ x.switch = "STYLUS2")
               stylus == near /\ x.tool # "mouse"
               pressure == IVPressure(IF near THEN x.press ELSE 0)
               a == pressure.p6
               b == pressure.low
               m == Length
               m2 == Length'
               R(k) == [code |-> "IV", length |-> k, prox |-> near, stylus |-> stylus,
                        side |-> side, eraser |-> eraser, p6 |-> a, low |-> b]
    <2>1. IVPacket(x) = R(m)
      BY DEF IVPacket
    <2>2. IVPacket(x)' = R(m2)
      BY DEF IVPacket, IVPressure, Coarse, Away
    <2>3. \A n : [R(m) EXCEPT !.length = n] = R(n) /\ [R(m2) EXCEPT !.length = n] = R(n)
      <3> HIDE DEF near, side, eraser, stylus, pressure, a, b, m, m2
      <3>1. QED
        OBVIOUS
    <2> HIDE DEF R, m, m2
    <2>4. CASE kind.protocol = "IV"
      <3> DEFINE L == IF kind.minor >= 4 THEN {7, 9} ELSE {7}
      <3>1. SentOf(x) = {[IVPacket(x) EXCEPT !.length = n] : n \in L}
        BY <2>4 DEF SentOf
      <3>2. SentOf(x)' = {[IVPacket(x)' EXCEPT !.length = n] : n \in L}
        BY <2>4 DEF SentOf
      <3> HIDE DEF L
      <3>3. SentOf(x) = {R(n) : n \in L} /\ SentOf(x)' = {R(n) : n \in L}
        BY <2>1, <2>2, <2>3, <3>1, <3>2
      <3>4. QED
        BY <3>3
    <2>5. CASE kind.protocol # "IV"
      BY <2>5 DEF SentOf, TPCPacket, VIn, VOut, VData, Away
    <2>6. QED
      BY <2>4, <2>5
  <1>3. Letters' = Letters
    BY <1>1, <1>2 DEF Letters
  <1>4. \A r : Fits(r)' <=> Fits(r)
    BY <1>1 DEF Fits, Tools, Presses, Switches, Away, Coarse
  <1>5. ParserOf' = ParserOf
    BY DEF ParserOf
  <1>6. QED
    BY <1>1, <1>3, <1>4, <1>5

LEMMA FitsSame ==
  ASSUME UNCHANGED kind, Fits(pen')
  PROVE  Fits(pen)'
  <1>1. Pens' = Pens /\ MaxPressure' = MaxPressure
    BY DEF Pens, Near, Away, MaxPressure, Coarse
  <1>2. QED
    BY <1>1 DEF Fits, Tools, Presses, Switches, Away, Coarse

\* The pen and the state stay, and the line is as it was or shorter.
LEMMA DataSame ==
  ASSUME DataFit, UNCHANGED <<kind, pen, state>>,
         line' \in {line, <<>>} \/ (line # <<>> /\ line' = Tail(line))
  PROVE  DataFit'
  <1>1. line \in Seq(Letters) /\ Len(line) <= LineSize /\ Len(line) \in Nat
    BY DEF DataFit, LineFits
  <1>2. line' \in Seq(Letters) /\ Len(line') <= LineSize
    <2>1. CASE line' = <<>>
      BY <2>1, TabletAssumption
    <2>2. CASE line' = line
      BY <1>1, <2>2
    <2>3. CASE line # <<>> /\ line' = Tail(line)
      <3>1. Tail(line) \in Seq(Letters) /\ Len(Tail(line)) = Len(line) - 1
        BY <1>1, <2>3, TailFacts
      <3>2. Len(Tail(line)) <= LineSize
        BY <1>1, <3>1, TabletAssumption
      <3>3. QED
        BY <2>3, <3>1, <3>2
    <2>4. QED
      BY <2>1, <2>2, <2>3
  <1>3. Fits(pen)'
    BY FitsSame DEF DataFit, PenFits
  <1>4. QED
    BY <1>2, <1>3, LettersSame DEF DataFit, PenFits, LineFits

LEMMA NearFits ==
  ASSUME kind \in Tablets, NEW t \in Tools, NEW press \in Presses(t),
         NEW s \in Switches(t), NEW odd \in BOOLEAN
  PROVE  Fits(Near(t, press, s, odd))
  <1>1. t \in {"pen", "eraser", "airbrush", "mouse"}
    BY KindIs, TabletAssumption DEF Tools
  <1>2. s \in {"none", "STYLUS", "STYLUS2"}
    BY DEF Switches
  <1>3. press \in 0 .. MaxPressure
    <2>1. minPress \in Nat
      BY TabletAssumption
    <2>2. press = 0 \/ (press \in {minPress, 100, 150} /\ press <= MaxPressure)
      BY DEF Presses
    <2>3. MaxPressure \in Nat
      BY DEF MaxPressure
    <2>4. QED
      BY <2>1, <2>2, <2>3
  <1> DEFINE r == Near(t, press, s, odd)
  <1>4. r \in Pens
    BY <1>1, <1>2, <1>3 DEF Pens
  <1>5. r.tool = t /\ r.press = press /\ r.switch = s
    BY DEF Near
  <1> HIDE DEF r
  <1>6. Fits(r)
    BY <1>4, <1>5 DEF Fits
  <1>7. QED
    BY <1>6 DEF r

LEMMA InitHolds ==
  ASSUME Init
  PROVE  TabletInv
  <1>1. Types
    <2>1. version \in Nat \X Nat
      BY DEF Init
    <2>2. faults \in 0 .. MaxFaults /\ nBitErrors \in 0 .. 4 /\ uPacketLength \in {0, 7, 9}
      BY TabletAssumption DEF Init
    <2>3. QED
      BY <2>1, <2>2 DEF Init, Types, All
  <1>2. SetupInv
    BY DEF Init, SetupInv
  <1>3. DataFit
    <2>1. kind \in Tablets /\ kind.protocol \in {"IV", "V", "tpc"}
      BY KindIs DEF Init
    <2>2. line = <<>> /\ line \in Seq(Letters) /\ Len(line) <= LineSize
      BY TabletAssumption DEF Init
    <2>3. ASSUME NEW t \in Tools
          PROVE  Fits(Near(t, 0, "none", FALSE))
      <3>1. 0 \in Presses(t) /\ "none" \in Switches(t)
        BY DEF Presses, Switches
      <3>2. QED
        BY <2>1, <3>1, NearFits
    <2>4. Fits(Away)
      BY DEF Fits, Pens
    <2>5. Fits(pen)
      BY <2>3, <2>4 DEF Init
    <2>6. QED
      BY <2>1, <2>2, <2>5, NothingFits DEF Init, DataFit, PenFits, LineFits
  <1>4. FollowInv
    <2>1. line = <<>> /\ state = Nothing /\ touch = FALSE
      BY DEF Init
    <2>2. touch = Report(state)
      BY <2>1 DEF Report, Nothing
    <2>3. pen = Away \/ stale = All
      BY DEF Init
    <2>4. ToldInv
      <3>1. ASSUME NEW e \in Values, Fresh(e)
            PROVE  Holds(state, e) = Has(pen, e)
        <4>1. pen = Away
          BY <2>3, <3>1 DEF Values, Fresh, All
        <4>2. QED
          BY <2>1, <4>1 DEF Values, Holds, Has, Nothing
      <3>2. QED
        BY <2>1, <3>1 DEF ToldInv, Told
    <2>5. Kept(line, pen) /\ LastOf(line, pen) /\ SeenInv
      BY <2>1, <2>3 DEF Kept, LastOf, SeenInv, All
    <2>6. stale \in {{}, All}
      BY DEF Init
    <2>7. QED
      BY <2>2, <2>4, <2>5, <2>6 DEF FollowInv, All
  <1>5. QED
    BY <1>1, <1>2, <1>3, <1>4 DEF TabletInv

LEMMA TypesStep ==
  ASSUME Types, PenFits, [Next]_vars
  PROVE  Types'
  <1>1. kind.major \in Nat /\ kind.minor \in Nat
    BY KindIs DEF PenFits
  <1>2. CASE PenMoves
    BY <1>2 DEF PenMoves, Types, Sends, progVars, setupVars, All
  <1>3. CASE TabletRepeats
    BY <1>3 DEF TabletRepeats, Types, Sends, tabletVars, progVars, setupVars
  <1>4. CASE PacketIsLost
    <2>1. faults' \in 0 .. MaxFaults
      <3>1. MaxFaults \in Nat /\ faults \in 0 .. MaxFaults
            /\ faults < MaxFaults /\ faults' = faults + 1
        BY <1>4, TabletAssumption DEF PacketIsLost, Types
      <3>2. QED
        BY <3>1
    <2>2. QED
      BY <1>4, <2>1 DEF PacketIsLost, Types, tabletVars, progVars, setupVars, All
  <1>5. CASE SetDevice
    BY <1>5 DEF SetDevice, Types, tabletVars, ioVars
  <1>6. CASE ConfigTTY
    BY <1>6 DEF ConfigTTY, Types, setupVars, ioVars, All
  <1>7. CASE IdentTabletPC
    BY <1>7 DEF IdentTabletPC, Types, tabletVars, ioVars
  <1>8. CASE IdentWacom
    <2>1. /\ version' \in {version, <<kind.major, kind.minor>>}
          /\ pc' \in {"init", "ident again", "failed"}
          /\ uPacketLength' \in {uPacketLength, 7, 9}
      BY <1>8 DEF IdentWacom, Identified
    <2>2. version' \in Nat \X Nat
      <3>1. version \in Nat \X Nat
        BY DEF Types
      <3>2. <<kind.major, kind.minor>> \in Nat \X Nat
        BY <1>1
      <3>3. QED
        BY <2>1, <3>1, <3>2
    <2>3. QED
      BY <1>8, <2>1, <2>2 DEF IdentWacom, Types, tabletVars, ioVars
  <1>9. CASE InitTablet
    BY <1>9 DEF InitTablet, Tilts, Types, ioVars
  <1>10. CASE Start
    BY <1>10 DEF Start, Types, setupVars, ioVars
  <1>11. CASE ResetFails
    BY <1>11 DEF ResetFails, Types, tabletVars, setupVars, ioVars
  <1>12. CASE ResetAfterErrors
    BY <1>12 DEF ResetAfterErrors, Types, tabletVars, setupVars
  <1>13. CASE Receive
    <2>1. touch' \in BOOLEAN
      <3>1. Report(Parsed(Head(line))) \in BOOLEAN
        BY DEF Report
      <3>2. QED
        BY <1>13, <3>1 DEF Receive, Types
    <2>2. QED
      BY <1>13, <2>1 DEF Receive, Types, tabletVars, setupVars
  <1>14. CASE ReceiveGarbled
    BY <1>14, TabletAssumption DEF ReceiveGarbled, Types, tabletVars, setupVars, All
  <1>15. CASE Interrupted
    BY <1>15 DEF Interrupted, Types, tabletVars, setupVars
  <1>16. CASE UNCHANGED vars
    BY <1>16 DEF vars, Types
  <1>17. QED
    BY <1>2, <1>3, <1>4, <1>5, <1>6, <1>7, <1>8, <1>9, <1>10, <1>11, <1>12, <1>13, <1>14,
       <1>15, <1>16 DEF Next, Reset

LEMMA ParserGiven ==
  ASSUME kind \in Tablets, pDevice = kind.protocol,
         kind.protocol = "IV" => version = <<kind.major, kind.minor>>,
         pfnParse \in {"NULL", ParserOf}
  PROVE  ParserFor = ParserOf /\ (Tilts => kind.protocol = "IV" /\ kind.minor >= 4)
  <1>1. kind.protocol \in {"IV", "V", "tpc"} /\ kind.major \in Nat /\ kind.minor \in Nat
    BY KindIs
  <1>2. CASE kind.protocol = "IV"
    BY <1>1, <1>2 DEF ParserFor, ParserOf, Tilts
  <1>3. CASE kind.protocol # "IV"
    BY <1>1, <1>3 DEF ParserFor, ParserOf, Tilts
  <1>4. QED
    BY <1>2, <1>3

LEMMA SetupStep ==
  ASSUME SetupInv, PenFits, [Next]_vars
  PROVE  SetupInv'
  <1>1. kind.protocol \in {"IV", "V", "tpc"} /\ kind.major \in Nat /\ kind.minor \in Nat
    BY KindIs DEF PenFits
  <1>2. UNCHANGED kind
    BY DEF Next, Reset, PenMoves, TabletRepeats, PacketIsLost, SetDevice, ConfigTTY,
           IdentTabletPC, IdentWacom, InitTablet, Start, ResetFails, ResetAfterErrors,
           Receive, ReceiveGarbled, Interrupted, vars, tabletVars
  <1>3. ParserOf' = ParserOf
    BY <1>2, LettersSame
  <1>4. CASE PenMoves
    BY <1>4, <1>1, <1>2, <1>3 DEF PenMoves, SetupInv, setupVars, progVars, Sends, Heard
  <1>5. CASE TabletRepeats
    BY <1>5, <1>1, <1>2, <1>3 DEF TabletRepeats, SetupInv, tabletVars, setupVars, progVars, Sends, Heard
  <1>6. CASE PacketIsLost
    BY <1>6, <1>1, <1>2, <1>3 DEF PacketIsLost, SetupInv, tabletVars, setupVars, progVars
  <1>7. CASE SetDevice
    BY <1>7, <1>1, <1>2, <1>3 DEF SetDevice, SetupInv, tabletVars, Requested
  <1>8. CASE ConfigTTY
    <2>1. /\ pc = "config" /\ pc' \in {"ident", "failed"} /\ (tilt' => tilt)
          /\ UNCHANGED <<opened, pDevice, version, pfnParse>>
      BY <1>8 DEF ConfigTTY, setupVars
    <2>2. QED
      BY <1>2, <1>3, <2>1 DEF SetupInv
  <1>9. CASE IdentTabletPC
    BY <1>9, <1>1, <1>2, <1>3 DEF IdentTabletPC, SetupInv, tabletVars
  <1>10. CASE IdentWacom
    BY <1>10, <1>1, <1>2, <1>3 DEF IdentWacom, SetupInv, Identified, tabletVars
  <1>11. CASE InitTablet
    <2>1. pc = "init" /\ pDevice = kind.protocol /\ pfnParse \in {"NULL", ParserOf}
      BY <1>11 DEF InitTablet, SetupInv
    <2>2. kind.protocol = "IV" => version = <<kind.major, kind.minor>>
      BY <2>1 DEF SetupInv
    <2>3. ParserFor = ParserOf /\ (Tilts => kind.protocol = "IV" /\ kind.minor >= 4)
      BY <2>1, <2>2, ParserGiven DEF PenFits
    <2>4. QED
      <3>1. /\ pc' \in {"start", "failed"} /\ UNCHANGED <<opened, pDevice, version>>
            /\ \/ pfnParse' = ParserOf /\ tilt' = Tilts
               \/ pc' = "failed" /\ UNCHANGED <<pfnParse, tilt>>
        BY <1>11, <2>3 DEF InitTablet
      <3>2. tilt' => kind.protocol = "IV" /\ kind.minor >= 4
        BY <2>3, <3>1 DEF SetupInv
      <3>3. /\ pfnParse' \in {"NULL", ParserOf}
            /\ pc' = "start" \/ opened => pfnParse' = ParserOf
        BY <2>1, <3>1 DEF SetupInv
      <3>4. QED
        BY <1>2, <1>3, <2>1, <2>2, <3>1, <3>2, <3>3 DEF SetupInv
  <1>12. CASE Start
    BY <1>12, <1>1, <1>2, <1>3 DEF Start, SetupInv, setupVars
  <1>13. CASE ResetFails
    BY <1>13, <1>1, <1>2, <1>3 DEF ResetFails, SetupInv, tabletVars, setupVars
  <1>14. CASE ResetAfterErrors
    BY <1>14, <1>1, <1>2, <1>3 DEF ResetAfterErrors, SetupInv, tabletVars, setupVars
  <1>15. CASE Receive
    BY <1>15, <1>1, <1>2, <1>3 DEF Receive, SetupInv, tabletVars, setupVars
  <1>16. CASE ReceiveGarbled
    BY <1>16, <1>1, <1>2, <1>3 DEF ReceiveGarbled, SetupInv, tabletVars, setupVars
  <1>17. CASE Interrupted
    BY <1>17, <1>1, <1>2, <1>3 DEF Interrupted, SetupInv, tabletVars, setupVars
  <1>18. CASE UNCHANGED vars
    BY <1>18, <1>2, <1>3 DEF vars, SetupInv
  <1>19. QED
    BY <1>4, <1>5, <1>6, <1>7, <1>8, <1>9, <1>10, <1>11, <1>12, <1>13, <1>14, <1>15, <1>16, <1>17, <1>18 DEF Next, Reset
LEMMA MoveIs ==
  ASSUME PenFits, PenMoves
  PROVE  Fits(pen') /\ Moves(pen, pen', pen = Away)
  <1>1. kind \in Tablets /\ pen \in Pens
    BY DEF PenFits, Fits
  <1>2. \A t \in Tools : t # "none"
    BY <1>1, KindIs, TabletAssumption DEF Tools
  <1>3. ASSUME NEW t \in Tools, NEW s \in Switches(t), pen = Away,
               pen' = Near(t, 0, s, s = "STYLUS2")
        PROVE  Fits(pen') /\ Moves(pen, pen', pen = Away)
    <2>1. 0 \in Presses(t) /\ (s = "STYLUS2") \in BOOLEAN
      BY DEF Presses
    <2>2. Fits(pen')
      BY <1>1, <1>3, <2>1, NearFits
    <2>3. pen'.tool = t /\ pen'.switch = s /\ (pen'.odd <=> s = "STYLUS2")
      BY <1>3 DEF Near
    <2>4. pen' # Away
      BY <1>2, <2>3 DEF Away
    <2>5. QED
      BY <1>3, <2>2, <2>3, <2>4 DEF Moves, Comes
  <1>4. ASSUME NEW press \in Presses(pen.tool), NEW s \in Switches(pen.tool), pen # Away,
               pen' = Near(pen.tool, press, s, pen.odd)
        PROVE  Fits(pen') /\ Moves(pen, pen', pen = Away)
    <2>1. pen.tool \in Tools
      BY <1>4 DEF PenFits, Fits
    <2>2. pen.odd \in BOOLEAN
      BY <1>1, <1>4 DEF Pens, Near
    <2>3. Fits(pen')
      BY <1>1, <1>4, <2>1, <2>2, NearFits
    <2>4. pen'.tool = pen.tool /\ pen'.odd = pen.odd
      BY <1>4 DEF Near
    <2>5. pen' # Away
      BY <1>2, <2>1, <2>4 DEF Away
    <2>6. QED
      BY <1>4, <2>3, <2>4, <2>5 DEF Moves, SameStay
  <1>5. CASE pen' = Away
    <2>1. Fits(Away)
      BY DEF Fits, Pens
    <2>2. QED
      BY <1>5, <2>1 DEF Moves
  <1>6. QED
    BY <1>3, <1>4, <1>5 DEF PenMoves

LEMMA SendsFits ==
  ASSUME PenFits, TiltFits, line \in Seq(Letters), NEW r \in Pens, NEW enters \in BOOLEAN,
         NEW ps \in Packets(r, enters)
  PROVE  line \o ps \in Seq(Letters)
  <1>1. kind \in Tablets
    BY DEF PenFits
  <1>2. SentOf(r) \subseteq Letters
    BY DEF Letters
  <1>3. CASE kind.protocol # "V"
    <2>1. PICK d \in SentOf(r) : ps = <<d>>
      BY <1>1, <1>3, PacketsAre
    <2>2. d \in Letters
      BY <1>2
    <2>3. QED
      BY <2>1, <2>2
  <1>4. CASE kind.protocol = "V" /\ r = Away
    <2>1. ps = <<VOut>>
      BY <1>1, <1>4, PacketsAre
    <2>2. VOut \in Letters
      BY <1>2, <1>4 DEF SentOf
    <2>3. QED
      BY <2>1, <2>2
  <1>5. CASE kind.protocol = "V" /\ r # Away
    <2>1. PICK d \in VData(r) : ps = IF enters THEN <<VIn(r), d>> ELSE <<d>>
      BY <1>1, <1>5, PacketsAre
    <2>2. d \in Letters /\ VIn(r) \in Letters
      BY <1>2, <1>5, VLetters
    <2>3. ps \in Seq(Letters)
      BY <2>1, <2>2
    <2>4. QED
      BY <2>3
  <1>6. QED
    BY <1>3, <1>4, <1>5

\* Without a parser the packets of an unsupported tablet are refused.
LEMMA ReceivedFits ==
  ASSUME DataFit, SetupInv, opened, Receive
  PROVE  state' \in States
  <1> DEFINE p == Head(line)
  <1>1. /\ line # <<>> /\ state \in States
        /\ state' = IF Accepted(Parsed(p)) THEN Parsed(p) ELSE state
    BY DEF Receive, DataFit
  <1>2. p \in Letters
    BY <1>1, TailFacts DEF DataFit, LineFits
  <1> HIDE DEF p
  <1>3. CASE Supported
    <2>1. Parsed(p) \in States
      BY <1>2, <1>3, ParsedSays DEF Parsing, DataFit
    <2>2. QED
      BY <1>1, <2>1
  <1>4. CASE ~Supported
    <2>1. pfnParse = "NULL"
      BY <1>4 DEF SetupInv, ParserOf, Supported
    <2>2. Parsed(p) = Refused
      BY <2>1 DEF Parsed
    <2>3. QED
      BY <1>1, <2>2 DEF Accepted
  <1>5. QED
    BY <1>3, <1>4

LEMMA DataStep ==
  ASSUME Types, SetupInv, DataFit, [Next]_vars
  PROVE  DataFit'
  <1>1. kind \in Tablets /\ pen \in Pens /\ line \in Seq(Letters) /\ PenFits /\ TiltFits
    BY DEF DataFit, PenFits, LineFits, Fits, SetupInv, TiltFits
  <1>2. ASSUME UNCHANGED <<kind, state>>, Fits(pen'), NEW enters \in BOOLEAN,
               Sends(pen', enters)
        PROVE  DataFit'
    <2>1. PICK ps \in Packets(pen', enters) : Len(line \o ps) <= LineSize /\ line' = line \o ps
      BY <1>2 DEF Sends
    <2>2. line' \in Seq(Letters) /\ Len(line') <= LineSize
      <3>1. pen' \in Pens
        BY <1>2 DEF Fits
      <3>2. line \o ps \in Seq(Letters)
        BY <1>1, <3>1, SendsFits
      <3>3. QED
        BY <2>1, <3>2
    <2>3. Fits(pen)'
      BY <1>2, FitsSame
    <2>4. QED
      BY <1>1, <1>2, <2>2, <2>3, LettersSame DEF DataFit, PenFits, LineFits
  <1>3. CASE PenMoves
    <2>1. Fits(pen') /\ UNCHANGED <<kind, state>>
      BY <1>1, <1>3, MoveIs DEF PenMoves, progVars
    <2>2. CASE Sends(pen', pen = Away)
      <3>1. (pen = Away) \in BOOLEAN
        OBVIOUS
      <3>2. QED
        BY <1>2, <2>1, <2>2, <3>1
    <2>3. CASE UNCHANGED line
      <3>1. Fits(pen)'
        BY <2>1, FitsSame
      <3>2. QED
        BY <2>1, <2>3, <3>1, LettersSame DEF DataFit, PenFits, LineFits
    <2>4. QED
      BY <1>3, <2>2, <2>3 DEF PenMoves
  <1>4. CASE TabletRepeats
    <2>1. UNCHANGED <<kind, pen, state>> /\ Fits(pen')
      BY <1>1, <1>4 DEF TabletRepeats, tabletVars, progVars, PenFits
    <2>2. PICK enters \in BOOLEAN : Sends(pen', enters)
      BY <1>4, <2>1 DEF TabletRepeats
    <2>3. QED
      BY <1>2, <2>1, <2>2
  <1>5. CASE Receive
    <2>1. opened /\ UNCHANGED <<kind, pen>> /\ line # <<>> /\ line' = Tail(line)
      BY <1>5 DEF Receive, Types, tabletVars
    <2>2. state' \in States
      BY <1>5, <2>1, ReceivedFits
    <2>3. line' \in Seq(Letters) /\ Len(line') <= LineSize
      <3>1. Tail(line) \in Seq(Letters) /\ Len(Tail(line)) = Len(line) - 1 /\ Len(line) \in Nat
        BY <1>1, <2>1, TailFacts
      <3>2. Len(line) <= LineSize /\ LineSize \in Nat
        BY TabletAssumption DEF DataFit, LineFits
      <3>3. QED
        BY <2>1, <3>1, <3>2
    <2>4. Fits(pen)'
      BY <1>1, <2>1, FitsSame DEF PenFits
    <2>5. QED
      BY <1>1, <2>1, <2>2, <2>3, <2>4, LettersSame DEF DataFit, PenFits, LineFits
  <1>6. CASE PacketIsLost \/ ReceiveGarbled
    BY <1>6, DataSame DEF PacketIsLost, ReceiveGarbled, tabletVars, progVars
  <1>7. CASE Reset \/ ResetAfterErrors \/ Interrupted \/ UNCHANGED vars
    <2>1. UNCHANGED <<kind, pen, state>> /\ line' \in {line, <<>>}
      BY <1>7 DEF Reset, SetDevice, ConfigTTY, IdentTabletPC, IdentWacom, InitTablet, Start,
                  ResetFails, ResetAfterErrors, Interrupted, vars, tabletVars, ioVars
    <2>2. QED
      BY <2>1, DataSame
  <1>8. QED
    BY <1>3, <1>4, <1>5, <1>6, <1>7 DEF Next

\* The pen moves unseen: nothing is in the line, and all is stale.
LEMMA FollowUnseen ==
  ASSUME FollowInv, UNCHANGED <<kind, pc, line, state, touch>>, line = <<>>, stale' = All
  PROVE  FollowInv'
  <1> SUFFICES ASSUME pc # "exit", Supported
               PROVE  /\ touch' = Report(state)'
                      /\ "tool" \notin stale' => "prox" \notin stale'
                      /\ ToldInv' /\ Kept(line, pen)' /\ LastOf(line, pen)' /\ SeenInv'
    BY DEF FollowInv, Supported
  <1>1. touch = Report(state)
    BY DEF FollowInv
  <1>2. stale' = {"prox", "tool", "press"} /\ line' = <<>>
    BY DEF All
  <1>3. touch' = Report(state)'
    BY <1>1 DEF Report
  <1>4. ToldInv'
    BY <1>2 DEF ToldInv, Told, Values, Fresh
  <1>5. Kept(line, pen)' /\ LastOf(line, pen)' /\ SeenInv'
    BY <1>2 DEF Kept, LastOf, SeenInv
  <1>6. QED
    BY <1>2, <1>3, <1>4, <1>5

LEMMA FollowStep ==
  ASSUME Types, SetupInv, DataFit, FollowInv, [Next]_vars
  PROVE  FollowInv'
  <1>1. /\ PenFits /\ TiltFits /\ line \in Seq(Letters) /\ state \in States
        /\ (pc = "exit" => line = <<>>) /\ (pc = "read" => opened)
    BY DEF DataFit, LineFits, SetupInv, TiltFits, Types
  <1>2. CASE PenMoves
    <2>1. /\ Fits(pen') /\ Moves(pen, pen', pen = Away) /\ (pen = Away) \in BOOLEAN
          /\ UNCHANGED <<kind, pc, state, touch>>
      BY <1>1, <1>2, MoveIs DEF PenMoves, progVars
    <2>2. CASE Heard /\ Sends(pen', pen = Away) /\ UNCHANGED stale
      <3>1. PICK ps \in Packets(pen', pen = Away) : line' = line \o ps
        BY <2>2 DEF Sends
      <3>2. pc # "exit"
        BY <2>2 DEF Heard
      <3>3. QED
        BY <1>1, <2>1, <2>2, <3>1, <3>2, FollowSends
    <2>3. CASE line = <<>> /\ stale' = All /\ UNCHANGED line
      BY <2>1, <2>3, FollowUnseen
    <2>4. QED
      BY <1>2, <2>2, <2>3 DEF PenMoves
  <1>3. CASE TabletRepeats
    <2>1. /\ UNCHANGED <<kind, pen, pc, state, touch, stale>> /\ Fits(pen')
          /\ pc # "exit" /\ pen # Away
      BY <1>1, <1>3 DEF TabletRepeats, Heard, tabletVars, progVars, PenFits
    <2>2. PICK enters \in BOOLEAN : Sends(pen', enters)
      BY <1>3, <2>1 DEF TabletRepeats
    <2>3. PICK ps \in Packets(pen', enters) : line' = line \o ps
      BY <2>2 DEF Sends
    <2>4. Moves(pen, pen', enters)
      BY <2>1 DEF Moves, SameStay
    <2>5. QED
      BY <1>1, <2>1, <2>3, <2>4, FollowSends
  <1>4. CASE Receive
    BY <1>1, <1>4, FollowReceives DEF Receive
  <1>5. CASE PacketIsLost
    BY <1>1, <1>5, FollowStale DEF PacketIsLost, tabletVars, progVars
  <1>6. CASE ReceiveGarbled
    BY <1>1, <1>6, FollowStale DEF ReceiveGarbled, tabletVars
  <1>7. CASE ConfigTTY
    <2>1. UNCHANGED <<kind, pen, state, touch>> /\ pc # "exit"
      BY <1>7 DEF ConfigTTY, ioVars
    <2>2. CASE UNCHANGED <<line, stale>>
      BY <2>1, <2>2, FollowSame
    <2>3. CASE line # <<>> /\ line' = <<>> /\ stale' = All
      BY <1>1, <2>1, <2>3, FollowStale
    <2>4. QED
      BY <1>7, <2>2, <2>3 DEF ConfigTTY
  <1>8. CASE (SetDevice \/ IdentTabletPC \/ IdentWacom \/ InitTablet \/ Start) \/ ResetAfterErrors
    <2>1. UNCHANGED <<kind, pen, line, state, touch, stale>> /\ pc # "exit"
      BY <1>8 DEF SetDevice, IdentTabletPC, IdentWacom, InitTablet, Start, ResetAfterErrors,
                  tabletVars, ioVars
    <2>2. QED
      BY <2>1, FollowSame
  <1>9. CASE ResetFails
    <2>1. pc' = "exit" \/ UNCHANGED <<kind, pen, line, state, touch, stale>>
      BY <1>9 DEF ResetFails, tabletVars, ioVars
    <2>2. pc # "exit"
      BY <1>9 DEF ResetFails
    <2>3. QED
      BY <2>1, <2>2, FollowSame DEF FollowInv
  <1>10. CASE Interrupted
    BY <1>10 DEF Interrupted, FollowInv
  <1>11. CASE UNCHANGED vars
    BY <1>11, FollowSame DEF vars
  <1>12. QED
    BY <1>2, <1>3, <1>4, <1>5, <1>6, <1>7, <1>8, <1>9, <1>10, <1>11 DEF Next, Reset

LEMMA Invariance == Spec => []TabletInv
  <1>1. Init => TabletInv
    BY InitHolds
  <1>2. TabletInv /\ [Next]_vars => TabletInv'
    <2> SUFFICES ASSUME Types, SetupInv, DataFit, FollowInv, [Next]_vars
                 PROVE  Types' /\ SetupInv' /\ DataFit' /\ FollowInv'
      BY DEF TabletInv
    <2>1. PenFits
      BY DEF DataFit
    <2>2. QED
      BY <2>1, TypesStep, SetupStep, DataStep, FollowStep
  <1>3. QED
    BY <1>1, <1>2, PTL DEF Spec

\* The variables of wacom-input keep to their types: the tool and the pressure
\* are the tablet's, and the state is never the refusal of a packet.
THEOREM TabletTyping == Spec => []TypeOK
  <1>1. TabletInv => TypeOK
    <2> SUFFICES ASSUME TabletInv
                 PROVE  TypeOK
      OBVIOUS
    <2>1. Types /\ SetupInv /\ PenFits /\ LineFits /\ state \in States
      BY DEF TabletInv, DataFit
    <2>2. kind \in Tablets /\ kind.protocol \in {"IV", "V", "tpc"}
      BY <2>1, KindIs DEF PenFits
    <2>3. pen # Away => pen.tool \in Tools /\ pen.press \in Presses(pen.tool)
      BY <2>1 DEF PenFits, Fits
    <2>4. state.press \in 0 .. MaxPressure /\ state.tool # "refused"
      BY <2>1, StateIs
    <2>5. pDevice \in {"NULL", "IV", "V", "tpc"}
      BY <2>1, <2>2 DEF SetupInv
    <2>6. pfnParse \in {"NULL", "V", "IV_1_4", "IV_1_3", "IV_1_2", "TabletPC"}
      BY <2>1 DEF SetupInv, ParserOf
    <2>7. QED
      BY <2>1, <2>2, <2>3, <2>4, <2>5, <2>6 DEF TypeOK, Types, LineFits
  <1>2. QED
    BY <1>1, Invariance, PTL

\* BTN_TOUCH follows the pen: once what the tablet sent is read, a touch is
\* reported if and only if the pen presses harder than the -p option asks,
\* whatever resets, losses and garbled packets came before.
THEOREM TouchAsPen == Spec => []TouchFollows
  <1>1. TabletInv => TouchFollows
    <2> SUFFICES ASSUME TabletInv, Supported, pc # "exit", line = <<>>,
                        {"prox", "press"} \cap stale = {}, pen # Away => pen.tool # "airbrush"
                 PROVE  touch = (pen # Away /\ pen.press > minPress)
      BY DEF TouchFollows
    <2>1. touch = Report(state) /\ ToldInv
      BY DEF TabletInv, FollowInv
    <2>2. "prox" \in Values /\ "press" \in Values /\ ~Exempt(pen, "prox") /\ ~Exempt(pen, "press")
      BY DEF Values, Exempt
    <2>3. Fresh("prox") /\ Fresh("press") /\ None(line, Codes("prox")) /\ None(line, Codes("press"))
      BY DEF Fresh, None
    <2>4. Holds(state, "prox") = Has(pen, "prox") /\ Holds(state, "press") = Has(pen, "press")
      BY <2>1, <2>2, <2>3 DEF ToldInv, Told
    <2>5. state.prox = (pen # Away) /\ (pen # Away => state.press = pen.press)
      BY <2>4 DEF Holds, Has
    <2>6. QED
      BY <2>1, <2>5 DEF Report
  <1>2. QED
    BY <1>1, Invariance, PTL

\* The state names the tool on the tablet and the switch that is held: a second
\* switch makes no eraser of a pen, and no earlier tool stays on.
THEOREM ToolAsPen == Spec => []ToolFollows
  <1>1. TabletInv => ToolFollows
    <2> SUFFICES ASSUME TabletInv, Supported, pc # "exit", line = <<>>, stale = {},
                        pen # Away, ~Ambiguous
                 PROVE  /\ state.prox /\ state.tool = ToolOf[pen.tool]
                        /\ state.buttons \cap {"STYLUS", "STYLUS2"} = {pen.switch} \cap Reported
      BY DEF ToolFollows
    <2>1. ToldInv /\ SeenInv
      BY DEF TabletInv, FollowInv
    <2>2. ASSUME NEW e \in Values, e # "press"
          PROVE  Holds(state, e) = Has(pen, e)
      BY <2>1, <2>2 DEF ToldInv, Told, Fresh, None, Exempt
    <2>3. state.prox
      <3>1. Holds(state, "prox") = Has(pen, "prox")
        BY <2>2 DEF Values
      <3>2. QED
        BY <3>1 DEF Holds, Has
    <2>4. CASE kind.protocol = "V"
      <3>1. Holds(state, "tool") = Has(pen, "tool") /\ Holds(state, "buttons") = Has(pen, "buttons")
        BY <2>2, <2>4 DEF Values
      <3>2. state.tool = ToolOf[pen.tool] /\ state.buttons \cap Side = {pen.switch} \cap Side
        BY <3>1 DEF Holds, Has
      <3>3. Reported = Side
        BY <2>4 DEF Reported, If, Side
      <3>4. QED
        BY <2>3, <3>2, <3>3 DEF Side
    <2>5. CASE kind.protocol # "V"
      BY <2>1, <2>3, <2>5 DEF SeenInv, Side
    <2>6. QED
      BY <2>4, <2>5
  <1>2. QED
    BY <1>1, Invariance, PTL


-----------------------------------------------------------------------------
(* The line and the reader of WacomSerial.  The bytes that the tablet has  *)
(* ever sent are counted through, lost ones included: byte x is at place   *)
(* x % PacketLength of packet x \div PacketLength.                         *)

\* Packet k has the number i.
Numbered(i, k) == \E c \in Nat : k = i + c * PacketIds

\* b is what is sent as byte x.
Sent(b, x) == \E k \in Nat : Numbered(b.id, k) /\ x = k * PacketLength + b.at

\* What has been sent and will be looked at.
Unread == IF phase = "check" THEN tty ELSE buf \o tty

\* s has the bytes g[1], g[2] ... of those from y up to, but without, e.
InOrder(s, g, y, e) ==
  /\ g \in [1 .. Len(s) -> Nat]
  /\ \A i \in 1 .. Len(s) :
       Sent(s[i], g[i]) /\ y + i <= g[i] + 1 /\ g[i] + Len(s) + 1 <= e + i
  /\ \A i, j \in 1 .. Len(s) : i <= j => g[i] + j <= g[j] + i
  /\ y + Len(s) <= e

\* All but n bytes of those from y up to e are lost, and w more packets may be
\* missed than before.
Spent(n, y, e, w) == e <= y + n + lost /\ w + 2 * e <= 2 * (y + n + lost) + cut

\* The reader is w packets behind the last one accepted, or less.
Behind(y, w) ==
  \E m \in Nat : /\ Numbered(last, m)
                 /\ (m + 1) * PacketLength <= y /\ y <= (m + 1 + w) * PacketLength

Stream(g, y, e, w) ==
  /\ InOrder(Unread, g, y, e) /\ Spent(Len(Unread), y, e, w)
  /\ sending => Sent([id |-> id, at |-> next], e)
  /\ ~flushed /\ (sending \/ Unread # <<>>) => Behind(y, w)

StreamInv == \E y, e, w \in Nat : \E g : Stream(g, y, e, w)

\* The buffer begins with a high bit, and a reset begins with nothing left.
ReaderInv ==
  /\ phase \in {"reset", "ident", "ident again", "init", "given up"} => buf = <<>>
  /\ phase \in {"ident", "ident again", "init"} => ~sending /\ tty = <<>> /\ flushed
  /\ buf # <<>> => High(buf[1])
  /\ phase = "read" => Len(buf) < PacketLength
  /\ phase = "parse" => Len(buf) = PacketLength

SerialInv == SerialTypeOK /\ ReaderInv /\ StreamInv

-----------------------------------------------------------------------------
(* Packets and places.                                                     *)

LEMMA Sizes ==
  PacketLength \in Nat /\ PacketLength >= 1 /\ PacketIds \in Nat /\ PacketIds >= 1
  BY PacketAssumption

LEMMA Products ==
  ASSUME NEW n \in Nat, n >= 1, NEW a \in Nat, NEW b \in Nat
  PROVE  /\ a * n \in Nat /\ a <= a * n /\ (a + 1) * n = a * n + n /\ (a + b) * n = a * n + b * n
         /\ a < b => a * n + n <= b * n
         /\ a <= b => a * n <= b * n
  <1>1. a * n \in Nat /\ (a + 1) * n = a * n + n /\ (a + b) * n = a * n + b * n
    OBVIOUS
  <1>2. a <= a * n
    <2>1. a * n = a + a * (n - 1) /\ a * (n - 1) \in Nat
      OBVIOUS
    <2>2. QED
      BY <1>1, <2>1
  <1>3. ASSUME a < b PROVE a * n + n <= b * n
    <2> DEFINE d == b - a - 1
    <2>1. d \in Nat /\ b = (a + 1) + d
      BY <1>3
    <2> HIDE DEF d
    <2>2. d * n \in Nat /\ b * n = (a + 1) * n + d * n
      BY <2>1
    <2>3. QED
      BY <1>1, <2>2
  <1>4. a = b => a * n = b * n
    OBVIOUS
  <1>5. QED
    BY <1>1, <1>2, <1>3, <1>4

LEMMA OneQuotient ==
  ASSUME NEW n \in Nat, n >= 1, NEW a \in Nat, NEW b \in Nat,
         NEW i \in 0 .. n - 1, NEW j \in 0 .. n - 1, a * n + i = b * n + j
  PROVE  a = b /\ i = j
  <1>1. a * n \in Nat /\ b * n \in Nat
    OBVIOUS
  <1>2. a < b => a * n + n <= b * n
    BY Products
  <1>3. b < a => b * n + n <= a * n
    BY Products
  <1>4. a = b
    BY <1>1, <1>2, <1>3
  <1>5. QED
    BY <1>1, <1>4

\* A byte with the high bit begins a packet, any other one does not.
LEMMA HighBegins ==
  ASSUME NEW b \in Bytes, NEW x, Sent(b, x)
  PROVE  /\ High(b) => \E k \in Nat : Numbered(b.id, k) /\ x = k * PacketLength
         /\ ~High(b) => \A z \in Nat : x # z * PacketLength
  <1>1. PICK k \in Nat : Numbered(b.id, k) /\ x = k * PacketLength + b.at
    BY DEF Sent
  <1>2. b.at \in 0 .. PacketLength - 1 /\ k * PacketLength \in Nat
    BY Sizes DEF Bytes
  <1>3. High(b) => x = k * PacketLength
    BY <1>1, <1>2 DEF High
  <1>4. ASSUME NEW z \in Nat, x = z * PacketLength
        PROVE  High(b)
    <2>1. 0 \in 0 .. PacketLength - 1 /\ k * PacketLength + b.at = z * PacketLength + 0
      BY <1>1, <1>2, <1>4, Sizes
    <2>2. b.at = 0
      BY <1>2, <2>1, OneQuotient, Sizes
    <2>3. QED
      BY <2>2 DEF High
  <1>5. QED
    BY <1>1, <1>3, <1>4

\* The tablet's next byte.
LEMMA NextSent ==
  ASSUME SerialTypeOK, Advance, NEW e \in Nat, Sent([id |-> id, at |-> next], e)
  PROVE  Sent([id |-> id', at |-> next'], e + 1)
  <1>1. PICK k \in Nat : Numbered(id, k) /\ e = k * PacketLength + next
    BY DEF Sent
  <1>2. PICK c \in Nat : k = id + c * PacketIds
    BY <1>1 DEF Numbered
  <1>3. id \in 0 .. PacketIds - 1 /\ next \in 0 .. PacketLength - 1
    BY DEF SerialTypeOK
  <1>4. CASE next + 1 = PacketLength
    <2>1. next' = 0
      BY <1>4, Sizes DEF Advance
    <2>2. e + 1 = (k + 1) * PacketLength + 0
      BY <1>1, <1>3, <1>4, Sizes
    <2>3. Numbered(id', k + 1)
      <3>1. CASE id + 1 = PacketIds
        <4>1. id' = 0
          BY <1>4, <3>1, Sizes DEF Advance
        <4>2. k + 1 = 0 + (c + 1) * PacketIds
          BY <1>2, <1>3, <3>1, Sizes
        <4>3. QED
          BY <4>1, <4>2 DEF Numbered
      <3>2. CASE id + 1 # PacketIds
        <4>1. id' = id + 1
          BY <1>3, <1>4, <3>2, Sizes DEF Advance
        <4>2. k + 1 = (id + 1) + c * PacketIds
          BY <1>2, <1>3, Sizes
        <4>3. QED
          BY <4>1, <4>2 DEF Numbered
      <3>3. QED
        BY <3>1, <3>2
    <2>4. QED
      BY <2>1, <2>2, <2>3 DEF Sent
  <1>5. CASE next + 1 # PacketLength
    <2>1. next' = next + 1 /\ id' = id
      BY <1>3, <1>5, Sizes DEF Advance
    <2>2. e + 1 = k * PacketLength + (next + 1)
      BY <1>1, <1>3, Sizes
    <2>3. QED
      BY <1>1, <2>1, <2>2 DEF Sent
  <1>6. QED
    BY <1>4, <1>5

\* The packets missed between two that are accepted, from their places.
LEMMA MissedBound ==
  ASSUME NEW p \in Nat, p >= 1, NEW i \in 0 .. p - 1, NEW a \in 0 .. p - 1,
         NEW c \in Nat, NEW d \in Nat, NEW k \in Nat, NEW m \in Nat,
         k = i + c * p, m = a + d * p, m + 1 <= k
  PROVE  (i + p - a - 1) % p <= k - m - 1
  <1> DEFINE z == i + p - a - 1
  <1>1. z \in Nat /\ z < 2 * p
    OBVIOUS
  <1>2. c * p \in Nat /\ d * p \in Nat
    OBVIOUS
  <1>3. CASE c >= d + 1
    <2>1. (d + 1) * p <= c * p /\ (d + 1) * p = d * p + p
      BY <1>3, Products
    <2>2. z <= k - m - 1
      BY <1>2, <2>1
    <2>3. z % p <= z
      <3> HIDE DEF z
      <3>1. z % p \in 0 .. p - 1
        BY <1>1
      <3>2. z < p => z % p = z
        BY <1>1
      <3>3. QED
        BY <1>1, <3>1, <3>2
    <2>4. z % p \in Nat
      BY <1>1
    <2> HIDE DEF z
    <2>5. z % p <= k - m - 1
      BY <1>1, <2>2, <2>3, <2>4
    <2>6. QED
      BY <2>5 DEF z
  <1>4. CASE c < d
    <2>1. c * p + p <= d * p
      BY <1>4, Products
    <2>2. FALSE
      BY <1>2, <2>1
    <2>3. QED
      BY <2>2
  <1>5. CASE c = d
    <2>1. z - p = k - m - 1 /\ z - p \in 0 .. p - 1
      BY <1>2, <1>5
    <2>2. z % p = z - p
      <3> HIDE DEF z
      <3>1. QED
        BY <1>1, <2>1
    <2>3. QED
      BY <2>1, <2>2 DEF z
  <1>6. QED
    BY <1>3, <1>4, <1>5

-----------------------------------------------------------------------------
(* Bytes in order.                                                         *)

LEMMA NothingInOrder ==
  ASSUME NEW y \in Nat
  PROVE  InOrder(<<>>, [i \in 1 .. 0 |-> 0], y, y)
  BY DEF InOrder

\* A byte comes to the end of the line.
LEMMA OrderAppend ==
  ASSUME NEW s \in Seq(Bytes), NEW b \in Bytes, NEW g, NEW y \in Nat, NEW e \in Nat,
         InOrder(s, g, y, e), Sent(b, e)
  PROVE  \E h : InOrder(Append(s, b), h, y, e + 1)
  <1> DEFINE n == Len(s)
  <1> DEFINE h == [i \in 1 .. n + 1 |-> IF i <= n THEN g[i] ELSE e]
  <1>1. n \in Nat /\ Len(Append(s, b)) = n + 1
    OBVIOUS
  <1>2. Append(s, b)[n + 1] = b /\ \A i \in 1 .. n : Append(s, b)[i] = s[i]
    OBVIOUS
  <1>3. g \in [1 .. n -> Nat]
    BY DEF InOrder
  <1>4. h \in [1 .. n + 1 -> Nat] /\ h[n + 1] = e /\ \A i \in 1 .. n : h[i] = g[i]
    BY <1>1, <1>3
  <1>5. y + n <= e
    BY DEF InOrder
  <1>6. ASSUME NEW i \in 1 .. n + 1
        PROVE  Sent(Append(s, b)[i], h[i]) /\ y + i <= h[i] + 1 /\ h[i] + (n + 1) + 1 <= (e + 1) + i
    <2>1. CASE i = n + 1
      BY <1>1, <1>2, <1>4, <1>5, <2>1
    <2>2. CASE i \in 1 .. n
      <3>1. Sent(s[i], g[i]) /\ y + i <= g[i] + 1 /\ g[i] + n + 1 <= e + i
        BY <2>2 DEF InOrder
      <3>2. h[i] = g[i] /\ Append(s, b)[i] = s[i] /\ g[i] \in Nat
        BY <1>2, <1>3, <1>4, <2>2
      <3> HIDE DEF n, h
      <3>3. QED
        BY <1>1, <3>1, <3>2
    <2>3. QED
      BY <1>1, <2>1, <2>2
  <1>7. ASSUME NEW i \in 1 .. n + 1, NEW j \in 1 .. n + 1, i <= j
        PROVE  h[i] + j <= h[j] + i
    <2>1. CASE j \in 1 .. n
      <3>1. i \in 1 .. n
        BY <1>1, <1>7, <2>1
      <3>2. g[i] + j <= g[j] + i
        BY <1>7, <2>1, <3>1 DEF InOrder
      <3>3. QED
        BY <1>4, <2>1, <3>1, <3>2
    <2>2. CASE i = n + 1 /\ j = n + 1
      BY <1>4, <2>2
    <2>3. CASE i \in 1 .. n /\ j = n + 1
      <3>1. g[i] + n + 1 <= e + i
        BY <2>3 DEF InOrder
      <3>2. h[i] = g[i] /\ h[j] = e /\ g[i] \in Nat
        BY <1>3, <1>4, <2>3
      <3>3. QED
        BY <1>1, <2>3, <3>1, <3>2
    <2>4. QED
      BY <1>1, <1>7, <2>1, <2>2, <2>3
  <1> HIDE DEF h
  <1>8. InOrder(Append(s, b), h, y, e + 1)
    BY <1>1, <1>4, <1>5, <1>6, <1>7 DEF InOrder
  <1>9. QED
    BY <1>8

\* A byte gets lost before it is in the line.
LEMMA OrderSkip ==
  ASSUME NEW s \in Seq(Bytes), NEW g, NEW y \in Nat, NEW e \in Nat, InOrder(s, g, y, e)
  PROVE  InOrder(s, g, y, e + 1)
  <1>1. Len(s) \in Nat /\ g \in [1 .. Len(s) -> Nat]
    BY DEF InOrder
  <1>2. \A i \in 1 .. Len(s) : g[i] + Len(s) + 1 <= (e + 1) + i
    <2> TAKE i \in 1 .. Len(s)
    <2>1. g[i] + Len(s) + 1 <= e + i
      BY DEF InOrder
    <2>2. QED
      BY <1>1, <2>1
  <1>3. y + Len(s) <= e + 1
    BY <1>1 DEF InOrder
  <1>4. QED
    BY <1>2, <1>3 DEF InOrder

\* The first d bytes are dropped.
LEMMA OrderDrop ==
  ASSUME NEW s \in Seq(Bytes), NEW g, NEW y \in Nat, NEW e \in Nat, InOrder(s, g, y, e),
         NEW d \in 1 .. Len(s), NEW t \in Seq(Bytes), Len(t) = Len(s) - d,
         \A i \in 1 .. Len(t) : t[i] = s[i + d]
  PROVE  /\ g[d] \in Nat /\ y + d <= g[d] + 1
         /\ \E h : InOrder(t, h, g[d] + 1, e)
  <1> DEFINE n == Len(s)
  <1> DEFINE h == [i \in 1 .. n - d |-> g[i + d]]
  <1>1. n \in Nat /\ n - d \in Nat /\ \A i \in 1 .. n - d : i + d \in 1 .. n
    OBVIOUS
  <1>2. g \in [1 .. n -> Nat]
    BY DEF InOrder
  <1>3. h \in [1 .. n - d -> Nat] /\ \A i \in 1 .. n - d : h[i] = g[i + d]
    BY <1>1, <1>2
  <1>4. g[d] \in Nat /\ y + d <= g[d] + 1 /\ g[d] + n + 1 <= e + d
    BY <1>2 DEF InOrder
  <1>5. ASSUME NEW i \in 1 .. n - d
        PROVE  Sent(t[i], h[i]) /\ (g[d] + 1) + i <= h[i] + 1 /\ h[i] + (n - d) + 1 <= e + i
    <2>1. i + d \in 1 .. n /\ g[i + d] \in Nat
      BY <1>1, <1>2
    <2>2. Sent(s[i + d], g[i + d]) /\ g[i + d] + n + 1 <= e + (i + d)
      BY <2>1 DEF InOrder
    <2>3. d <= i + d
      BY <2>1
    <2>4. g[d] + (i + d) <= g[i + d] + d
      BY <2>1, <2>3 DEF InOrder
    <2>5. t[i] = s[i + d] /\ h[i] = g[i + d]
      BY <1>3
    <2> HIDE DEF h
    <2>6. (g[d] + 1) + i <= g[i + d] + 1 /\ g[i + d] + (n - d) + 1 <= e + i
      <3>1. d \in Nat /\ i \in Nat /\ g[d] \in Nat
        BY <1>4
      <3> DEFINE gd == g[d]
      <3> DEFINE gi == g[i + d]
      <3>2. n \in Nat /\ gd \in Nat /\ gi \in Nat /\ gi + n + 1 <= e + (i + d) /\ gd + (i + d) <= gi + d
        BY <1>1, <2>1, <2>2, <2>4, <3>1
      <3> HIDE DEF n, gd, gi
      <3>3. (gd + 1) + i <= gi + 1 /\ gi + (n - d) + 1 <= e + i
        BY <3>1, <3>2
      <3>4. QED
        BY <3>3 DEF gd, gi
    <2>7. QED
      BY <2>2, <2>5, <2>6
  <1>6. ASSUME NEW i \in 1 .. n - d, NEW j \in 1 .. n - d, i <= j
        PROVE  h[i] + j <= h[j] + i
    <2>1. i + d \in 1 .. n /\ j + d \in 1 .. n /\ i + d <= j + d
      BY <1>1, <1>6
    <2>2. g[i + d] + (j + d) <= g[j + d] + (i + d)
      BY <2>1 DEF InOrder
    <2>3. g[i + d] \in Nat /\ g[j + d] \in Nat
      BY <1>2, <2>1
    <2>4. g[i + d] + j <= g[j + d] + i
      BY <2>2, <2>3
    <2>5. QED
      BY <1>3, <2>4
  <1>7. (g[d] + 1) + (n - d) <= e
    BY <1>1, <1>4
  <1> HIDE DEF h
  <1>8. InOrder(t, h, g[d] + 1, e)
    <2>1. Len(t) = n - d
      OBVIOUS
    <2> HIDE DEF n
    <2>2. QED
      BY <1>3, <1>5, <1>6, <1>7, <2>1 DEF InOrder
  <1>9. QED
    BY <1>4, <1>8

\* Bytes that went by without having been looked at are paid for.
LEMMA Budget ==
  ASSUME NEW n \in Nat, n >= 1, NEW z \in Nat, NEW y \in Nat, NEW d \in Nat, NEW f \in Nat,
         y <= z * n, d <= n, f >= 1 \/ d = 0
  PROVE  y + d + f <= (z + 2 * f) * n
  <1>1. (z + 2 * f) * n = z * n + 2 * (f * n) /\ z * n \in Nat /\ f * n \in Nat
    OBVIOUS
  <1>2. f <= f * n
    BY Products
  <1>3. f >= 1 => n <= f * n
    <2>1. 1 * n = n
      OBVIOUS
    <2>2. QED
      BY <2>1, Products
  <1>4. d <= f * n
    BY <1>1, <1>3
  <1> DEFINE fn == f * n
  <1> DEFINE zn == z * n
  <1>5. y + d + f <= zn + 2 * fn
    <2>1. y <= zn /\ d <= fn /\ f <= fn /\ zn \in Nat /\ fn \in Nat
      BY <1>1, <1>2, <1>4
    <2> HIDE DEF fn, zn
    <2>2. QED
      BY <2>1
  <1>6. QED
    BY <1>1, <1>5

-----------------------------------------------------------------------------
(* Reading.                                                                *)

LEMMA LeastNumber ==
  ASSUME NEW T, T \subseteq Nat, T # {}
  PROVE  \E x \in T : \A y \in T : x <= y
  <1> DEFINE R == OpToRel(<, Nat)
  <1>1. IsWellFoundedOn(R, Nat)
    BY NatLessThanWellFounded
  <1>2. \A x, y \in Nat : y < x => <<y, x>> \in R
    BY DEF OpToRel
  <1>3. \E S : IsWellFoundedOn(S, Nat) /\ \A x, y \in Nat : y < x => <<y, x>> \in S
    <2> HIDE DEF R
    <2>1. QED
      BY <1>1, <1>2
  <1>4. PICK S : IsWellFoundedOn(S, Nat) /\ \A x, y \in Nat : y < x => <<y, x>> \in S
    BY <1>3
  <1>5. PICK x \in T : \A y \in T : ~ (<<y, x>> \in S)
    BY <1>4, WFMin
  <1>6. \A y \in T : ~(y < x)
    BY <1>4, <1>5, Zenon
  <1>7. QED
    BY <1>6

LEMMA FirstHighIs ==
  ASSUME NEW s \in Seq(Bytes), NEW n \in Nat, n <= Len(s)
  PROVE  /\ FirstHigh(s, n) \in 1 .. n + 1
         /\ FirstHigh(s, n) <= n => High(s[FirstHigh(s, n)])
         /\ \A j \in 1 .. FirstHigh(s, n) - 1 : ~High(s[j])
  <1> DEFINE T == {i \in 1 .. n + 1 : i <= n => High(s[i])}
  <1> DEFINE P(i) == /\ i <= n => High(s[i])
                     /\ \A j \in 1 .. i - 1 : ~High(s[j])
  <1>1. T \subseteq Nat /\ n + 1 \in T
    OBVIOUS
  <1>2. PICK x \in T : \A y \in T : x <= y
    <2> HIDE DEF T
    <2>1. QED
      BY <1>1, LeastNumber
  <1>3. ASSUME NEW j \in 1 .. x - 1
        PROVE  ~High(s[j])
    <2>1. j \in 1 .. n + 1 /\ ~(x <= j)
      BY <1>2
    <2>2. j \notin T
      BY <1>2, <2>1
    <2>3. QED
      BY <2>1, <2>2
  <1>4. x \in 1 .. n + 1 /\ P(x)
    BY <1>3
  <1> HIDE DEF P
  <1>5. FirstHigh(s, n) = CHOOSE i \in 1 .. n + 1 : P(i)
    BY DEF FirstHigh, P
  <1>6. FirstHigh(s, n) \in 1 .. n + 1 /\ P(FirstHigh(s, n))
    BY <1>4, <1>5
  <1>7. QED
    BY <1>6 DEF P

\* What a read of n bytes does: with bytes in the buffer none is dropped, and
\* what is dropped has no high bit.
LEMMA ReadTakes ==
  ASSUME SerialTypeOK, ReaderInv, NEW n \in 1 .. PacketLength, Read(n)
  PROVE  \E d \in 0 .. n :
           /\ d = 0 \/ buf = <<>>
           /\ \A j \in 1 .. d : ~High(tty[j])
           /\ n <= Len(tty) /\ Len(buf) + n <= PacketLength /\ PacketLength \in Nat
           /\ Len(buf') = Len(buf) + n - d
           /\ Len(buf') > 0 => High(buf'[1])
           /\ buf' \in Seq(Bytes) /\ tty' \in Seq(Bytes) /\ Len(tty') = Len(tty) - n
           /\ buf' \o tty' \in Seq(Bytes) /\ buf \o tty \in Seq(Bytes)
           /\ Len(buf' \o tty') = Len(buf \o tty) - d
           /\ \A i \in 1 .. Len(buf' \o tty') : (buf' \o tty')[i] = (buf \o tty)[i + d]
  <1> DEFINE new == SubSeq(tty, 1, n)
  <1> DEFINE whole == buf \o new
  <1> DEFINE f == FirstHigh(whole, n)
  <1> DEFINE b == Len(buf)
  <1>1. /\ tty \in Seq(Bytes) /\ buf \in Seq(Bytes) /\ n \in Nat /\ n >= 1 /\ PacketLength \in Nat
        /\ Len(tty) \in Nat /\ b \in Nat
    <2>1. tty \in Seq(Bytes) /\ buf \in Seq(Bytes)
      BY DEF SerialTypeOK
    <2>2. n \in Nat /\ n >= 1 /\ PacketLength \in Nat
      BY Sizes
    <2>3. QED
      BY <2>1, <2>2
  <1>2. n <= Len(tty) /\ b + n <= PacketLength
    BY DEF Read
  <1>3. new \in Seq(Bytes) /\ Len(new) = n /\ \A i \in 1 .. n : new[i] = tty[i]
    BY <1>1, <1>2
  <1>4. /\ whole \in Seq(Bytes) /\ Len(whole) = b + n
        /\ \A i \in 1 .. b : whole[i] = buf[i]
        /\ \A i \in 1 .. n : whole[b + i] = tty[i]
    <2> HIDE DEF new
    <2>1. whole \in Seq(Bytes) /\ Len(whole) = b + n
      BY <1>1, <1>3
    <2>2. \A i \in 1 .. b : whole[i] = buf[i]
      BY <1>1, <1>3
    <2>3. \A i \in 1 .. n : whole[b + i] = new[i]
      BY <1>1, <1>3
    <2>4. QED
      BY <1>3, <2>1, <2>2, <2>3
  <1> HIDE DEF whole, new
  <1>5. f \in 1 .. n + 1 /\ (f <= n => High(whole[f])) /\ \A j \in 1 .. f - 1 : ~High(whole[j])
    <2>1. n <= Len(whole)
      BY <1>1, <1>4
    <2>2. QED
      BY <1>1, <1>4, <2>1, FirstHighIs
  <1> HIDE DEF f
  <1>6. buf' = SubSeq(whole, f, Len(whole)) /\ tty' = SubSeq(tty, n + 1, Len(tty))
    BY DEF Read, f, whole, new
  <1> DEFINE d == f - 1
  <1>7. d \in 0 .. n /\ f = d + 1
    BY <1>1, <1>5
  <1>8. d = 0 \/ buf = <<>>
    <2>1. CASE buf # <<>>
      <3>1. High(buf[1])
        BY <2>1 DEF ReaderInv
      <3>2. b >= 1
        BY <1>1, <2>1, EmptySeq
      <3>3. High(whole[1])
        BY <1>1, <1>4, <3>1, <3>2
      <3>4. ~(f > 1)
        BY <1>1, <1>5, <3>3
      <3>5. QED
        BY <1>1, <1>5, <3>4
    <2>2. QED
      BY <2>1
  <1>9. \A j \in 1 .. d : ~High(tty[j])
    <2> TAKE j \in 1 .. d
    <2>1. buf = <<>> /\ b = 0
      BY <1>7, <1>8
    <2>2. j \in 1 .. n
      BY <1>1, <1>7
    <2>3. whole[b + j] = tty[j] /\ b + j = j
      BY <1>4, <2>1, <2>2
    <2>4. QED
      BY <1>5, <2>3
  <1> HIDE DEF d
  <1>10. /\ buf' \in Seq(Bytes) /\ Len(buf') = b + n - d
         /\ \A i \in 1 .. b + n - d : buf'[i] = whole[i + d]
    <2>1. buf' = SubSeq(whole, d + 1, Len(whole))
      BY <1>6, <1>7
    <2>2. d + 1 \in 1 .. Len(whole) + 1
      BY <1>1, <1>4, <1>7
    <2>3. buf' \in Seq(Bytes) /\ Len(buf') = Len(whole) - d
      BY <1>1, <1>4, <1>7, <2>1, <2>2
    <2>4. \A i \in 1 .. Len(whole) - d : buf'[i] = whole[i + d]
      <3> TAKE i \in 1 .. Len(whole) - d
      <3>1. buf'[i] = whole[(d + 1) + i - 1] /\ (d + 1) + i - 1 = i + d
        BY <1>1, <1>4, <1>7, <2>1, <2>2
      <3>2. QED
        BY <3>1
    <2> DEFINE m == Len(whole)
    <2>5. m = b + n
      BY <1>4
    <2>6. /\ buf' \in Seq(Bytes) /\ Len(buf') = m - d
          /\ \A i \in 1 .. m - d : buf'[i] = whole[i + d]
      BY <2>3, <2>4
    <2>7. m - d = b + n - d
      BY <1>1, <1>7, <2>5
    <2>8. QED
      BY <2>6, <2>7
  <1>11. /\ tty' \in Seq(Bytes) /\ Len(tty') = Len(tty) - n
         /\ \A i \in 1 .. Len(tty) - n : tty'[i] = tty[i + n]
    <2>1. tty' \in Seq(Bytes) /\ Len(tty') = Len(tty) - n
      BY <1>1, <1>2, <1>6
    <2>2. \A i \in 1 .. Len(tty) - n : tty'[i] = tty[i + n]
      <3> TAKE i \in 1 .. Len(tty) - n
      <3>1. tty'[i] = tty[(n + 1) + i - 1] /\ (n + 1) + i - 1 = i + n
        BY <1>1, <1>2, <1>6
      <3>2. QED
        BY <3>1
    <2>3. QED
      BY <2>1, <2>2
  <1>12. Len(buf') > 0 => High(buf'[1])
    <2> SUFFICES ASSUME b + n - d > 0 PROVE High(whole[1 + d])
      BY <1>1, <1>7, <1>10
    <2>1. CASE d < n
      BY <1>1, <1>5, <1>7, <2>1
    <2>2. CASE d = n
      <3>1. b > 0 /\ d # 0
        BY <1>1, <2>2
      <3>2. b = 0
        BY <1>8, <3>1
      <3>3. QED
        BY <3>1, <3>2
    <2>3. QED
      BY <1>1, <1>7, <2>1, <2>2
  <1>13. /\ buf' \o tty' \in Seq(Bytes) /\ buf \o tty \in Seq(Bytes)
         /\ Len(buf' \o tty') = Len(buf \o tty) - d
    <2>1. buf' \o tty' \in Seq(Bytes) /\ Len(buf' \o tty') = Len(buf') + Len(tty')
      <3>1. buf' \in Seq(Bytes) /\ tty' \in Seq(Bytes)
        BY <1>10, <1>11
      <3>2. QED
        BY <3>1
    <2>2. buf \o tty \in Seq(Bytes) /\ Len(buf \o tty) = b + Len(tty)
      BY <1>1
    <2>3. QED
      BY <1>1, <1>2, <1>7, <1>10, <1>11, <2>1, <2>2
  <1>14. ASSUME NEW i \in 1 .. Len(buf' \o tty')
         PROVE  (buf' \o tty')[i] = (buf \o tty)[i + d]
    <2>1. i \in Nat /\ i >= 1 /\ i <= b + Len(tty) - d /\ d \in Nat
      BY <1>1, <1>7, <1>13
    <2>2. CASE i <= b + n - d
      <3>1. i \in 1 .. Len(buf') /\ (buf' \o tty')[i] = buf'[i] /\ buf'[i] = whole[i + d]
        BY <1>1, <1>7, <1>10, <1>11, <2>1, <2>2
      <3>2. CASE i + d <= b
        BY <1>1, <1>4, <2>1, <3>1, <3>2
      <3>3. CASE i + d > b
        <4> DEFINE j == i + d - b
        <4>1. j \in 1 .. n /\ i + d = b + j
          BY <1>1, <2>1, <2>2, <3>3
        <4> HIDE DEF j
        <4>2. whole[b + j] = tty[j] /\ (buf \o tty)[b + j] = tty[j]
          BY <1>1, <1>2, <1>4, <4>1
        <4>3. QED
          BY <3>1, <4>1, <4>2
      <3>4. QED
        BY <1>1, <2>1, <3>2, <3>3
    <2>3. CASE i > b + n - d
      <3> DEFINE j == i - (b + n - d)
      <3>1. j \in 1 .. Len(tty) - n /\ i = (b + n - d) + j /\ i + d = b + (j + n)
        BY <1>1, <1>2, <1>7, <2>1, <2>3
      <3> HIDE DEF j
      <3>2. (buf' \o tty')[i] = tty'[j] /\ tty'[j] = tty[j + n]
        BY <1>1, <1>7, <1>10, <1>11, <3>1
      <3>3. j + n \in 1 .. Len(tty) /\ (buf \o tty)[b + (j + n)] = tty[j + n]
        BY <1>1, <1>2, <3>1
      <3>4. QED
        BY <3>1, <3>2, <3>3
    <2>4. QED
      BY <1>1, <1>7, <2>1, <2>2, <2>3
  <1>15. QED
    BY <1>1, <1>2, <1>7, <1>8, <1>9, <1>10, <1>11, <1>12, <1>13, <1>14

-----------------------------------------------------------------------------
(* Types, and what the reader keeps to.                                    *)

LEMMA Limits ==
  TTYSize \in Nat /\ MaxLost \in Nat /\ MaxCut \in Nat
  BY PacketAssumption

\* The sequences by themselves.
LEMMA Sequences ==
  ASSUME SerialTypeOK
  PROVE  /\ tty \in Seq(Bytes) /\ Len(tty) \in Nat /\ Len(tty) <= TTYSize
         /\ buf \in Seq(Bytes) /\ Len(buf) \in Nat /\ Len(buf) <= PacketLength
         /\ buf \o tty \in Seq(Bytes) /\ Len(buf \o tty) = Len(buf) + Len(tty)
  <1>1. /\ tty \in Seq(Bytes) /\ Len(tty) <= TTYSize
        /\ buf \in Seq(Bytes) /\ Len(buf) <= PacketLength
    BY DEF SerialTypeOK
  <1>2. Len(tty) \in Nat /\ Len(buf) \in Nat
    BY <1>1
  <1>3. buf \o tty \in Seq(Bytes) /\ Len(buf \o tty) = Len(buf) + Len(tty)
    BY <1>1
  <1>4. QED
    BY <1>1, <1>2, <1>3

\* ... and the rest.
LEMMA Fields ==
  ASSUME SerialTypeOK
  PROVE  /\ sending \in BOOLEAN /\ flushed \in BOOLEAN
         /\ id \in 0 .. PacketIds - 1 /\ next \in 0 .. PacketLength - 1
         /\ lost \in 0 .. MaxLost /\ cut \in 0 .. MaxCut /\ lost \in Nat /\ cut \in Nat
         /\ bitErrors \in Nat /\ last \in 0 .. PacketIds - 1
  <1>1. /\ sending \in BOOLEAN /\ flushed \in BOOLEAN
        /\ id \in 0 .. PacketIds - 1 /\ next \in 0 .. PacketLength - 1
    BY DEF SerialTypeOK
  <1>2. lost \in 0 .. MaxLost /\ cut \in 0 .. MaxCut
    BY DEF SerialTypeOK
  <1>3. bitErrors \in Nat /\ last \in 0 .. PacketIds - 1
    BY DEF SerialTypeOK
  <1>4. lost \in Nat /\ cut \in Nat
    BY <1>2, Limits
  <1>5. QED
    BY <1>1, <1>2, <1>3, <1>4

LEMMA SerialTypeInit == SerialInit => SerialTypeOK
  <1> SUFFICES ASSUME SerialInit PROVE SerialTypeOK
    OBVIOUS
  <1>1. tty \in Seq(Bytes) /\ Len(tty) <= TTYSize /\ buf \in Seq(Bytes) /\ Len(buf) <= PacketLength
    BY Limits, Sizes, EmptySeq DEF SerialInit
  <1>2. /\ id \in 0 .. PacketIds - 1 /\ next \in 0 .. PacketLength - 1
        /\ lost \in 0 .. MaxLost /\ cut \in 0 .. MaxCut /\ last \in 0 .. PacketIds - 1
    BY Limits, Sizes DEF SerialInit
  <1>3. QED
    BY <1>1, <1>2 DEF SerialInit, SerialTypeOK

LEMMA NextInRange ==
  ASSUME SerialTypeOK, Advance
  PROVE  id' \in 0 .. PacketIds - 1 /\ next' \in 0 .. PacketLength - 1 /\ sending' = sending
  <1>1. id \in 0 .. PacketIds - 1 /\ next \in 0 .. PacketLength - 1
    BY DEF SerialTypeOK
  <1>2. (next + 1) % PacketLength \in 0 .. PacketLength - 1
    BY <1>1, Sizes
  <1>3. (id + 1) % PacketIds \in 0 .. PacketIds - 1
    BY <1>1, Sizes
  <1>4. QED
    BY <1>1, <1>2, <1>3 DEF Advance

LEMMA SentByte ==
  ASSUME SerialTypeOK
  PROVE  [id |-> id, at |-> next] \in Bytes
  BY DEF SerialTypeOK, Bytes

LEMMA SerialTypeStep ==
  ASSUME SerialTypeOK, ReaderInv, [SerialNext]_serialVars
  PROVE  SerialTypeOK'
  <1>t. /\ tty \in Seq(Bytes) /\ Len(tty) \in Nat /\ Len(tty) <= TTYSize
        /\ buf \in Seq(Bytes) /\ Len(buf) \in Nat /\ Len(buf) <= PacketLength
    BY Sequences
  <1>f. /\ sending \in BOOLEAN /\ flushed \in BOOLEAN
        /\ id \in 0 .. PacketIds - 1 /\ next \in 0 .. PacketLength - 1
        /\ lost \in 0 .. MaxLost /\ cut \in 0 .. MaxCut
        /\ bitErrors \in Nat /\ last \in 0 .. PacketIds - 1
    BY Fields
  <1>p. phase \in {"check", "read", "parse", "reset", "ident", "ident again", "init", "given up"}
    BY DEF SerialTypeOK
  <1> DEFINE Typed(s, i, x, t, l, c, p, b, n, m, f) ==
        /\ s \in BOOLEAN
        /\ i \in 0 .. PacketIds - 1 /\ x \in 0 .. PacketLength - 1
        /\ t \in Seq(Bytes) /\ Len(t) <= TTYSize
        /\ l \in 0 .. MaxLost /\ c \in 0 .. MaxCut
        /\ p \in {"check", "read", "parse", "reset", "ident", "ident again", "init", "given up"}
        /\ b \in Seq(Bytes) /\ Len(b) <= PacketLength
        /\ n \in Nat
        /\ m \in 0 .. PacketIds - 1 /\ f \in BOOLEAN
  <1> SUFFICES Typed(sending', id', next', tty', lost', cut', phase', buf', bitErrors', last', flushed')
    BY DEF SerialTypeOK
  <1>e. <<>> \in Seq(Bytes) /\ Len(<<>>) <= TTYSize /\ Len(<<>>) <= PacketLength
    BY EmptySeq, Limits, Sizes
  <1>1. CASE TabletSends
    <2>1. tty' \in Seq(Bytes) /\ Len(tty') = Len(tty) + 1
      BY <1>t, <1>1, SentByte DEF TabletSends
    <2>2. Len(tty') <= TTYSize
      BY <1>t, <1>1, <2>1, Limits DEF TabletSends
    <2>3. id' \in 0 .. PacketIds - 1 /\ next' \in 0 .. PacketLength - 1 /\ sending' = sending
      BY <1>1, NextInRange DEF TabletSends
    <2>4. QED
      BY <1>t, <1>f, <1>p, <1>1, <2>1, <2>2, <2>3 DEF TabletSends, histVars
  <1>2. CASE ByteIsLost
    <2>1. lost' \in 0 .. MaxLost
      BY <1>f, <1>2, Limits DEF ByteIsLost
    <2>2. id' \in 0 .. PacketIds - 1 /\ next' \in 0 .. PacketLength - 1 /\ sending' = sending
      BY <1>2, NextInRange DEF ByteIsLost
    <2>3. QED
      BY <1>t, <1>f, <1>p, <1>2, <2>1, <2>2 DEF ByteIsLost, histVars
  <1>3. CASE CheckErrors
    <2>1. bitErrors' \in Nat /\ buf' = <<>> /\ phase' \in {"reset", "read"}
      BY <1>f, <1>3 DEF CheckErrors
    <2>2. UNCHANGED <<sending, id, next, tty, lost, cut, last, flushed>>
      BY <1>3 DEF CheckErrors, senderVars, histVars
    <2>3. QED
      BY <1>t, <1>f, <1>e, <2>1, <2>2
  <1>4. CASE Timeout
    <2>1. cut' \in 0 .. MaxCut
      BY <1>f, <1>4, Limits DEF Timeout
    <2>2. QED
      BY <1>t, <1>f, <1>p, <1>4, <2>1 DEF Timeout, senderVars, histVars
  <1>5. CASE Parse
    <2>1. last' \in 0 .. PacketIds - 1
      <3>1. CASE Synchronized(buf)
        <4>1. Len(buf) = PacketLength
          BY <1>5 DEF Parse, ReaderInv
        <4>2. buf[1] \in Bytes
          BY <1>t, <4>1, Sizes
        <4>3. QED
          BY <1>5, <3>1, <4>2 DEF Parse, Bytes
      <3>2. CASE ~Synchronized(buf)
        BY <1>f, <1>5, <3>2 DEF Parse, histVars
      <3>3. QED
        BY <3>1, <3>2
    <2>2. bitErrors' \in Nat
      BY <1>f, <1>5 DEF Parse
    <2>3. flushed' \in BOOLEAN
      BY <1>f, <1>5 DEF Parse, histVars
    <2>4. QED
      BY <1>t, <1>f, <1>p, <1>5, <2>1, <2>2, <2>3 DEF Parse, senderVars
  <1>6. CASE \E n \in 1 .. PacketLength : Read(n)
    <2>1. PICK n \in 1 .. PacketLength : Read(n)
      BY <1>6
    <2>2. PICK d \in 0 .. n :
            /\ Len(buf) + n <= PacketLength /\ n <= Len(tty)
            /\ Len(buf') = Len(buf) + n - d
            /\ buf' \in Seq(Bytes) /\ tty' \in Seq(Bytes) /\ Len(tty') = Len(tty) - n
      BY <2>1, ReadTakes
    <2>3. n \in Nat /\ PacketLength \in Nat
      BY Sizes
    <2>4. Len(buf') <= PacketLength /\ Len(tty') <= TTYSize
      <3> DEFINE a == Len(buf)
      <3> DEFINE b == Len(tty)
      <3>1. a \in Nat /\ b \in Nat /\ b <= TTYSize /\ a + n <= PacketLength
        BY <1>t, <2>2
      <3>2. Len(buf') = a + n - d /\ Len(tty') = b - n
        BY <2>2
      <3> HIDE DEF a, b
      <3>3. a + n - d <= PacketLength /\ b - n <= TTYSize
        BY <2>3, <3>1, Limits
      <3>4. QED
        BY <3>2, <3>3
    <2>5. bitErrors' \in Nat /\ phase' \in {"parse", "read"}
      BY <1>f, <2>1 DEF Read
    <2>6. UNCHANGED <<sending, id, next, lost, cut, last, flushed>>
      BY <2>1 DEF Read, senderVars, histVars
    <2>7. QED
      BY <1>f, <2>2, <2>4, <2>5, <2>6
  <1>7. CASE SerialConfigTTY
    <2>1. tty' \in Seq(Bytes) /\ Len(tty') <= TTYSize
      BY <1>t, <1>e, <1>7 DEF SerialConfigTTY
    <2>2. id' \in 0 .. PacketIds - 1 /\ next' \in 0 .. PacketLength - 1
      <3>1. (id + 1) % PacketIds \in 0 .. PacketIds - 1
        BY <1>f, Sizes
      <3>2. 0 \in 0 .. PacketLength - 1
        BY Sizes
      <3>3. QED
        BY <1>f, <1>7, <3>1, <3>2 DEF SerialConfigTTY
    <2>3. sending' \in BOOLEAN /\ flushed' \in BOOLEAN /\ phase' \in {"ident", "given up"}
      BY <1>f, <1>7 DEF SerialConfigTTY
    <2>4. QED
      BY <1>t, <1>f, <1>7, <2>1, <2>2, <2>3 DEF SerialConfigTTY
  <1>8. CASE Ident
    BY <1>t, <1>f, <1>8 DEF Ident, senderVars, histVars
  <1>9. CASE InitAndStart
    BY <1>t, <1>f, <1>9 DEF InitAndStart, histVars
  <1>10. CASE ReadOn
    BY <1>t, <1>f, <1>10 DEF ReadOn, senderVars, histVars
  <1>11. CASE UNCHANGED serialVars
    BY <1>t, <1>f, <1>p, <1>11 DEF serialVars
  <1>12. QED
    BY <1>1, <1>2, <1>3, <1>4, <1>5, <1>6, <1>7, <1>8, <1>9, <1>10, <1>11 DEF SerialNext, Reader

LEMMA ReaderInit == SerialInit => ReaderInv
  BY Sizes, EmptySeq DEF SerialInit, ReaderInv

LEMMA ReaderStep ==
  ASSUME SerialTypeOK, ReaderInv, [SerialNext]_serialVars
  PROVE  ReaderInv'
  <1>e. Len(<<>>) < PacketLength
    BY Sizes, EmptySeq
  <1>t. buf \in Seq(Bytes) /\ Len(buf) \in Nat
    BY Sequences
  <1>1. CASE TabletSends
    BY <1>1 DEF ReaderInv, TabletSends, Advance, histVars
  <1>2. CASE ByteIsLost
    BY <1>2 DEF ReaderInv, ByteIsLost, Advance, histVars
  <1>3. CASE CheckErrors
    BY <1>3, <1>e DEF ReaderInv, CheckErrors, senderVars, histVars
  <1>4. CASE Timeout
    BY <1>4 DEF ReaderInv, Timeout, senderVars, histVars
  <1>5. CASE Parse
    BY <1>5 DEF ReaderInv, Parse, senderVars, histVars
  <1>6. CASE \E n \in 1 .. PacketLength : Read(n)
    <2>1. PICK n \in 1 .. PacketLength : Read(n)
      BY <1>6
    <2>2. PICK d \in 0 .. n :
            /\ Len(buf) + n <= PacketLength /\ Len(buf') = Len(buf) + n - d
            /\ Len(buf') > 0 => High(buf'[1])
            /\ buf' \in Seq(Bytes)
      BY <2>1, ReadTakes
    <2>3. PacketLength \in Nat /\ n \in Nat
      BY Sizes
    <2>4. Len(buf') <= PacketLength
      <3> DEFINE a == Len(buf)
      <3>1. a \in Nat /\ a + n <= PacketLength /\ Len(buf') = a + n - d
        BY <1>t, <2>2
      <3> HIDE DEF a
      <3>2. a + n - d <= PacketLength
        BY <2>3, <3>1
      <3>3. QED
        BY <3>1, <3>2
    <2>5. phase' = IF Len(buf') = PacketLength THEN "parse" ELSE "read"
      BY <2>1 DEF Read
    <2>6. Len(buf') \in Nat /\ (buf' # <<>> => Len(buf') \in Nat \ {0})
      BY <2>2, EmptySeq
    <2>7. buf' # <<>> => High(buf'[1])
      BY <2>2, <2>6
    <2>8. /\ phase' = "parse" => Len(buf') = PacketLength
          /\ phase' = "read" => Len(buf') < PacketLength
          /\ phase' \in {"parse", "read"}
      BY <2>3, <2>4, <2>5, <2>6
    <2>9. QED
      BY <2>7, <2>8 DEF ReaderInv
  <1>7. CASE SerialConfigTTY
    BY <1>7 DEF ReaderInv, SerialConfigTTY
  <1>8. CASE Ident
    BY <1>8 DEF ReaderInv, Ident, senderVars, histVars
  <1>9. CASE InitAndStart
    BY <1>9, <1>e DEF ReaderInv, InitAndStart, histVars
  <1>10. CASE ReadOn
    BY <1>10, <1>e DEF ReaderInv, ReadOn, senderVars, histVars
  <1>11. CASE UNCHANGED serialVars
    BY <1>11 DEF ReaderInv, serialVars
  <1>12. QED
    BY <1>1, <1>2, <1>3, <1>4, <1>5, <1>6, <1>7, <1>8, <1>9, <1>10, <1>11 DEF SerialNext, Reader

-----------------------------------------------------------------------------
(* The stream, action by action.                                           *)

\* The first d bytes are dropped: what has been sent and not been seen among
\* them is paid for, unless nothing of a packet's beginning was dropped.
LEMMA DropStream ==
  ASSUME SerialTypeOK, NEW s \in Seq(Bytes), NEW t \in Seq(Bytes),
         NEW y \in Nat, NEW e \in Nat, NEW w \in Nat, NEW g,
         InOrder(s, g, y, e), Spent(Len(s), y, e, w),
         NEW d \in 1 .. Len(s), d <= PacketLength, Len(t) = Len(s) - d,
         \A i \in 1 .. Len(t) : t[i] = s[i + d],
         g[d] + 1 = y + d /\ Behind(y, w) => Behind(y + d, w)
  PROVE  \E y1, w1 \in Nat : \E h :
           InOrder(t, h, y1, e) /\ Spent(Len(t), y1, e, w1) /\ (Behind(y, w) => Behind(y1, w1))
  <1> DEFINE y1 == g[d] + 1
  <1> DEFINE f == y1 - y - d
  <1> DEFINE n == Len(s)
  <1>1. g[d] \in Nat /\ y + d <= g[d] + 1 /\ \E h : InOrder(t, h, g[d] + 1, e)
    BY OrderDrop
  <1>2. d \in Nat /\ n \in Nat /\ lost \in Nat /\ cut \in Nat
    BY Fields
  <1>3. y1 \in Nat /\ f \in Nat /\ y1 = y + d + f
    BY <1>1, <1>2
  <1>4. \E h : InOrder(t, h, y1, e)
    BY <1>1
  <1> HIDE DEF y1, f
  <1>5. w + 2 * f \in Nat
    <2>1. f \in Nat
      BY <1>3
    <2>2. QED
      BY <2>1
  <1>6. Spent(Len(t), y1, e, w + 2 * f)
    <2>1. e <= y + n + lost /\ w + 2 * e <= 2 * (y + n + lost) + cut
      BY DEF Spent
    <2>2. Len(t) = n - d
      OBVIOUS
    <2> HIDE DEF n
    <2>3. e <= y1 + (n - d) + lost /\ (w + 2 * f) + 2 * e <= 2 * (y1 + (n - d) + lost) + cut
      BY <1>2, <1>3, <2>1
    <2>4. QED
      BY <2>2, <2>3 DEF Spent
  <1>7. ASSUME Behind(y, w)
        PROVE  Behind(y1, w + 2 * f)
    <2>1. CASE f = 0
      <3>1. y1 = y + d
        BY <1>2, <1>3, <2>1
      <3>2. Behind(y + d, w)
        BY <1>7, <3>1 DEF y1
      <3>3. w + 2 * f = w
        BY <2>1
      <3>4. QED
        BY <3>1, <3>2, <3>3
    <2>2. CASE f # 0
      <3>1. PICK m \in Nat : /\ Numbered(last, m)
                             /\ (m + 1) * PacketLength <= y
                             /\ y <= (m + 1 + w) * PacketLength
        BY <1>7 DEF Behind
      <3>2. y + d + f <= ((m + 1 + w) + 2 * f) * PacketLength
        <4>1. m + 1 + w \in Nat /\ PacketLength \in Nat /\ PacketLength >= 1 /\ f >= 1
          BY <1>3, <2>2, Sizes
        <4>2. QED
          BY <1>2, <1>3, <3>1, <4>1, Budget
      <3>3. (m + 1 + w) + 2 * f = m + 1 + (w + 2 * f)
        BY <1>3
      <3>4. (m + 1) * PacketLength <= y1
        <4>1. (m + 1) * PacketLength \in Nat
          BY Sizes
        <4>2. QED
          BY <1>2, <1>3, <3>1, <4>1
      <3>5. y1 <= (m + 1 + (w + 2 * f)) * PacketLength
        BY <1>3, <3>2, <3>3
      <3>6. QED
        BY <3>1, <3>4, <3>5 DEF Behind
    <2>3. QED
      BY <2>1, <2>2
  <1>8. QED
    BY <1>3, <1>4, <1>5, <1>6, <1>7

\* Bytes without a high bit, with none missing between them, begin no packet.
LEMMA NoneBegun ==
  ASSUME NEW s \in Seq(Bytes), NEW y \in Nat, NEW e \in Nat, NEW w \in Nat, NEW g,
         InOrder(s, g, y, e), NEW d \in 1 .. Len(s), g[d] + 1 = y + d,
         \A i \in 1 .. d : ~High(s[i]), Behind(y, w)
  PROVE  Behind(y + d, w)
  <1>1. PICK m \in Nat : /\ Numbered(last, m)
                         /\ (m + 1) * PacketLength <= y
                         /\ y <= (m + 1 + w) * PacketLength
    BY DEF Behind
  <1> DEFINE z == m + 1 + w
  <1> DEFINE q == z * PacketLength
  <1>2. z \in Nat /\ q \in Nat /\ y <= q /\ (m + 1) * PacketLength \in Nat
    BY <1>1, Sizes
  <1>3. y + d <= q
    <2> SUFFICES ASSUME q < y + d PROVE FALSE
      BY <1>2
    <2> DEFINE i == q - y + 1
    <2>1. i \in 1 .. d /\ i \in 1 .. Len(s)
      <3> HIDE DEF q
      <3>1. QED
        BY <1>2
    <2>2. g \in [1 .. Len(s) -> Nat] /\ g[i] \in Nat
      BY <2>1 DEF InOrder
    <2>3. y + i <= g[i] + 1 /\ Sent(s[i], g[i])
      BY <2>1 DEF InOrder
    <2>4. i <= d
      BY <2>1
    <2>5. g[i] + d <= g[d] + i
      BY <2>1, <2>4 DEF InOrder
    <2>6. g[i] = q
      <3> DEFINE a == g[i]
      <3>1. i \in Nat /\ i = q - y + 1 /\ d \in Nat /\ q \in Nat /\ a \in Nat
        BY <1>2, <2>1, <2>2
      <3>2. y + i <= a + 1 /\ a + d <= g[d] + i /\ g[d] + 1 = y + d /\ g[d] \in Nat
        BY <2>2, <2>3, <2>5 DEF InOrder
      <3> HIDE DEF i, q, a
      <3>3. a = q
        BY <3>1, <3>2
      <3>4. QED
        BY <3>3 DEF a
    <2>7. s[i] \in Bytes /\ ~High(s[i])
      BY <2>1
    <2>8. q # z * PacketLength
      <3>1. Sent(s[i], q)
        BY <2>3, <2>6
      <3> HIDE DEF i, q, z
      <3>2. QED
        BY <1>2, <2>7, <3>1, HighBegins
    <2>9. QED
      BY <2>8
  <1>4. (m + 1) * PacketLength <= y + d
    BY <1>1, <1>2
  <1>5. QED
    BY <1>1, <1>3, <1>4 DEF Behind

LEMMA StreamInit ==
  ASSUME SerialInit
  PROVE  StreamInv
  <1> DEFINE m == PacketIds - 1
  <1> DEFINE x == PacketIds * PacketLength
  <1>1. m \in Nat /\ x \in Nat /\ m + 1 = PacketIds
    BY Sizes
  <1>2. Unread = <<>> /\ Len(<<>>) = 0
    BY EmptySeq DEF SerialInit, Unread
  <1>3. InOrder(<<>>, [i \in 1 .. 0 |-> 0], x, x)
    BY <1>1, NothingInOrder
  <1>4. Spent(Len(Unread), x, x, 0)
    <2>1. lost = 0 /\ cut = 0
      BY DEF SerialInit
    <2> HIDE DEF x
    <2>2. QED
      BY <1>1, <1>2, <2>1 DEF Spent
  <1>5. Sent([id |-> id, at |-> next], x)
    <2>1. id = 0 /\ next = 0
      BY DEF SerialInit
    <2>2. Numbered(0, PacketIds)
      <3>1. PacketIds = 0 + 1 * PacketIds
        BY Sizes
      <3>2. QED
        BY <3>1 DEF Numbered
    <2>3. x = PacketIds * PacketLength + 0
      BY <1>1
    <2>4. QED
      BY <2>1, <2>2, <2>3, Sizes DEF Sent
  <1>6. Behind(x, 0)
    <2>1. Numbered(last, m)
      <3>1. m = m + 0 * PacketIds /\ last = m
        BY <1>1, Sizes DEF SerialInit
      <3>2. QED
        BY <3>1 DEF Numbered
    <2>2. (m + 1) * PacketLength = x /\ (m + 1 + 0) * PacketLength = x
      BY <1>1
    <2>3. x <= x
      <3> HIDE DEF x
      <3>1. QED
        BY <1>1
    <2>4. QED
      BY <1>1, <2>1, <2>2, <2>3 DEF Behind
  <1>7. QED
    BY <1>1, <1>2, <1>3, <1>4, <1>5, <1>6 DEF StreamInv, Stream

\* What the reader will look at, after a step that leaves its buffer alone.
LEMMA UnreadSame ==
  ASSUME UNCHANGED <<tty, buf>>, (phase = "check") <=> (phase' = "check")
  PROVE  Unread' = Unread
  BY DEF Unread

LEMMA UnreadType ==
  ASSUME SerialTypeOK
  PROVE  Unread \in Seq(Bytes) /\ Len(Unread) \in Nat
  <1>1. Unread \in Seq(Bytes)
    BY Sequences DEF Unread
  <1>2. QED
    BY <1>1

\* Where nothing of it changes.
LEMMA StreamSame ==
  ASSUME StreamInv, Unread' = Unread, UNCHANGED <<sending, id, next, lost, cut, last, flushed>>
  PROVE  StreamInv'
  <1>1. PICK y \in Nat, e \in Nat, w \in Nat : \E g :
          /\ InOrder(Unread, g, y, e) /\ Spent(Len(Unread), y, e, w)
          /\ sending => Sent([id |-> id, at |-> next], e)
          /\ ~flushed /\ (sending \/ Unread # <<>>) => Behind(y, w)
    BY DEF StreamInv, Stream
  <1>2. Spent(Len(Unread), y, e, w) => Spent(Len(Unread), y, e, w)'
    BY DEF Spent
  <1>3. Behind(y, w) => Behind(y, w)'
    BY DEF Behind
  <1>4. QED
    BY <1>1, <1>2, <1>3 DEF StreamInv, Stream

LEMMA StreamSends ==
  ASSUME SerialTypeOK, ReaderInv, StreamInv, TabletSends
  PROVE  StreamInv'
  <1>0. PICK y \in Nat, e \in Nat, w \in Nat : \E g : Stream(g, y, e, w)
    BY DEF StreamInv
  <1>1. PICK g :
          /\ InOrder(Unread, g, y, e) /\ Spent(Len(Unread), y, e, w)
          /\ sending => Sent([id |-> id, at |-> next], e)
          /\ ~flushed /\ (sending \/ Unread # <<>>) => Behind(y, w)
    BY <1>0 DEF Stream
  <1> DEFINE b == [id |-> id, at |-> next]
  <1>2. b \in Bytes /\ Sent(b, e) /\ sending
    BY <1>1, SentByte DEF TabletSends
  <1>3. Unread \in Seq(Bytes) /\ Len(Unread) \in Nat
    BY UnreadType
  <1>4. Unread' = Append(Unread, b)
    <2>1. tty' = Append(tty, b) /\ UNCHANGED <<phase, buf>>
      BY DEF TabletSends
    <2>2. tty \in Seq(Bytes) /\ buf \in Seq(Bytes)
      BY Sequences
    <2> HIDE DEF b
    <2>3. buf \o Append(tty, b) = Append(buf \o tty, b)
      BY <1>2, <2>2
    <2>4. QED
      BY <2>1, <2>3 DEF Unread
  <1> HIDE DEF b
  <1>5. PICK h : InOrder(Append(Unread, b), h, y, e + 1)
    BY <1>1, <1>2, <1>3, OrderAppend
  <1>6. Len(Unread') = Len(Unread) + 1
    BY <1>2, <1>3, <1>4
  <1>7. Spent(Len(Unread), y, e + 1, w)'
    <2>1. lost' = lost /\ cut' = cut /\ lost \in Nat /\ cut \in Nat
      BY Fields DEF TabletSends
    <2>2. e <= y + Len(Unread) + lost /\ w + 2 * e <= 2 * (y + Len(Unread) + lost) + cut
      BY <1>1 DEF Spent
    <2> DEFINE n == Len(Unread)
    <2>3. n \in Nat /\ e <= y + n + lost /\ w + 2 * e <= 2 * (y + n + lost) + cut
      BY <1>3, <2>2
    <2> HIDE DEF n
    <2>4. e + 1 <= y + (n + 1) + lost /\ w + 2 * (e + 1) <= 2 * (y + (n + 1) + lost) + cut
      BY <2>1, <2>3
    <2>5. Len(Unread') = n + 1
      BY <1>6 DEF n
    <2>6. QED
      BY <2>1, <2>4, <2>5 DEF Spent
  <1>8. Sent([id |-> id', at |-> next'], e + 1)
    <2>1. Advance
      BY DEF TabletSends
    <2>2. QED
      BY <1>2, <2>1, NextSent DEF b
  <1>9. flushed' = flushed /\ (Behind(y, w) => Behind(y, w)')
    BY DEF TabletSends, histVars, Behind
  <1>10. e + 1 \in Nat /\ InOrder(Unread', h, y, e + 1)
    BY <1>4, <1>5
  <1>11. QED
    BY <1>1, <1>2, <1>7, <1>8, <1>9, <1>10 DEF StreamInv, Stream

LEMMA StreamLoses ==
  ASSUME SerialTypeOK, ReaderInv, StreamInv, ByteIsLost
  PROVE  StreamInv'
  <1>0. PICK y \in Nat, e \in Nat, w \in Nat : \E g : Stream(g, y, e, w)
    BY DEF StreamInv
  <1>1. PICK g :
          /\ InOrder(Unread, g, y, e) /\ Spent(Len(Unread), y, e, w)
          /\ sending => Sent([id |-> id, at |-> next], e)
          /\ ~flushed /\ (sending \/ Unread # <<>>) => Behind(y, w)
    BY <1>0 DEF Stream
  <1>2. sending /\ Advance /\ UNCHANGED <<tty, buf, phase, cut, last, flushed>>
    BY DEF ByteIsLost, histVars
  <1>3. Unread \in Seq(Bytes) /\ Len(Unread) \in Nat /\ Unread' = Unread
    BY <1>2, UnreadType, UnreadSame
  <1>4. InOrder(Unread', g, y, e + 1)
    BY <1>1, <1>3, OrderSkip
  <1>5. Spent(Len(Unread), y, e + 1, w)'
    <2>1. lost' = lost + 1 /\ cut' = cut /\ lost \in Nat /\ cut \in Nat
      BY Fields DEF ByteIsLost
    <2>2. e <= y + Len(Unread) + lost /\ w + 2 * e <= 2 * (y + Len(Unread) + lost) + cut
      BY <1>1 DEF Spent
    <2> DEFINE n == Len(Unread)
    <2>3. n \in Nat /\ e <= y + n + lost /\ w + 2 * e <= 2 * (y + n + lost) + cut
      BY <1>3, <2>2
    <2>4. Len(Unread') = n
      BY <1>3
    <2> HIDE DEF n
    <2>5. e + 1 <= y + n + (lost + 1) /\ w + 2 * (e + 1) <= 2 * (y + n + (lost + 1)) + cut
      BY <2>1, <2>3
    <2>6. QED
      BY <2>1, <2>4, <2>5 DEF Spent
  <1>6. Sent([id |-> id', at |-> next'], e + 1)
    BY <1>1, <1>2, NextSent
  <1>7. Behind(y, w) => Behind(y, w)'
    BY <1>2 DEF Behind
  <1>8. e + 1 \in Nat
    OBVIOUS
  <1>9. QED
    BY <1>1, <1>2, <1>4, <1>5, <1>6, <1>7, <1>8 DEF StreamInv, Stream

LEMMA StreamChecks ==
  ASSUME SerialTypeOK, ReaderInv, StreamInv, CheckErrors
  PROVE  StreamInv'
  <1>1. Unread' = Unread
    <2>1. tty \in Seq(Bytes)
      BY Sequences
    <2>2. <<>> \o tty = tty
      BY <2>1
    <2>3. QED
      BY <2>2 DEF CheckErrors, Unread
  <1>2. QED
    BY <1>1, StreamSame DEF CheckErrors, senderVars, histVars

LEMMA StreamReads ==
  ASSUME SerialTypeOK, ReaderInv, StreamInv, NEW n \in 1 .. PacketLength, Read(n)
  PROVE  StreamInv'
  <1> DEFINE s == buf \o tty
  <1> DEFINE t == buf' \o tty'
  <1>1. PICK d \in 0 .. n :
          /\ d = 0 \/ buf = <<>>
          /\ \A j \in 1 .. d : ~High(tty[j])
          /\ n <= Len(tty) /\ Len(buf) + n <= PacketLength
          /\ t \in Seq(Bytes) /\ s \in Seq(Bytes)
          /\ Len(t) = Len(s) - d
          /\ \A i \in 1 .. Len(t) : t[i] = s[i + d]
    BY ReadTakes
  <1>2. Unread = s /\ Unread' = t
    BY DEF Read, Unread
  <1> HIDE DEF s, t
  <1>3. UNCHANGED <<sending, id, next, lost, cut, last, flushed>>
    BY DEF Read, senderVars, histVars
  <1>4. CASE d = 0
    <2>1. t = s
      <3>1. Len(t) = Len(s) /\ \A i \in 1 .. Len(t) : t[i] = s[i]
        BY <1>1, <1>4
      <3>2. QED
        BY <1>1, <3>1
    <2>2. QED
      BY <1>2, <1>3, <2>1, StreamSame
  <1>5. CASE d # 0
    <2>0. PICK y \in Nat, e \in Nat, w \in Nat : \E g : Stream(g, y, e, w)
      BY DEF StreamInv
    <2>1. PICK g :
            /\ InOrder(s, g, y, e) /\ Spent(Len(s), y, e, w)
            /\ sending => Sent([id |-> id, at |-> next], e)
            /\ ~flushed /\ (sending \/ s # <<>>) => Behind(y, w)
      BY <1>2, <2>0 DEF Stream
    <2>2. s = tty
      <3>1. tty \in Seq(Bytes)
        BY Sequences
      <3>2. <<>> \o tty = tty
        BY <3>1
      <3>3. QED
        BY <1>1, <1>5, <3>2 DEF s
    <2>3. d \in 1 .. Len(s) /\ d <= PacketLength /\ d \in Nat
      <3>1. n \in Nat /\ PacketLength \in Nat /\ n <= PacketLength /\ Len(tty) \in Nat
        BY Sizes, Sequences
      <3>2. n <= Len(tty)
        BY <1>1
      <3>3. d \in 1 .. Len(tty) /\ d <= PacketLength
        BY <1>5, <3>1, <3>2
      <3>4. QED
        BY <2>2, <3>3
    <2>4. g[d] + 1 = y + d /\ Behind(y, w) => Behind(y + d, w)
      BY <1>1, <2>1, <2>2, <2>3, NoneBegun
    <2>5. PICK y1 \in Nat, w1 \in Nat :
            /\ \E h : InOrder(t, h, y1, e)
            /\ Spent(Len(t), y1, e, w1) /\ (Behind(y, w) => Behind(y1, w1))
      BY <1>1, <2>1, <2>3, <2>4, DropStream
    <2>6. Spent(Len(Unread), y1, e, w1)'
      BY <1>2, <1>3, <2>5 DEF Spent
    <2>7. Behind(y, w) => Behind(y1, w1)'
      BY <1>3, <2>5 DEF Behind
    <2>8. s # <<>>
      BY <2>3, EmptySeq
    <2>9. QED
      BY <1>2, <1>3, <2>1, <2>5, <2>6, <2>7, <2>8 DEF StreamInv, Stream
  <1>6. QED
    BY <1>4, <1>5

LEMMA StreamEnds ==
  ASSUME SerialTypeOK, ReaderInv, StreamInv, Timeout
  PROVE  StreamInv'
  <1>0. PICK y \in Nat, e \in Nat, w \in Nat : \E g : Stream(g, y, e, w)
    BY DEF StreamInv
  <1>1. PICK g :
          /\ InOrder(Unread, g, y, e) /\ Spent(Len(Unread), y, e, w)
          /\ sending => Sent([id |-> id, at |-> next], e)
          /\ ~flushed /\ (sending \/ Unread # <<>>) => Behind(y, w)
    BY <1>0 DEF Stream
  <1>2. /\ tty = <<>> /\ phase = "read" /\ phase' = "check"
        /\ UNCHANGED <<sending, id, next, tty, lost, buf, last, flushed>>
    BY DEF Timeout, senderVars, histVars
  <1>3. Unread = buf /\ Unread' = <<>>
    <2>1. buf \in Seq(Bytes)
      BY Sequences
    <2>2. buf \o <<>> = buf
      BY <2>1
    <2>3. QED
      BY <1>2, <2>2 DEF Unread
  <1> DEFINE n == Len(buf)
  <1> DEFINE f == e - y - n
  <1>4. buf \in Seq(Bytes) /\ n \in Nat /\ Len(<<>>) = 0 /\ PacketLength \in Nat /\ PacketLength >= 1
    BY Sequences, EmptySeq, Sizes
  <1>5. n < PacketLength
    BY <1>2 DEF ReaderInv
  <1>6. y + n <= e
    BY <1>1, <1>3 DEF InOrder
  <1>7. f \in Nat /\ e = y + n + f
    BY <1>4, <1>6
  <1>8. w + 2 * e <= 2 * (y + n + lost) + cut
    BY <1>1, <1>3 DEF Spent
  <1>9. buf # <<>> => n >= 1
    BY <1>4, EmptySeq
  <1>10. lost \in Nat /\ cut \in Nat
    BY Fields
  <1>11. InOrder(Unread', [i \in 1 .. 0 |-> 0], e, e)
    BY <1>3, NothingInOrder
  <1> DEFINE N(u) == \E k \in Nat : /\ Numbered(last', k)
                                    /\ (k + 1) * PacketLength <= e
                                    /\ e <= (k + 1 + u) * PacketLength
  <1>12. CASE cut' = cut /\ (sending => next = 0)
    <2>1. ASSUME ~flushed, sending
          PROVE  N(w + 2 * f)
      <3>1. f >= 1 \/ n = 0
        <4> SUFFICES ASSUME buf # <<>> PROVE f >= 1
          BY <1>4
        <4>0. High(buf[1])
          BY DEF ReaderInv
        <4>1. n >= 1 /\ High(buf[1]) /\ buf[1] \in Bytes
          BY <1>4, <1>9, <4>0
        <4>2. Sent(buf[1], g[1]) /\ y + 1 <= g[1] + 1 /\ g[1] + n + 1 <= e + 1 /\ g[1] \in Nat
          BY <1>1, <1>3, <1>4, <4>1 DEF InOrder
        <4>3. PICK a \in Nat : g[1] = a * PacketLength
          BY <4>1, <4>2, HighBegins
        <4>4. PICK b \in Nat : e = b * PacketLength
          <5>1. Sent([id |-> id, at |-> next], e) /\ next = 0
            BY <1>1, <1>12, <2>1
          <5>2. PICK b \in Nat : e = b * PacketLength + 0
            BY <5>1 DEF Sent
          <5>3. b * PacketLength + 0 = b * PacketLength
            BY <1>4
          <5>4. QED
            BY <5>2, <5>3
        <4>5. a < b
          <5> SUFFICES ASSUME b <= a PROVE FALSE
            OBVIOUS
          <5>1. b * PacketLength <= a * PacketLength
            BY <1>4, Products
          <5>2. e <= g[1]
            BY <4>3, <4>4, <5>1
          <5> HIDE DEF n
          <5>3. QED
            BY <1>4, <4>1, <4>2, <5>2
        <4>6. g[1] + PacketLength <= e
          BY <1>4, <4>3, <4>4, <4>5, Products
        <4> DEFINE x == g[1]
        <4>7. x \in Nat /\ y <= x /\ x + PacketLength <= e
          BY <4>2, <4>6
        <4> HIDE DEF n, f, x
        <4>8. QED
          BY <1>4, <1>5, <1>7, <4>7
      <3>2. PICK m \in Nat : /\ Numbered(last, m)
                             /\ (m + 1) * PacketLength <= y
                             /\ y <= (m + 1 + w) * PacketLength
        BY <1>1, <2>1 DEF Behind
      <3>3. y + n + f <= ((m + 1 + w) + 2 * f) * PacketLength
        <4>1. m + 1 + w \in Nat /\ n <= PacketLength
          BY <1>4, <1>5
        <4> HIDE DEF n, f
        <4>2. QED
          BY <1>4, <1>7, <3>1, <3>2, <4>1, Budget
      <3> HIDE DEF n, f
      <3>4. (m + 1 + w) + 2 * f = m + 1 + (w + 2 * f)
        BY <1>7
      <3>5. (m + 1) * PacketLength <= e
        <4>1. (m + 1) * PacketLength \in Nat
          BY Sizes
        <4>2. QED
          BY <1>4, <1>7, <3>2, <4>1
      <3>6. e <= (m + 1 + (w + 2 * f)) * PacketLength
        BY <1>7, <3>3, <3>4
      <3>7. last' = last
        BY <1>2
      <3>8. QED
        BY <3>2, <3>5, <3>6, <3>7
    <2> DEFINE v == w + 2 * f
    <2> HIDE DEF n, f
    <2>2. v \in Nat
      BY <1>7
    <2>3. e <= e + 0 + lost /\ v + 2 * e <= 2 * (e + 0 + lost) + cut
      BY <1>4, <1>7, <1>8, <1>10
    <2>4. ~flushed /\ sending => N(v)
      BY <2>1
    <2> HIDE DEF v
    <2>5. PICK u \in Nat : u + 2 * e <= 2 * (e + 0 + lost) + cut /\ (~flushed /\ sending => N(u))
      BY <2>2, <2>3, <2>4
    <2>6. Spent(Len(Unread), e, e, u)'
      BY <1>2, <1>3, <1>4, <1>12, <2>3, <2>5 DEF Spent
    <2>7. ~flushed /\ sending => Behind(e, u)'
      BY <2>5 DEF Behind
    <2>8. QED
      BY <1>1, <1>2, <1>3, <1>11, <2>6, <2>7 DEF StreamInv, Stream
  <1>13. CASE cut' = cut + 1
    <2> DEFINE v == w + 2 * f + 1
    <2> HIDE DEF n, f
    <2>1. v \in Nat /\ w + 1 \in Nat
      BY <1>7
    <2>2. e <= e + 0 + lost /\ v + 2 * e <= 2 * (e + 0 + lost) + (cut + 1)
      BY <1>4, <1>7, <1>8, <1>10
    <2>3. ~flushed /\ sending => N(v)
      <3> SUFFICES ASSUME ~flushed, sending PROVE N(v)
        OBVIOUS
      <3>1. PICK m \in Nat : /\ Numbered(last, m)
                             /\ (m + 1) * PacketLength <= y
                             /\ y <= (m + 1 + w) * PacketLength
        BY <1>1 DEF Behind
      <3>2. m + 1 + w \in Nat /\ (m + 1 + w) + 1 \in Nat /\ y + n \in Nat
        BY <1>4
      <3>3. y + n <= ((m + 1 + w) + 1) * PacketLength
        <4>1. /\ ((m + 1 + w) + 1) * PacketLength = (m + 1 + w) * PacketLength + PacketLength
              /\ (m + 1 + w) * PacketLength \in Nat
          BY <1>4, <3>2, Products
        <4>2. QED
          BY <1>4, <1>5, <3>1, <4>1
      <3>4. (y + n) + 0 + f <= (((m + 1 + w) + 1) + 2 * f) * PacketLength
        BY <1>4, <1>7, <3>2, <3>3, Budget
      <3>5. ((m + 1 + w) + 1) + 2 * f = m + 1 + v /\ (y + n) + 0 + f = e
        BY <1>4, <1>7
      <3>6. (m + 1) * PacketLength <= e
        <4>1. (m + 1) * PacketLength \in Nat
          BY Sizes
        <4>2. QED
          BY <1>4, <1>7, <3>1, <4>1
      <3>7. last' = last
        BY <1>2
      <3> HIDE DEF v
      <3>8. QED
        BY <3>1, <3>4, <3>5, <3>6, <3>7
    <2> HIDE DEF v
    <2>4. PICK u \in Nat : u + 2 * e <= 2 * (e + 0 + lost) + (cut + 1) /\ (~flushed /\ sending => N(u))
      BY <2>1, <2>2, <2>3
    <2>5. Spent(Len(Unread), e, e, u)'
      BY <1>2, <1>3, <1>4, <1>13, <2>2, <2>4 DEF Spent
    <2>6. ~flushed /\ sending => Behind(e, u)'
      BY <2>4 DEF Behind
    <2>7. QED
      BY <1>1, <1>2, <1>3, <1>11, <2>5, <2>6 DEF StreamInv, Stream
  <1>14. QED
    <2>1. (cut' = cut /\ (sending => next = 0)) \/ cut' = cut + 1
      BY DEF Timeout
    <2>2. QED
      BY <1>12, <1>13, <2>1

\* A packet to be parsed begins with the first byte of one.
LEMMA ParsedPlaces ==
  ASSUME SerialTypeOK, ReaderInv, phase = "parse",
         NEW y \in Nat, NEW e \in Nat, NEW g, InOrder(Unread, g, y, e)
  PROVE  /\ Unread = buf \o tty /\ Unread \in Seq(Bytes) /\ tty \in Seq(Bytes)
         /\ PacketLength \in Nat /\ PacketLength \in 1 .. Len(Unread) /\ Len(buf) = PacketLength
         /\ Len(tty) = Len(Unread) - PacketLength
         /\ \A i \in 1 .. Len(tty) : tty[i] = Unread[i + PacketLength]
         /\ \A i \in 1 .. PacketLength :
              buf[i] \in Bytes /\ Sent(buf[i], g[i]) /\ g[i] \in Nat /\ g[1] + i <= g[i] + 1
                /\ g[i] + PacketLength <= g[PacketLength] + i
         /\ 1 \in 1 .. PacketLength /\ y <= g[1]
         /\ \E k \in Nat : Numbered(buf[1].id, k) /\ g[1] = k * PacketLength
  <1> DEFINE L == PacketLength
  <1> DEFINE s == buf \o tty
  <1>1. /\ tty \in Seq(Bytes) /\ buf \in Seq(Bytes) /\ Len(buf) \in Nat /\ Len(tty) \in Nat
        /\ s \in Seq(Bytes) /\ Len(s) = Len(buf) + Len(tty)
    BY Sequences
  <1>2. Unread = s /\ Len(buf) = L
    BY DEF Unread, ReaderInv
  <1>3. L \in Nat /\ L >= 1
    BY Sizes
  <1>4. Len(tty) = Len(s) - L /\ L \in 1 .. Len(s)
    BY <1>1, <1>2, <1>3
  <1>5. \A i \in 1 .. Len(tty) : tty[i] = s[i + L]
    <2> TAKE i \in 1 .. Len(tty)
    <2>1. s[Len(buf) + i] = tty[i]
      BY <1>1
    <2>2. L + i = i + L
      BY <1>3
    <2>3. QED
      BY <1>2, <2>1, <2>2
  <1>6. \A i \in 1 .. L : s[i] = buf[i] /\ buf[i] \in Bytes
    <2> TAKE i \in 1 .. L
    <2>1. i \in 1 .. Len(buf)
      BY <1>2
    <2>2. QED
      BY <1>1, <2>1
  <1> HIDE DEF s, L
  <1>7. InOrder(s, g, y, e)
    BY <1>2
  <1>8. ASSUME NEW i \in 1 .. L
        PROVE  Sent(buf[i], g[i]) /\ g[i] \in Nat /\ g[1] + i <= g[i] + 1 /\ g[i] + L <= g[L] + i
    <2>1. i \in 1 .. Len(s) /\ 1 \in 1 .. Len(s) /\ L \in 1 .. Len(s) /\ 1 <= i /\ i <= L
      BY <1>1, <1>3, <1>4
    <2>2. Sent(s[i], g[i]) /\ g[i] \in Nat
      BY <1>7, <2>1 DEF InOrder
    <2>3. g[1] + i <= g[i] + 1
      BY <1>7, <2>1 DEF InOrder
    <2>4. g[i] + L <= g[L] + i
      BY <1>7, <2>1 DEF InOrder
    <2>5. s[i] = buf[i]
      BY <1>6
    <2>6. QED
      BY <2>2, <2>3, <2>4, <2>5
  <1>9. 1 \in 1 .. L /\ y <= g[1]
    <2>1. 1 \in 1 .. L /\ 1 \in 1 .. Len(s)
      BY <1>1, <1>3, <1>4
    <2>2. y + 1 <= g[1] + 1
      BY <1>7, <2>1 DEF InOrder
    <2>3. g[1] \in Nat
      BY <1>8, <2>1
    <2>4. QED
      BY <2>1, <2>2, <2>3
  <1>10. High(buf[1])
    <2>1. buf # <<>>
      BY <1>2, <1>3, EmptySeq
    <2>2. QED
      BY <2>1 DEF ReaderInv
  <1>11. \E k \in Nat : Numbered(buf[1].id, k) /\ g[1] = k * PacketLength
    BY <1>6, <1>8, <1>9, <1>10, HighBegins
  <1>12. /\ Unread \in Seq(Bytes) /\ L \in 1 .. Len(Unread) /\ Len(tty) = Len(Unread) - L
         /\ \A i \in 1 .. Len(tty) : tty[i] = Unread[i + L]
    BY <1>1, <1>2, <1>4, <1>5
  <1>13. Unread = buf \o tty
    BY <1>2 DEF s
  <1>14. \A i \in 1 .. L : buf[i] \in Bytes /\ Sent(buf[i], g[i]) /\ g[i] \in Nat
                           /\ g[1] + i <= g[i] + 1 /\ g[i] + L <= g[L] + i
    BY <1>6, <1>8
  <1>15. QED
    BY <1>1, <1>2, <1>3, <1>9, <1>11, <1>12, <1>13, <1>14, Zenon DEF L

LEMMA StreamParses ==
  ASSUME SerialTypeOK, ReaderInv, StreamInv, Parse
  PROVE  StreamInv'
  <1> DEFINE L == PacketLength
  <1>0. PICK y \in Nat, e \in Nat, w \in Nat : \E g : Stream(g, y, e, w)
    BY DEF StreamInv
  <1>1. PICK g :
          /\ InOrder(Unread, g, y, e) /\ Spent(Len(Unread), y, e, w)
          /\ sending => Sent([id |-> id, at |-> next], e)
          /\ ~flushed /\ (sending \/ Unread # <<>>) => Behind(y, w)
    BY <1>0 DEF Stream
  <1>2. phase = "parse" /\ Unread' = tty /\ UNCHANGED <<sending, id, next, tty, lost, cut>>
    BY DEF Parse, senderVars, Unread
  <1>3. /\ Unread \in Seq(Bytes) /\ tty \in Seq(Bytes)
        /\ L \in Nat /\ L \in 1 .. Len(Unread) /\ Len(buf) = L
        /\ Len(tty) = Len(Unread) - L
        /\ \A i \in 1 .. Len(tty) : tty[i] = Unread[i + L]
    BY <1>1, <1>2, ParsedPlaces
  <1>4. \A i \in 1 .. L : buf[i] \in Bytes /\ Sent(buf[i], g[i]) /\ g[i] \in Nat
                          /\ g[1] + i <= g[i] + 1 /\ g[i] + L <= g[L] + i
    BY <1>1, <1>2, ParsedPlaces
  <1>5. 1 \in 1 .. L /\ y <= g[1]
    BY <1>1, <1>2, ParsedPlaces
  <1>k. \E k \in Nat : Numbered(buf[1].id, k) /\ g[1] = k * L
    <2>1. InOrder(Unread, g, y, e) /\ phase = "parse"
      BY <1>1, <1>2
    <2>2. \E k \in Nat : Numbered(buf[1].id, k) /\ g[1] = k * PacketLength
      BY <2>1, ParsedPlaces
    <2>3. QED
      BY <2>2
  <1> DEFINE a == g[1]
  <1> DEFINE z == g[L]
  <1>6. a \in Nat /\ z \in Nat /\ y <= a /\ a + L <= z + 1 /\ L >= 1
    BY <1>3, <1>4, <1>5
  <1>7. CASE Synchronized(buf)
    <2>1. last' = buf[1].id /\ ~flushed'
      BY <1>7 DEF Parse
    <2>2. PICK k \in Nat : Numbered(buf[1].id, k) /\ a = k * L
      BY <1>k
    <2> DEFINE f == z + 1 - a - L
    <2> DEFINE y1 == z + 1
    <2>3. PICK h : InOrder(tty, h, y1, e)
      BY <1>1, <1>3, OrderDrop
    <2> HIDE DEF L, a, z
    <2>4. f \in Nat /\ y1 = a + L + f /\ y1 \in Nat
      BY <1>3, <1>6
    <2> HIDE DEF f, y1
    <2>5. (k + 1) * L = a + L /\ (k + 1) * L \in Nat
      BY <1>3, <1>6, <2>2, Products
    <2>6. y1 <= (k + 1 + 2 * f) * L
      <3>1. (a + L) + 0 + f <= ((k + 1) + 2 * f) * L
        <4>1. (a + L) <= (k + 1) * L /\ a + L \in Nat /\ k + 1 \in Nat
          BY <1>3, <1>6, <2>5
        <4>2. f \in Nat /\ L \in Nat /\ L >= 1 /\ 0 \in Nat /\ 0 <= L
          BY <1>3, <1>6, <2>4
        <4>3. QED
          BY <4>1, <4>2, Budget
      <3>2. (a + L) + 0 + f = y1
        BY <1>3, <1>6, <2>4
      <3>3. QED
        BY <3>1, <3>2
    <2>7. (k + 1) * L <= y1
      BY <1>3, <1>6, <2>4, <2>5
    <2> DEFINE w1 == 2 * f
    <2>8. w1 \in Nat
      BY <2>4
    <2>9. e <= y1 + Len(tty) + lost /\ w1 + 2 * e <= 2 * (y1 + Len(tty) + lost) + cut
      <3> DEFINE n == Len(Unread)
      <3>1. e <= y + n + lost /\ n \in Nat /\ lost \in Nat /\ cut \in Nat
        BY <1>1, <1>3, Fields DEF Spent
      <3>2. Len(tty) = n - L
        BY <1>3
      <3> HIDE DEF n
      <3>3. e <= y1 + (n - L) + lost /\ w1 + 2 * e <= 2 * (y1 + (n - L) + lost) + cut
        BY <1>3, <1>6, <2>4, <3>1
      <3>4. QED
        BY <3>2, <3>3
    <2> HIDE DEF w1
    <2>10. (k + 1) * L <= y1 /\ y1 <= (k + 1 + w1) * L
      BY <2>6, <2>7 DEF w1
    <2>11. PICK y2 \in Nat, w2 \in Nat :
             /\ InOrder(tty, h, y2, e)
             /\ e <= y2 + Len(tty) + lost /\ w2 + 2 * e <= 2 * (y2 + Len(tty) + lost) + cut
             /\ (k + 1) * L <= y2 /\ y2 <= (k + 1 + w2) * L
      BY <2>3, <2>4, <2>8, <2>9, <2>10
    <2>12. Spent(Len(Unread), y2, e, w2)'
      BY <1>2, <2>11 DEF Spent
    <2>13. Behind(y2, w2)'
      BY <2>1, <2>2, <2>11 DEF Behind, L
    <2>14. QED
      BY <1>1, <1>2, <2>11, <2>12, <2>13 DEF StreamInv, Stream
  <1>8. CASE ~Synchronized(buf)
    <2>1. UNCHANGED <<last, flushed>>
      BY <1>8 DEF Parse, histVars
    <2>2. PICK k \in Nat : a = k * L
      BY <1>k
    <2>3. PICK i \in 2 .. L : High(buf[i])
      <3>1. buf # <<>>
        BY <1>3, <1>6, EmptySeq
      <3>2. High(buf[1])
        BY <3>1 DEF ReaderInv
      <3>3. QED
        BY <1>3, <1>8, <3>2 DEF Synchronized
    <2>4. i \in 1 .. L /\ i \in Nat /\ i >= 2 /\ i <= L
      BY <1>3, <2>3
    <2> DEFINE b == g[i]
    <2>5. b \in Nat /\ a + i <= b + 1 /\ b + L <= z + i
      BY <1>4, <2>4
    <2>6. PICK j \in Nat : b = j * L
      BY <1>4, <2>3, <2>4, HighBegins
    <2> HIDE DEF b, a, z, L
    <2>7. k < j
      <3> SUFFICES ASSUME j <= k PROVE FALSE
        OBVIOUS
      <3>1. j * L <= k * L
        BY <1>3, <1>6, Products
      <3>2. b <= a
        BY <2>2, <2>6, <3>1
      <3>3. QED
        BY <1>6, <2>4, <2>5, <3>2
    <2>8. a + L <= b
      BY <1>3, <1>6, <2>2, <2>6, <2>7, Products
    <2>9. z + 1 # y + L
      BY <1>3, <1>6, <2>4, <2>5, <2>8
    <2>10. PICK y1 \in Nat, w1 \in Nat :
             /\ \E h : InOrder(tty, h, y1, e)
             /\ Spent(Len(tty), y1, e, w1) /\ (Behind(y, w) => Behind(y1, w1))
      <3>1. g[PacketLength] + 1 # y + PacketLength
        BY <2>9 DEF L, z
      <3>2. PacketLength <= PacketLength
        BY Sizes
      <3>3. /\ PacketLength \in 1 .. Len(Unread) /\ Len(tty) = Len(Unread) - PacketLength
            /\ \A m \in 1 .. Len(tty) : tty[m] = Unread[m + PacketLength]
        BY <1>3 DEF L
      <3>4. /\ Unread \in Seq(Bytes) /\ tty \in Seq(Bytes)
            /\ InOrder(Unread, g, y, e) /\ Spent(Len(Unread), y, e, w)
        BY <1>1, <1>3
      <3>5. g[PacketLength] + 1 = y + PacketLength /\ Behind(y, w) => Behind(y + PacketLength, w)
        BY <3>1
      <3>6. \E y1 \in Nat, w1 \in Nat : \E h :
              InOrder(tty, h, y1, e) /\ Spent(Len(tty), y1, e, w1) /\ (Behind(y, w) => Behind(y1, w1))
        BY <3>2, <3>3, <3>4, <3>5, DropStream
      <3>7. QED
        BY <3>6
    <2>11. Spent(Len(Unread), y1, e, w1)'
      BY <1>2, <2>10 DEF Spent
    <2>12. Behind(y, w) => Behind(y1, w1)'
      BY <2>1, <2>10 DEF Behind
    <2>13. Unread # <<>>
      <3>1. Len(Unread) # 0
        BY <1>3, <1>6
      <3>2. QED
        BY <3>1, EmptySeq
    <2>14. QED
      BY <1>1, <1>2, <2>1, <2>10, <2>11, <2>12, <2>13 DEF StreamInv, Stream
  <1>9. QED
    BY <1>7, <1>8

LEMMA NothingAtAll ==
  <<>> \o <<>> = <<>> /\ Len(<<>>) = 0
  <1>1. <<>> \in Seq(Bytes)
    BY EmptySeq
  <1>2. QED
    BY <1>1, EmptySeq, ConcatEmptySeq

LEMMA StreamResets ==
  ASSUME SerialTypeOK, ReaderInv, StreamInv, SerialConfigTTY
  PROVE  StreamInv'
  <1>0. PICK y \in Nat, e \in Nat, w \in Nat : \E g : Stream(g, y, e, w)
    BY DEF StreamInv
  <1>1. PICK g :
          /\ InOrder(Unread, g, y, e) /\ Spent(Len(Unread), y, e, w)
          /\ sending => Sent([id |-> id, at |-> next], e)
          /\ ~flushed /\ (sending \/ Unread # <<>>) => Behind(y, w)
    BY <1>0 DEF Stream
  <1>2. phase = "reset" /\ phase' \in {"ident", "given up"} /\ UNCHANGED <<lost, cut, buf, last>>
    BY DEF SerialConfigTTY
  <1>3. CASE sending'
    <2>1. UNCHANGED <<sending, id, next, tty, flushed>>
      BY <1>3 DEF SerialConfigTTY
    <2>2. Unread' = Unread
      BY <1>2, <2>1, UnreadSame
    <2>3. QED
      BY <1>2, <2>1, <2>2, StreamSame
  <1>4. CASE ~sending' /\ tty' = tty
    <2>1. Unread' = Unread
      BY <1>2, <1>4, UnreadSame
    <2>2. flushed'
      BY <1>4 DEF SerialConfigTTY
    <2>3. Spent(Len(Unread), y, e, w)'
      BY <1>1, <1>2, <2>1 DEF Spent
    <2>4. QED
      BY <1>1, <1>4, <2>1, <2>2, <2>3 DEF StreamInv, Stream
  <1>5. CASE ~sending' /\ tty' = <<>>
    <2>1. buf' = <<>>
      BY <1>2 DEF ReaderInv
    <2>2. Unread' = <<>> /\ Len(<<>>) = 0
      BY <1>2, <1>5, <2>1, NothingAtAll DEF Unread
    <2>3. flushed'
      BY <1>5 DEF SerialConfigTTY
    <2>4. Spent(Len(Unread), 0, 0, 0)'
      <3>1. 0 <= 0 + 0 + lost /\ 0 + 2 * 0 <= 2 * (0 + 0 + lost) + cut
        BY Fields
      <3>2. QED
        BY <1>2, <2>2, <3>1 DEF Spent
    <2>5. InOrder(Unread', [i \in 1 .. 0 |-> 0], 0, 0)
      BY <2>2, NothingInOrder
    <2>6. QED
      BY <1>5, <2>3, <2>4, <2>5 DEF StreamInv, Stream
  <1>6. QED
    BY <1>3, <1>4, <1>5 DEF SerialConfigTTY

LEMMA StreamStarts ==
  ASSUME SerialTypeOK, ReaderInv, StreamInv, InitAndStart
  PROVE  StreamInv'
  <1> DEFINE e == id * PacketLength + next
  <1>1. /\ phase = "init" /\ phase' \in {"read", "given up"} /\ flushed'
        /\ UNCHANGED <<id, next, tty, lost, cut, buf>>
    BY DEF InitAndStart, histVars, ReaderInv
  <1>2. tty = <<>> /\ buf = <<>>
    BY <1>1 DEF ReaderInv
  <1>3. Unread' = <<>> /\ Len(<<>>) = 0
    BY <1>1, <1>2, NothingAtAll DEF Unread
  <1>4. id \in Nat /\ next \in Nat /\ e \in Nat
    <2>1. id \in Nat /\ next \in Nat
      BY Fields, Sizes
    <2>2. QED
      BY <2>1, Sizes
  <1>5. Sent([id |-> id, at |-> next], e)
    <2>1. id = id + 0 * PacketIds
      BY <1>4, Sizes
    <2>2. Numbered(id, id)
      BY <1>4, <2>1 DEF Numbered
    <2>3. QED
      BY <1>4, <2>2 DEF Sent
  <1> HIDE DEF e
  <1>6. PICK x \in Nat : Sent([id |-> id', at |-> next'], x)
    BY <1>1, <1>4, <1>5
  <1>7. Spent(Len(Unread), x, x, 0)'
    <2>1. x <= x + 0 + lost /\ 0 + 2 * x <= 2 * (x + 0 + lost) + cut
      BY Fields
    <2>2. QED
      BY <1>1, <1>3, <2>1 DEF Spent
  <1>8. InOrder(Unread', [i \in 1 .. 0 |-> 0], x, x)
    BY <1>3, NothingInOrder
  <1>9. QED
    BY <1>1, <1>6, <1>7, <1>8 DEF StreamInv, Stream

LEMMA SerialInvInit == SerialInit => SerialInv
  BY SerialTypeInit, ReaderInit, StreamInit DEF SerialInv

LEMMA SerialInvStep == SerialInv /\ [SerialNext]_serialVars => SerialInv'
  <1> SUFFICES ASSUME SerialTypeOK, ReaderInv, StreamInv, [SerialNext]_serialVars
               PROVE  StreamInv'
    BY SerialTypeStep, ReaderStep DEF SerialInv
  <1>1. CASE TabletSends
    BY <1>1, StreamSends
  <1>2. CASE ByteIsLost
    BY <1>2, StreamLoses
  <1>3. CASE CheckErrors
    BY <1>3, StreamChecks
  <1>4. CASE Timeout
    BY <1>4, StreamEnds
  <1>5. CASE Parse
    BY <1>5, StreamParses
  <1>6. CASE \E n \in 1 .. PacketLength : Read(n)
    BY <1>6, StreamReads
  <1>7. CASE SerialConfigTTY
    BY <1>7, StreamResets
  <1>8. CASE InitAndStart
    BY <1>8, StreamStarts
  <1>9. CASE Ident \/ ReadOn
    BY <1>9, UnreadSame, StreamSame DEF Ident, ReadOn, senderVars, histVars
  <1>10. CASE UNCHANGED serialVars
    BY <1>10, UnreadSame, StreamSame DEF serialVars
  <1>11. QED
    BY <1>1, <1>2, <1>3, <1>4, <1>5, <1>6, <1>7, <1>8, <1>9, <1>10 DEF SerialNext, Reader

-----------------------------------------------------------------------------
(* What follows for the packet to be parsed.                               *)

LEMMA OnePacket ==
  ASSUME SerialInv
  PROVE  NoMixedPacket
  <1> SUFFICES ASSUME phase = "parse", Synchronized(buf), lost < 2
               PROVE  Whole(buf)
    BY DEF NoMixedPacket
  <1> DEFINE L == PacketLength
  <1>1. SerialTypeOK /\ ReaderInv
    BY DEF SerialInv
  <1>0. PICK y \in Nat, e \in Nat, w \in Nat : \E g : Stream(g, y, e, w)
    BY DEF SerialInv, StreamInv
  <1>2. PICK g : InOrder(Unread, g, y, e) /\ Spent(Len(Unread), y, e, w)
    BY <1>0 DEF Stream
  <1>3. L \in Nat /\ L >= 1 /\ L \in 1 .. Len(Unread) /\ Len(buf) = L /\ Len(Unread) \in Nat
    <2>1. L \in 1 .. Len(Unread) /\ Len(buf) = L
      BY <1>1, <1>2, ParsedPlaces
    <2>2. Len(Unread) \in Nat
      BY <1>1, UnreadType
    <2>3. QED
      BY <2>1, <2>2, Sizes
  <1>4. \A i \in 1 .. L : buf[i] \in Bytes /\ Sent(buf[i], g[i]) /\ g[i] \in Nat
                          /\ g[1] + i <= g[i] + 1 /\ g[i] + L <= g[L] + i
    BY <1>1, <1>2, ParsedPlaces
  <1>5. PICK k \in Nat : Numbered(buf[1].id, k) /\ g[1] = k * L
    <2>1. InOrder(Unread, g, y, e)
      BY <1>2
    <2>2. \E k \in Nat : Numbered(buf[1].id, k) /\ g[1] = k * PacketLength
      BY <1>1, <2>1, ParsedPlaces
    <2>3. QED
      BY <2>2
  <1>6. 1 \in 1 .. L /\ L \in 1 .. L /\ y <= g[1]
    BY <1>1, <1>2, <1>3, ParsedPlaces
  <1> DEFINE a == g[1]
  <1> DEFINE z == g[L]
  <1>7. a \in Nat /\ z \in Nat /\ a + L <= z + 1
    BY <1>4, <1>6
  <1>8. z <= a + L
    <2> DEFINE n == Len(Unread)
    <2>1. z + n + 1 <= e + L
      BY <1>2, <1>3 DEF InOrder
    <2>2. e <= y + n + lost /\ lost \in Nat /\ lost < 2 /\ n \in Nat
      BY <1>1, <1>2, <1>3, Fields DEF Spent
    <2>3. y <= a
      BY <1>6
    <2> HIDE DEF n, z, a, L
    <2>4. QED
      BY <1>3, <1>7, <2>1, <2>2, <2>3
  <1>9. L >= 2 => z # a + L
    <2> SUFFICES ASSUME L >= 2 PROVE z # (k + 1) * L
      <3>1. (k + 1) * L = k * L + L
        BY <1>3, Products
      <3>2. QED
        BY <1>5, <3>1
    <2>1. L \in 2 .. Len(buf) /\ L \in 1 .. L
      BY <1>3, <1>6
    <2>2. ~High(buf[L]) /\ buf[L] \in Bytes /\ Sent(buf[L], z)
      BY <1>4, <2>1 DEF Synchronized
    <2>3. k + 1 \in Nat
      OBVIOUS
    <2>4. \A q \in Nat : z # q * PacketLength
      <3> HIDE DEF z
      <3>1. QED
        BY <2>2, HighBegins
    <2>5. QED
      BY <2>3, <2>4
  <1>10. L >= 2 => z + 1 = a + L
    <2> HIDE DEF z, a, L
    <2>1. QED
      BY <1>3, <1>7, <1>8, <1>9
  <1>11. ASSUME NEW i \in 1 .. L
         PROVE  g[i] = k * L + (i - 1)
    <2> DEFINE b == g[i]
    <2>1. b \in Nat /\ a + i <= b + 1 /\ b + L <= z + i
      BY <1>4
    <2>2. i \in Nat /\ i >= 1 /\ i <= L /\ (i = 1 => b = a) /\ a = k * L
      BY <1>3, <1>5
    <2>3. L >= 2 \/ i = 1
      BY <1>3
    <2> HIDE DEF b, a, z, L
    <2>4. b = a + (i - 1)
      BY <1>3, <1>7, <1>10, <2>1, <2>2, <2>3
    <2>5. QED
      BY <2>2, <2>4 DEF b
  <1>12. ASSUME NEW i \in 1 .. L
         PROVE  buf[i] = [id |-> buf[1].id, at |-> i - 1]
    <2>1. buf[i] \in Bytes /\ buf[1] \in Bytes
      BY <1>4, <1>6
    <2>2. PICK m \in Nat : Numbered(buf[i].id, m) /\ g[i] = m * L + buf[i].at
      BY <1>4 DEF Sent
    <2>3. buf[i].at \in 0 .. L - 1 /\ i - 1 \in 0 .. L - 1
      BY <1>3, <2>1 DEF Bytes
    <2>4. k = m /\ i - 1 = buf[i].at
      <3>1. k * L + (i - 1) = m * L + buf[i].at
        BY <1>11, <2>2
      <3> DEFINE j == i - 1
      <3> DEFINE b == buf[i].at
      <3>2. L \in Nat /\ L >= 1 /\ j \in 0 .. L - 1 /\ b \in 0 .. L - 1 /\ k * L + j = m * L + b
        BY <1>3, <2>3, <3>1
      <3> HIDE DEF L, j, b
      <3>3. k = m /\ j = b
        BY <3>2, OneQuotient
      <3>4. QED
        BY <3>3 DEF j, b
    <2>5. PICK c \in Nat : k = buf[1].id + c * PacketIds
      BY <1>5 DEF Numbered
    <2>6. PICK d \in Nat : k = buf[i].id + d * PacketIds
      BY <2>2, <2>4 DEF Numbered
    <2>7. buf[1].id \in 0 .. PacketIds - 1 /\ buf[i].id \in 0 .. PacketIds - 1
      BY <2>1 DEF Bytes
    <2>8. c * PacketIds + buf[1].id = d * PacketIds + buf[i].id
      <3>1. c * PacketIds \in Nat /\ d * PacketIds \in Nat
        BY Sizes
      <3>2. QED
        BY <2>5, <2>6, <2>7, <3>1
    <2>9. buf[1].id = buf[i].id
      BY <2>7, <2>8, Sizes, OneQuotient
    <2>10. buf[i] = [id |-> buf[i].id, at |-> buf[i].at]
      BY <2>1 DEF Bytes
    <2>11. QED
      BY <2>4, <2>9, <2>10
  <1>13. QED
    BY <1>3, <1>12 DEF Whole

LEMMA FewMissed ==
  ASSUME SerialInv
  PROVE  LossIsLocal
  <1> SUFFICES ASSUME phase = "parse", ~flushed
               PROVE  Missed(buf) <= 2 * lost + cut
    BY DEF LossIsLocal
  <1> DEFINE L == PacketLength
  <1>1. SerialTypeOK /\ ReaderInv
    BY DEF SerialInv
  <1>0. PICK y \in Nat, e \in Nat, w \in Nat : \E g : Stream(g, y, e, w)
    BY DEF SerialInv, StreamInv
  <1>2. PICK g : /\ InOrder(Unread, g, y, e) /\ Spent(Len(Unread), y, e, w)
                 /\ Unread # <<>> => Behind(y, w)
    BY <1>0 DEF Stream
  <1> DEFINE n == Len(Unread)
  <1> DEFINE a == g[1]
  <1>3. L \in Nat /\ L >= 1 /\ L \in 1 .. n /\ Len(buf) = L /\ n \in Nat
    BY <1>1, <1>2, ParsedPlaces, Sizes
  <1>4. buf[1] \in Bytes /\ a \in Nat /\ y <= a
    BY <1>1, <1>2, ParsedPlaces
  <1>5. PICK k \in Nat : Numbered(buf[1].id, k) /\ a = k * L
    <2>1. \E k \in Nat : Numbered(buf[1].id, k) /\ g[1] = k * PacketLength
      BY <1>1, <1>2, ParsedPlaces
    <2>2. QED
      BY <2>1
  <1>6. PICK m \in Nat : /\ Numbered(last, m)
                         /\ (m + 1) * PacketLength <= y /\ y <= (m + 1 + w) * PacketLength
    <2>1. Unread # <<>>
      BY <1>3, EmptySeq
    <2>2. QED
      BY <1>2, <2>1 DEF Behind
  <1>7. w + 2 * (a - y) <= 2 * lost + cut
    <2>1. w + 2 * e <= 2 * (y + n + lost) + cut
      BY <1>2 DEF Spent
    <2>2. a + n + 1 <= e + 1
      <3>1. 1 \in 1 .. n
        BY <1>3
      <3>2. QED
        BY <1>2, <3>1 DEF InOrder
    <2>3. lost \in Nat /\ cut \in Nat
      BY <1>1, Fields
    <2> HIDE DEF n, a
    <2>4. QED
      BY <1>3, <1>4, <2>1, <2>2, <2>3
  <1> HIDE DEF n, a, L
  <1> DEFINE z == m + 1 + w
  <1>8. (m + 1) * L \in Nat /\ z * L \in Nat /\ k * L \in Nat /\ z \in Nat
    BY <1>3
  <1>9. m + 1 <= k
    <2> SUFFICES ASSUME k < m + 1 PROVE FALSE
      OBVIOUS
    <2>1. k * L + L <= (m + 1) * L
      BY <1>3, Products
    <2>2. (m + 1) * L <= k * L
      BY <1>4, <1>5, <1>6, <1>8 DEF L
    <2>3. QED
      BY <1>3, <1>8, <2>1, <2>2
  <1>10. k - m - 1 <= w + (a - y)
    <2>1. CASE k <= z
      BY <1>4, <2>1
    <2>2. CASE z < k
      <3> DEFINE f == k - z
      <3>1. f \in Nat /\ k = z + f
        BY <1>8, <2>2
      <3> HIDE DEF f
      <3>2. k * L = z * L + f * L /\ f <= f * L /\ f * L \in Nat
        BY <1>3, <1>8, <3>1, Products
      <3>3. y <= z * L
        BY <1>6 DEF L
      <3>4. f <= a - y
        BY <1>4, <1>5, <1>8, <3>1, <3>2, <3>3
      <3>5. k - m - 1 = w + f
        BY <3>1
      <3>6. QED
        BY <1>4, <3>1, <3>4, <3>5
    <2>3. QED
      BY <1>8, <2>1, <2>2
  <1>11. Missed(buf) <= k - m - 1 /\ Missed(buf) \in Nat
    <2> DEFINE i == buf[1].id
    <2>1. i \in 0 .. PacketIds - 1 /\ last \in 0 .. PacketIds - 1
      BY <1>1, <1>4, Fields DEF Bytes
    <2>2. PICK c \in Nat : k = i + c * PacketIds
      BY <1>5 DEF Numbered
    <2>3. PICK d \in Nat : m = last + d * PacketIds
      BY <1>6 DEF Numbered
    <2>4. Missed(buf) = (i + PacketIds - last - 1) % PacketIds
      BY DEF Missed
    <2> HIDE DEF i
    <2>5. (i + PacketIds - last - 1) % PacketIds <= k - m - 1
      BY <1>9, <2>1, <2>2, <2>3, MissedBound, Sizes
    <2>6. (i + PacketIds - last - 1) % PacketIds \in Nat
      <3>1. i + PacketIds - last - 1 \in Nat
        BY <2>1, Sizes
      <3>2. QED
        BY <3>1, Sizes
    <2>7. QED
      BY <2>4, <2>5, <2>6
  <1>12. a - y \in Nat /\ lost \in Nat /\ cut \in Nat
    BY <1>1, <1>4, Fields
  <1>13. QED
    <2> DEFINE x == Missed(buf)
    <2>1. x \in Nat /\ x <= k - m - 1
      BY <1>11
    <2> HIDE DEF x
    <2>2. x <= 2 * lost + cut
      BY <1>4, <1>7, <1>10, <1>12, <2>1
    <2>3. QED
      BY <2>2 DEF x

(***************************************************************************)
(* The line holds bytes of packets and never more than it has room for,    *)
(* and the buffer never more than a packet, as SerialReadRaw asks for no   *)
(* more than is missing.                                                   *)
(***************************************************************************)
THEOREM SerialTyping == SerialSpec => []SerialTypeOK
  <1>1. SerialInv => SerialTypeOK
    BY DEF SerialInv
  <1>2. QED
    BY SerialInvInit, SerialInvStep, <1>1, PTL DEF SerialSpec

(***************************************************************************)
(* With less than two bytes lost, what SerialParseData accepts is one      *)
(* packet, for packets of any length and reads of any size: two bytes are  *)
(* what it takes to put the end of one packet behind the beginning of      *)
(* another.                                                                *)
(***************************************************************************)
THEOREM PacketsWhole == SerialSpec => []NoMixedPacket
  BY SerialInvInit, SerialInvStep, OnePacket, PTL DEF SerialSpec

(***************************************************************************)
(* Between two packets that SerialParseData accepts, at most two go by for *)
(* each byte ever lost and one for each packet that the time limit of      *)
(* SerialReadRaw ever cut off, unless the tablet is reset between them.    *)
(***************************************************************************)
THEOREM LossesLocal == SerialSpec => []LossIsLocal
  BY SerialInvInit, SerialInvStep, FewMissed, PTL DEF SerialSpec

=============================================================================
