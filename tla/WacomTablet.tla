----------------------------- MODULE WacomTablet ----------------------------
(***************************************************************************)
(* From a pen on a serial tablet to the touch that src/wacom/wacom-input.c *)
(* reports: opening and resetting the tablet (SerialReset and what it      *)
(* calls), the parsers of src/wacom/wacserial.c, which keep state from one *)
(* packet to the next, and the main loop.  Packets are whole here: module  *)
(* WacomSerial has the bytes.  Packets get lost or arrive garbled, requests *)
(* time out, and the pen moves while the tablet is being reset.            *)
(*                                                                         *)
(* Positions, tilt, wheels and the mouse's keys are left out.              *)
(***************************************************************************)
EXTENDS Integers, Sequences

CONSTANTS
  Tablets,     \* models: their protocol and the version they answer
  VTools,      \* tools used with a protocol V tablet
  minPress,    \* the -p option
  LineSize,    \* packets the tty holds
  MaxFaults    \* packets lost or garbled in a behaviour

ASSUME TabletAssumption ==
  /\ Tablets \subseteq [protocol : {"IV", "V", "tpc"}, major : Nat, minor : Nat]
  /\ VTools \subseteq {"pen", "eraser", "airbrush", "mouse"}
  /\ minPress \in Nat /\ LineSize \in Nat \ {0, 1} /\ MaxFaults \in Nat

VARIABLES
  kind, pen, running, tilt,   \* the tablet; tilt: after "FM1"
  line, faults,
  pc, opened,                 \* the program
  pDevice, version, uPacketLength, pfnParse, nBitErrors,   \* *pSerial
  state,                      \* state.values; wacom-input has a copy
  touch,                      \* the BTN_TOUCH it reported last
  stale   \* history: the values whose latest packet was lost

tabletVars == <<kind, pen, running, tilt>>
setupVars == <<pDevice, version, uPacketLength, pfnParse>>
vars == <<kind, pen, running, tilt, line, faults, pc, opened, pDevice, version,
          uPacketLength, pfnParse, nBitErrors, state, touch, stale>>

Away == [tool |-> "none"]
Nothing == [prox |-> FALSE, tool |-> "NONE", press |-> 0, buttons |-> {}]
All == {"prox", "tool", "press"}

If(b, e) == IF b THEN {e} ELSE {}

\* In 1.0 and 1.1 of protocol IV pressure has 7 bits, later 8.
Coarse(k) == k.protocol = "IV" /\ k.minor < 2

\* nMax of the pressure, which main gave to uinput.
MaxPressure ==
  IF kind.protocol = "V" THEN 1023 ELSE IF Coarse(kind) THEN 120 ELSE 255

\* No pressure, the threshold if the tablet reaches it, and one with the
\* highest bit set.
Presses(tool) ==
  {0} \cup {press \in {minPress, IF Coarse(kind) THEN 100 ELSE 150} :
            tool # "mouse" /\ press <= MaxPressure}

Tools ==
  CASE kind.protocol = "V" -> VTools
    [] kind.protocol = "tpc" -> {"pen", "eraser"}
    [] OTHER -> IF kind.minor <= 2 THEN {"pen", "mouse"} ELSE {"pen", "eraser", "mouse"}

Switches(tool) == IF tool = "pen" THEN {"none", "STYLUS", "STYLUS2"} ELSE {"none"}

\* odd: it came near with the second switch pressed.
Near(tool, press, switch, odd) ==
  [tool |-> tool, press |-> press, switch |-> switch, odd |-> odd]

Init ==
  /\ kind \in Tablets
  /\ pen = Away \/ \E t \in Tools : pen = Near(t, 0, "none", FALSE)
  /\ running = FALSE /\ tilt = FALSE
  /\ line = <<>> /\ faults = 0
  /\ pc = "find" /\ opened = FALSE
  /\ pDevice = "NULL" /\ version = <<0, 0>> /\ uPacketLength = 0
  /\ pfnParse = "NULL" /\ nBitErrors = 0
  /\ state = Nothing /\ touch = FALSE
  /\ stale = IF pen = Away THEN {} ELSE All

-----------------------------------------------------------------------------
(* The tablet: what the parsers expect of it.                              *)

\* Bits 1 to 6 and bit 0 of the pressure, and its inverted highest bit.
IVPressure(press) ==
  IF Coarse(kind)
  THEN [p6 |-> (press % 64) + (IF press < 64 THEN 64 ELSE 0), low |-> 0]
  ELSE [p6 |-> ((press \div 2) % 64) + (IF press < 128 THEN 64 ELSE 0), low |-> press % 2]

Length == IF kind.protocol = "IV" /\ ~tilt THEN 7 ELSE 9

IVPacket(p) ==
  LET near == p # Away
      pressure == IVPressure(IF near THEN p.press ELSE 0)
  IN [code |-> "IV", length |-> Length, prox |-> near,
      stylus |-> near /\ p.tool # "mouse",
      side |-> near /\ p.switch = "STYLUS",
      eraser |-> near /\ (p.tool = "eraser" \/ p.switch = "STYLUS2"),
      p6 |-> pressure.p6, low |-> pressure.low]

TPCPacket(p) ==
  LET near == p # Away
      press == IF near THEN p.press ELSE 0
  IN [code |-> "tpc", length |-> 9, prox |-> near,
      touch |-> press > 0, side |-> near /\ p.switch = "STYLUS",
      eraser |-> near /\ (p.tool = "eraser" \/ p.switch = "STYLUS2"),
      p5 |-> press % 128, p6 |-> press \div 128]

VIn(p) == [code |-> "in", length |-> 9, tool |-> p.tool]
VOut == [code |-> "out", length |-> 9]
VData(p) ==
  {[code |-> IF p.tool = "mouse" THEN "mouse" ELSE "pen", length |-> 9,
    p5 |-> p.press \div 128, p6 |-> p.press % 128, switch |-> p.switch]}
  \cup (IF p.tool = "airbrush" THEN {[code |-> "air", length |-> 9]} ELSE {})

\* What the tablet sends of the pen's new state p.
Packets(p, enters) ==
  CASE kind.protocol = "IV" -> {<<IVPacket(p)>>}
    [] kind.protocol = "tpc" -> {<<TPCPacket(p)>>}
    [] OTHER -> IF p = Away THEN {<<VOut>>}
                ELSE {(IF enters THEN <<VIn(p)>> ELSE <<>>) \o <<d>> : d \in VData(p)}

Sends(p, enters) ==
  \E ps \in Packets(p, enters) :
    /\ Len(line \o ps) <= LineSize
    /\ line' = line \o ps

progVars == <<pc, opened, setupVars, nBitErrors, state, touch>>

\* The tablet sends, and the program has the line open.
Heard == running /\ pc # "exit"

\* The pen moves; unseen when the tablet is stopped, and then not before what
\* was sent has been read.
PenMoves ==
  /\ \/ pen = Away /\ \E t \in Tools : \E s \in Switches(t) :
          pen' = Near(t, 0, s, s = "STYLUS2")
     \/ pen # Away /\ pen' = Away
     \/ /\ pen # Away
        /\ \E press \in Presses(pen.tool), s \in Switches(pen.tool) :
             pen' = Near(pen.tool, press, s, pen.odd)
        /\ pen' # pen
  /\ \/ Heard /\ Sends(pen', pen = Away) /\ UNCHANGED stale
     \/ ~Heard /\ line = <<>> /\ stale' = All /\ UNCHANGED line
  /\ UNCHANGED <<kind, running, tilt, faults, progVars>>

\* The tablet repeats where the pen is; after a start it may announce it.
TabletRepeats ==
  /\ Heard /\ pen # Away
  /\ \E enters \in BOOLEAN : Sends(pen, enters)
  /\ UNCHANGED <<tabletVars, faults, progVars, stale>>

-----------------------------------------------------------------------------
(* SerialReset, from WacomOpenSerialTablet or from SerialReadRaw, which    *)
(* ignores its result.                                                     *)

ioVars == <<faults, nBitErrors, state, touch>>

\* SerialFindModel: the device of the -t option, which matters for a Tablet PC
\* only, as the others are asked what they are.
Requested == IF kind.protocol = "tpc" THEN "tpc" ELSE "NULL"

\* SerialSetDevice
SetDevice ==
  /\ pc = "find" /\ pc' = "config"
  /\ pDevice' = Requested
  /\ UNCHANGED <<tabletVars, line, ioVars, opened, version, uPacketLength, pfnParse, stale>>

\* SerialConfigTTY: resets, a stop and a flush; any of them may fail.
ConfigTTY ==
  /\ pc = "config"
  /\ \/ /\ running' = FALSE /\ tilt' = FALSE /\ line' = <<>>
        /\ stale' = IF line = <<>> THEN stale ELSE All
        /\ pc' = "ident"
     \/ /\ pc' = "failed"
        /\ \/ UNCHANGED <<running, tilt>>
           \/ running' \in BOOLEAN /\ tilt' = FALSE
        /\ UNCHANGED <<line, stale>>
  /\ UNCHANGED <<kind, pen, opened, setupVars, ioVars>>

\* SerialIdentTabletPC asks nothing.
IdentTabletPC ==
  /\ pc = "ident" /\ pDevice = "tpc"
  /\ uPacketLength' = 9 /\ version' = <<0, 0>>
  /\ pc' = "init"
  /\ UNCHANGED <<tabletVars, line, opened, pDevice, pfnParse, ioVars, stale>>

\* The answer to "~#" is found in the tables; its version may be unreadable.
Identified ==
  /\ pDevice' = kind.protocol
  /\ uPacketLength' = IF kind.protocol = "V" THEN 9 ELSE 7
  /\ \/ version' = <<kind.major, kind.minor>> /\ pc' = "init"
     \/ UNCHANGED version /\ pc' = "failed"

\* SerialSendRequest: an answer with the right header, none within half a
\* second, or an error.
Replies == {"answer", "timeout", "error"}

\* SerialIdentWacom: a request that times out is made once more.
IdentWacom ==
  /\ pc \in {"ident", "ident again"} /\ pDevice # "tpc"
  /\ \E reply \in Replies :
       \/ reply = "answer" /\ Identified
       \/ /\ reply # "answer"
          /\ pc' = IF reply = "timeout" /\ pc = "ident" THEN "ident again" ELSE "failed"
          /\ UNCHANGED <<pDevice, uPacketLength, version>>
  /\ UNCHANGED <<tabletVars, line, opened, pfnParse, ioVars, stale>>

\* Which parser SerialInitWacom and SerialInitTabletPC install.
ParserFor ==
  CASE pDevice = "tpc" -> "TabletPC"
    [] pDevice = "V" -> "V"
    [] OTHER ->
         IF version[1] # 1 THEN pfnParse
         ELSE IF version[2] >= 4 THEN "IV_1_4"
         ELSE IF version[2] = 3 THEN "IV_1_3" ELSE "IV_1_2"

Tilts == pDevice = "IV" /\ version[1] = 1 /\ version[2] >= 4

\* pfnInit: "~C" and, for tilt mode, "FM1" may fail.
InitTablet ==
  /\ pc = "init"
  /\ \/ /\ pc' = "start"
        /\ pfnParse' = ParserFor /\ tilt' = Tilts
        /\ uPacketLength' = IF Tilts THEN 9 ELSE uPacketLength
     \/ pc' = "failed" /\ pDevice # "tpc" /\ UNCHANGED <<pfnParse, tilt, uPacketLength>>
  /\ UNCHANGED <<kind, pen, running, line, opened, pDevice, version, ioVars, stale>>

\* SerialSendStart, whose result is ignored.  main sets up uinput after it.
Start ==
  /\ pc = "start" /\ pc' = "read"
  /\ running' \in BOOLEAN
  /\ opened' = TRUE
  /\ UNCHANGED <<kind, pen, tilt, line, setupVars, ioVars, stale>>

\* WacomOpenTablet returns NULL and main dies, or SerialReadRaw reads on.
ResetFails ==
  /\ pc = "failed"
  /\ \/ opened /\ pc' = "read" /\ UNCHANGED line
     \/ ~opened /\ pc' = "exit" /\ line' = <<>>
  /\ UNCHANGED <<tabletVars, opened, setupVars, ioVars, stale>>

-----------------------------------------------------------------------------
(* The parsers: the state after packet p, or Refused.                      *)

Refused == [prox |-> FALSE, tool |-> "refused", press |-> 0, buttons |-> {}]

ToolOf == [pen |-> "PEN", eraser |-> "ERASER", airbrush |-> "AIRBRUSH", mouse |-> "MOUSE"]

\* Mutant: "out" only ends the proximity.
OutKeeping == [state EXCEPT !.prox = FALSE]

\* The memset of all values.
Out == Nothing

\* SerialParseWacomV.  A mouse packet keeps the pen's buttons and pressure.
ParseV(p) ==
  CASE p.code = "in" -> [state EXCEPT !.prox = TRUE, !.tool = ToolOf[p.tool]]
    [] p.code = "out" -> Out
    [] p.code = "pen" ->
         LET press == p.p5 * 128 + p.p6 IN
         [state EXCEPT !.press = press,
                       !.buttons = If(press > 10, "TOUCH")
                                     \cup If(p.switch # "none", p.switch)]
    [] p.code = "air" -> [state EXCEPT !.press = 0, !.buttons = {}]
    [] p.code = "mouse" -> state
    [] OTHER -> Refused

EightBits(p) == (p.p6 % 64) * 2 + p.low + (IF p.p6 >= 64 THEN 0 ELSE 128)

\* Mutant: the tool is chosen anew by each packet.
ToolAnew(p) == IF p.eraser THEN "ERASER" ELSE "PEN"

\* "if entering proximity, choose eraser or stylus2 for bit"
ToolKept(p) ==
  IF state.prox THEN state.tool ELSE IF p.eraser THEN "ERASER" ELSE "PEN"

\* SerialParseWacomIV_1_3
ParseIV_1_3(p) ==
  LET tool == IF p.stylus THEN ToolKept(p) ELSE "MOUSE"
      press == EightBits(p)
  IN IF ~p.prox THEN Nothing
     ELSE [prox |-> TRUE, tool |-> tool, press |-> press,
           buttons |-> If(p.stylus /\ press > 10, "TOUCH")
                         \cup If(tool = "PEN" /\ p.side, "STYLUS")
                         \cup If(tool = "PEN" /\ p.eraser, "STYLUS2")]

\* The pressure of versions up to 1.2
Pressure(p) ==
  IF version[2] = 2 THEN EightBits(p) ELSE (p.p6 % 64) + (IF p.p6 >= 64 THEN 0 ELSE 64)

\* SerialParseWacomIV_1_2
ParseIV_1_2(p) ==
  IF ~p.prox THEN Nothing
  ELSE [prox |-> TRUE, tool |-> IF p.stylus THEN "PEN" ELSE "MOUSE",
        press |-> Pressure(p),
        buttons |-> If(p.stylus /\ Pressure(p) > 10, "TOUCH")
                      \cup If(p.stylus /\ p.side, "STYLUS")]

\* SerialParseTabletPC
ParseTabletPC(p) ==
  IF ~p.prox THEN Nothing
  ELSE [prox |-> TRUE, tool |-> IF p.eraser THEN "ERASER" ELSE "PEN",
        press |-> (p.p6 % 2) * 128 + p.p5,
        buttons |-> If(p.touch, "TOUCH") \cup If(~p.eraser /\ p.side, "STYLUS")]

\* pfnParse, with the length that each parser accepts.
Parsed(p) ==
  CASE pfnParse = "V" /\ p.length = 9 -> ParseV(p)
    [] pfnParse = "IV_1_4" -> ParseIV_1_3(p)
    [] pfnParse = "IV_1_3" /\ p.length = 7 -> ParseIV_1_3(p)
    [] pfnParse = "IV_1_2" /\ p.length = 7 -> ParseIV_1_2(p)
    [] pfnParse = "TabletPC" /\ p.length = 9 -> ParseTabletPC(p)
    [] OTHER -> Refused

-----------------------------------------------------------------------------
(* SerialReadRaw, SerialParseData and the loop of main.                    *)

\* "check for errors, reset after 3"
ResetAfterErrors ==
  /\ pc = "read" /\ nBitErrors > 3
  /\ nBitErrors' = 0
  /\ pc' = "find"
  /\ UNCHANGED <<tabletVars, line, faults, opened, setupVars, state, touch, stale>>

\* What an intact packet brings up to date.
Brings(p) ==
  CASE p.code = "in" -> {"prox", "tool"}
    [] p.code = "pen" -> {"press"}
    [] p.code \in {"air", "mouse"} -> {}
    [] p.code = "out" -> All
    [] p.code = "tpc" -> All
    [] OTHER -> IF p.prox /\ kind.minor > 2 THEN {"prox", "press"} ELSE All

\* Mutant: the result of WacomParseData is not looked at.
AcceptedAlways(s) == TRUE

Accepted(s) == s # Refused

\* The BTN_TOUCH that main reports.
Report(s) == s.prox /\ s.press > minPress

\* A packet of another length than is read does not keep its high bits.
Receive ==
  /\ pc = "read" /\ nBitErrors <= 3 /\ line # <<>>
  /\ Head(line).length = uPacketLength
  /\ line' = Tail(line)
  /\ nBitErrors' = 0
  /\ stale' = stale \ Brings(Head(line))
  /\ LET s == Parsed(Head(line)) IN
     IF Accepted(s) THEN state' = s /\ touch' = Report(s)
     ELSE UNCHANGED <<state, touch>>
  /\ UNCHANGED <<tabletVars, faults, pc, opened, setupVars>>

ReceiveGarbled ==
  /\ pc = "read" /\ nBitErrors <= 3 /\ line # <<>>
  /\ \/ Head(line).length # uPacketLength /\ UNCHANGED faults
     \/ faults < MaxFaults /\ faults' = faults + 1
  /\ line' = Tail(line)
  /\ nBitErrors' = nBitErrors + 1
  /\ stale' = All
  /\ UNCHANGED <<tabletVars, pc, opened, setupVars, state, touch>>

PacketIsLost ==
  /\ line # <<>>
  /\ faults < MaxFaults /\ faults' = faults + 1
  /\ line' = Tail(line)
  /\ stale' = All
  /\ UNCHANGED <<tabletVars, progVars>>

\* SIGINT: the handler destroys the input device, closes the tablet, which
\* sends on, and exits.
Interrupted ==
  /\ pc = "read" /\ pc' = "exit"
  /\ touch' = FALSE
  /\ line' = <<>>
  /\ UNCHANGED <<tabletVars, faults, opened, setupVars, nBitErrors, state, stale>>

-----------------------------------------------------------------------------

Reset ==
  \/ SetDevice \/ ConfigTTY \/ IdentTabletPC \/ IdentWacom \/ InitTablet
  \/ Start \/ ResetFails

Next ==
  \/ PenMoves \/ TabletRepeats \/ PacketIsLost
  \/ Reset
  \/ ResetAfterErrors \/ Receive \/ ReceiveGarbled \/ Interrupted

Spec == Init /\ [][Next]_vars

-----------------------------------------------------------------------------

TypeOK ==
  /\ kind \in Tablets /\ running \in BOOLEAN /\ tilt \in BOOLEAN
  /\ pen # Away => pen.tool \in Tools /\ pen.press \in Presses(pen.tool)
  /\ Len(line) <= LineSize /\ faults \in 0 .. MaxFaults
  /\ pc \in {"find", "config", "ident", "ident again", "init", "start", "failed",
            "read", "exit"}
  /\ opened \in BOOLEAN /\ (pc = "read" => opened)
  /\ pDevice \in {"NULL", "IV", "V", "tpc"} /\ version \in Nat \X Nat
  /\ uPacketLength \in {0, 7, 9}
  /\ pfnParse \in {"NULL", "V", "IV_1_4", "IV_1_3", "IV_1_2", "TabletPC"}
  /\ nBitErrors \in 0 .. 4
  /\ state.press \in 0 .. MaxPressure /\ state.tool # "refused"
  /\ touch \in BOOLEAN /\ stale \subseteq All

\* Protocol IV is parsed in the versions 1.x only.
Supported == kind.protocol = "IV" => kind.major = 1

(***************************************************************************)
(* BTN_TOUCH follows the pen: once the program has read what the tablet    *)
(* sent, a touch is reported if and only if the pen presses harder than    *)
(* minPress, for every model, over resets and garbled packets.  A lost     *)
(* packet is made up for by the next one of its kind.  Exempt is the       *)
(* airbrush, whose second packet reports no pressure.                      *)
(***************************************************************************)
TouchFollows ==
  /\ Supported /\ pc # "exit" /\ line = <<>>
  /\ {"prox", "press"} \cap stale = {}
  /\ pen # Away => pen.tool # "airbrush"
  => touch = (pen # Away /\ pen.press > minPress)

\* Eraser and second switch share a bit: on a Tablet PC always, in 1.3 and
\* 1.4 of protocol IV when the pen comes near.
Ambiguous ==
  IF kind.protocol = "tpc" THEN pen.switch = "STYLUS2"
  ELSE kind.protocol = "IV" /\ kind.minor > 2 /\ pen.odd

\* Versions of protocol IV before 1.3 have one switch.
Reported ==
  {"STYLUS"} \cup If(kind.protocol # "IV" \/ kind.minor > 2, "STYLUS2")

(***************************************************************************)
(* The tool that the state names is the one on the tablet, with the switch *)
(* that is held, as long as no packet of its stay was lost: a second       *)
(* switch does not turn a pen into an eraser, nor does the tool that was   *)
(* there before stay on.                                                   *)
(***************************************************************************)
ToolFollows ==
  /\ Supported /\ pc # "exit" /\ line = <<>> /\ stale = {}
  /\ pen # Away /\ ~Ambiguous
  => /\ state.prox /\ state.tool = ToolOf[pen.tool]
     /\ state.buttons \cap {"STYLUS", "STYLUS2"} = {pen.switch} \cap Reported

=============================================================================
