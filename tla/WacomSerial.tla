----------------------------- MODULE WacomSerial ----------------------------
(***************************************************************************)
(* How src/wacom/wacserial.c keeps in step with a serial tablet: packets   *)
(* of uPacketLength bytes, of which only the first has its high bit set,   *)
(* arrive over a line that may lose bytes, and read returns them in pieces *)
(* of any size.  SerialReadRaw looks for the high bit, SerialParseData     *)
(* checks all of them, and after too many errors the tablet is reset.      *)
(*                                                                         *)
(* A byte is named by the packet it belongs to and its place in it; the    *)
(* packets are numbered modulo PacketIds.                                  *)
(***************************************************************************)
EXTENDS Naturals, Sequences

CONSTANTS
  PacketLength,  \* uPacketLength
  PacketIds,     \* packets told apart
  TTYSize,       \* bytes the tty holds before it stops the tablet (IXOFF)
  MaxLost,       \* bytes that get lost in a behaviour
  MaxCut         \* packets that a time limit cuts off in a behaviour

ASSUME PacketAssumption ==
  /\ PacketLength \in Nat \ {0} /\ PacketIds \in Nat \ {0}
  /\ TTYSize \in Nat \ {0} /\ MaxLost \in Nat /\ MaxCut \in Nat

VARIABLES
  sending,     \* the tablet sends packets: between "ST" and "SP"
  id,          \* the packet it is sending
  next,        \* ... and the byte of it that comes next
  tty,         \* bytes in the tty
  lost,        \* bytes lost so far
  cut,         \* packets cut off so far
  phase,       \* where the reading process is
  buf,         \* what SerialReadRaw has collected
  bitErrors,   \* nBitErrors
  last,        \* history: the number of the last packet accepted
  flushed      \* history: the tablet was reset since then

senderVars == <<sending, id, next>>
histVars == <<last, flushed>>
serialVars == <<sending, id, next, tty, lost, cut, phase, buf, bitErrors, last, flushed>>

Bytes == [id : 0 .. PacketIds - 1, at : 0 .. PacketLength - 1]
High(b) == b.at = 0

SerialInit ==
  /\ sending = TRUE
  /\ id = 0 /\ next = 0
  /\ tty = <<>> /\ lost = 0 /\ cut = 0
  /\ phase = "check" /\ buf = <<>>
  /\ bitErrors = 0
  /\ last = PacketIds - 1 /\ flushed = FALSE

-----------------------------------------------------------------------------
(* The tablet.                                                             *)

Advance ==
  /\ next' = (next + 1) % PacketLength
  /\ id' = IF next + 1 = PacketLength THEN (id + 1) % PacketIds ELSE id
  /\ UNCHANGED sending

TabletSends ==
  /\ sending /\ Len(tty) < TTYSize
  /\ tty' = Append(tty, [id |-> id, at |-> next])
  /\ Advance
  /\ UNCHANGED <<lost, cut, phase, buf, bitErrors, histVars>>

ByteIsLost ==
  /\ sending /\ Len(tty) < TTYSize
  /\ lost < MaxLost
  /\ lost' = lost + 1
  /\ Advance
  /\ UNCHANGED <<tty, cut, phase, buf, bitErrors, histVars>>

-----------------------------------------------------------------------------
(* SerialReadRaw.                                                          *)

\* "check for errors, reset after 3"
CheckErrors ==
  /\ phase = "check"
  /\ buf' = <<>>
  /\ \/ /\ bitErrors > 3
        /\ bitErrors' = 0
        /\ phase' = "reset"
     \/ /\ bitErrors <= 3
        /\ phase' = "read"
        /\ UNCHANGED bitErrors
  /\ UNCHANGED <<senderVars, tty, lost, cut, histVars>>

\* The place of the first high bit among the first n bytes of s, or n + 1.
FirstHigh(s, n) ==
  CHOOSE i \in 1 .. n + 1 :
    /\ i <= n => High(s[i])
    /\ \A j \in 1 .. i - 1 : ~High(s[j])

\* Mutant: nothing but a whole packet is taken, and one that does not begin
\* with the high bit is dropped.
ReadWholePackets(n) ==
  LET whole == SubSeq(tty, 1, n) IN
  /\ phase = "read"
  /\ n = PacketLength /\ n <= Len(tty)
  /\ buf' = IF High(whole[1]) THEN whole ELSE <<>>
  /\ tty' = SubSeq(tty, n + 1, Len(tty))
  /\ phase' = IF High(whole[1]) THEN "parse" ELSE "read"
  /\ UNCHANGED <<senderVars, lost, cut, bitErrors, histVars>>

\* Mutant: each read asks for a whole packet.
ReadTooMuch(n) ==
  LET whole == buf \o SubSeq(tty, 1, n)
      kept == SubSeq(whole, FirstHigh(whole, n), Len(whole))
  IN
  /\ phase = "read"
  /\ n <= Len(tty)
  /\ buf' = kept
  /\ tty' = SubSeq(tty, n + 1, Len(tty))
  /\ bitErrors' = IF kept = whole THEN bitErrors ELSE bitErrors + 1
  /\ phase' = IF Len(kept) >= PacketLength THEN "parse" ELSE "read"
  /\ UNCHANGED <<senderVars, lost, cut, histVars>>

\* read returns n bytes.  The high bit is searched in the n bytes from the
\* start of the buffer, wherever the new ones were put.
Read(n) ==
  LET whole == buf \o SubSeq(tty, 1, n)
      kept == SubSeq(whole, FirstHigh(whole, n), Len(whole))
  IN
  /\ phase = "read"
  /\ n <= Len(tty) /\ Len(buf) + n <= PacketLength
  /\ buf' = kept
  /\ tty' = SubSeq(tty, n + 1, Len(tty))
  /\ bitErrors' = IF kept = whole THEN bitErrors ELSE bitErrors + 1
  /\ phase' = IF Len(kept) = PacketLength THEN "parse" ELSE "read"
  /\ UNCHANGED <<senderVars, lost, cut, histVars>>

\* select times out; the process calls again.  The tablet pauses only
\* between packets, when the pen is away; but the half second is for all of
\* the call, as Linux counts it down, and may end in the packet that follows.
Timeout ==
  /\ phase = "read" /\ tty = <<>>
  /\ IF next = 0 \/ ~sending THEN UNCHANGED cut ELSE cut < MaxCut /\ cut' = cut + 1
  /\ phase' = "check"
  /\ UNCHANGED <<senderVars, tty, lost, buf, bitErrors, histVars>>

-----------------------------------------------------------------------------
(* SerialParseData.                                                        *)

\* Mutant: only the first byte is checked.
SynchronizedAtFirst(p) == High(p[1])

Synchronized(p) ==
  /\ High(p[1])
  /\ \A i \in 2 .. Len(p) : ~High(p[i])

\* Mutant: an error also throws away what the tty holds.
ParseAndFlush ==
  /\ phase = "parse"
  /\ phase' = "check"
  /\ \/ /\ Synchronized(buf)
        /\ bitErrors' = 0
        /\ last' = buf[1].id
        /\ flushed' = FALSE
        /\ UNCHANGED tty
     \/ /\ ~Synchronized(buf)
        /\ bitErrors' = bitErrors + 1
        /\ tty' = <<>>
        /\ UNCHANGED histVars
  /\ UNCHANGED <<senderVars, lost, cut, buf>>

Parse ==
  /\ phase = "parse"
  /\ phase' = "check"
  /\ \/ /\ Synchronized(buf)
        /\ bitErrors' = 0
        /\ last' = buf[1].id
        /\ flushed' = FALSE
     \/ /\ ~Synchronized(buf)
        /\ bitErrors' = bitErrors + 1
        /\ UNCHANGED histVars
  /\ UNCHANGED <<senderVars, tty, lost, cut, buf>>

-----------------------------------------------------------------------------
(* SerialReset; the caller ignores its result.                             *)

\* SerialConfigTTY: reset, stop and flush; the first two may fail.
SerialConfigTTY ==
  /\ phase = "reset"
  /\ sending' \in {sending, FALSE}
  /\ \/ sending' /\ phase' = "given up" /\ UNCHANGED <<id, next, tty, flushed>>
     \/ /\ ~sending'
        /\ next' = 0
        /\ id' = IF next = 0 THEN id ELSE (id + 1) % PacketIds
        /\ flushed' = TRUE
        /\ \/ tty' = <<>> /\ phase' = "ident"
           \/ phase' = "given up" /\ UNCHANGED tty
  /\ UNCHANGED <<lost, cut, buf, bitErrors, last>>

\* pfnIdent, which SerialIdentWacom tries once more when it times out.
Ident ==
  /\ \/ phase = "ident" /\ phase' \in {"init", "ident again", "given up"}
     \/ phase = "ident again" /\ phase' \in {"init", "given up"}
  /\ UNCHANGED <<senderVars, tty, lost, cut, buf, bitErrors, histVars>>

\* Mutant: the tablet is not started again.
InitOnly ==
  /\ phase = "init"
  /\ phase' = "read"
  /\ UNCHANGED <<senderVars, tty, lost, cut, buf, bitErrors, histVars>>

\* pfnInit and SerialSendStart.
InitAndStart ==
  /\ phase = "init"
  /\ sending' \in BOOLEAN
  /\ phase' = IF sending' THEN "read" ELSE "given up"
  /\ UNCHANGED <<id, next, tty, lost, cut, buf, bitErrors, histVars>>

\* SerialReadRaw reads on, whatever the reset has left of the tablet.
ReadOn ==
  /\ phase = "given up"
  /\ phase' = "read"
  /\ UNCHANGED <<senderVars, tty, lost, cut, buf, bitErrors, histVars>>

-----------------------------------------------------------------------------

Reader ==
  \/ CheckErrors \/ Timeout \/ Parse
  \/ \E n \in 1 .. PacketLength : Read(n)
  \/ SerialConfigTTY \/ Ident \/ InitAndStart \/ ReadOn

SerialNext == TabletSends \/ ByteIsLost \/ Reader

SerialSpec == SerialInit /\ [][SerialNext]_serialVars

\* The pen stays on the tablet, and the process reads.
Fairness == WF_serialVars(TabletSends) /\ WF_serialVars(Reader)

FairSpec == SerialSpec /\ Fairness

-----------------------------------------------------------------------------

SerialTypeOK ==
  /\ sending \in BOOLEAN
  /\ id \in 0 .. PacketIds - 1 /\ next \in 0 .. PacketLength - 1
  /\ tty \in Seq(Bytes) /\ Len(tty) <= TTYSize
  /\ lost \in 0 .. MaxLost /\ cut \in 0 .. MaxCut
  /\ phase \in {"check", "read", "parse", "reset", "ident", "ident again", "init",
            "given up"}
  /\ buf \in Seq(Bytes) /\ Len(buf) <= PacketLength
  /\ bitErrors \in Nat
  /\ last \in 0 .. PacketIds - 1 /\ flushed \in BOOLEAN

Whole(p) == \A i \in 1 .. Len(p) : p[i] = [id |-> p[1].id, at |-> i - 1]

(***************************************************************************)
(* A packet glued together from the beginning of one and the end of        *)
(* another is not parsed, unless two bytes or more were lost.              *)
(***************************************************************************)
NoMixedPacket ==
  phase = "parse" /\ Synchronized(buf) /\ lost < 2 => Whole(buf)

\* The packets that went by between two accepted ones.
Missed(p) == (p[1].id + PacketIds - last - 1) % PacketIds

(***************************************************************************)
(* A lost byte costs the packet it was lost from and at most the one that  *)
(* follows, and the time limit the packet it cuts off, as long as the      *)
(* tablet is not reset.                                                    *)
(***************************************************************************)
LossIsLocal ==
  phase = "parse" /\ Synchronized(buf) /\ ~flushed => Missed(buf) <= 2 * lost + cut

(***************************************************************************)
(* After the last loss the reader finds its way back into step, by itself  *)
(* or by resetting the tablet, and goes on accepting packets; unless a     *)
(* reset fails, which may leave the tablet stopped for good.               *)
(***************************************************************************)
StaysInStep ==
  [](phase # "given up") => []<>(phase = "parse" /\ Synchronized(buf))

=============================================================================
