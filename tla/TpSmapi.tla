------------------------------- MODULE TpSmapi ------------------------------
(***************************************************************************)
(* src/tp_smapi/tp_smapi.c but for the thresholds (module SmapiThresh):    *)
(* tp_init with its unwinding and tp_exit, and meanwhile the attributes    *)
(* inhibit_charge_minutes and force_discharge, which ask the firmware      *)
(* twice, smapi_request, which makes any call, and those that show the     *)
(* EC's battery rows, which take two transactions.  No lock covers both.   *)
(*                                                                         *)
(* One battery and one of the two controls, which share nothing.  A call   *)
(* to the firmware is a step; its retries and errors are in SmapiThresh.   *)
(***************************************************************************)
EXTENDS BatteryRow, Sequences

CONSTANTS
  Tasks,        \* processes that use the attributes
  Minutes,      \* what they store in inhibit_charge_minutes
  MaxMinutes,   \* 0xFFFF in the code
  Readings,     \* what a battery measures: records of voltage and current
  Empty         \* no battery in the slot

ASSUME SmapiAssumption ==
  /\ Minutes \subseteq Nat /\ MaxMinutes \in Nat \ {0}
  /\ Readings \subseteq [voltage : Word, current : Word]
  /\ Empty \notin Readings

VARIABLES
  loader, undo, held, twice,   \* as in HdapsDevice
  call,       \* the attribute call of each task
  which,      \* the charging control that is used
  control,    \* what the firmware keeps for it
  wanted,     \* history: the last value stored in it, and the last state of
              \* the bits that are the firmware's own
  slot        \* what the battery slot contains

loadVars == <<loader, undo, held, twice>>
controlVars == <<which, control, wanted>>
vars == <<loader, undo, held, twice, call, which, control, wanted, slot>>

Controls == {"inhibit", "force"}
Idle == [op |-> "none"]

Groups == <<"root", "bat0", "bat1">>

\* What tp_init acquires, in its order.
Steps == <<"port1", "port2", "driver", "device", "added">> \o Groups

Init ==
  /\ loader = "out" /\ undo = <<>> /\ held = {} /\ twice = {}
  /\ call = [t \in Tasks |-> Idle]
  /\ which \in Controls
  /\ control = [value |-> 0, able |-> TRUE, bits |-> FALSE]
  /\ wanted = [value |-> 0, bits |-> FALSE]
  /\ slot \in Readings \cup {Empty}

Begins(t, group, c) ==
  /\ call[t] = Idle /\ group \in held
  /\ call' = [call EXCEPT ![t] = c]

Ends(t) == call' = [call EXCEPT ![t] = Idle]

-----------------------------------------------------------------------------
(* inhibit_charge_minutes and force_discharge.                             *)

Inputs == IF which = "inhibit" THEN Minutes ELSE {0, 1}

StoreControl(t, v) ==
  /\ Begins(t, "bat0", [op |-> "get", value |-> v])
  /\ UNCHANGED <<loadVars, controlVars, slot>>

\* Mutant: the firmware's own bits are not looked at.
KeptNone == FALSE

\* ecx&0x00FE and ecx&0x000000FA
Kept == control.bits

\* "verify read before writing": the call fails, the control is not to be
\* had, or its other bits are taken over.
GetControl(t) ==
  /\ call[t].op = "get"
  /\ \/ Ends(t)
     \/ /\ control.able
        /\ call' = [call EXCEPT ![t] =
                      [op |-> "set", value |-> @.value, bits |-> Kept, alone |-> TRUE]]
  /\ UNCHANGED <<loadVars, controlVars, slot>>

\* Mutant: the minutes are not limited.
WrittenWhole(v) == v

Written(v) == IF which = "inhibit" /\ v > MaxMinutes THEN MaxMinutes ELSE v

\* The bits that tasks have read are no longer the latest.
Overtaken ==
  [u \in Tasks |-> IF call[u].op = "set" THEN [call[u] EXCEPT !.alone = FALSE]
                   ELSE call[u]]

\* The second call, which may fail.
SetControl(t) ==
  /\ call[t].op = "set"
  /\ LET others == IF call[t].alone THEN call ELSE Overtaken
     IN \/ Ends(t) /\ UNCHANGED <<control, wanted>>
        \/ /\ control' = [control EXCEPT !.value = Written(call[t].value),
                                         !.bits = call[t].bits]
           /\ wanted' = [value |-> call[t].value,
                         bits |-> IF call[t].alone THEN wanted.bits ELSE call[t].bits]
           /\ call' = [others EXCEPT ![t] = Idle]
  /\ UNCHANGED <<loadVars, which, slot>>

\* The control changes, and with it what the tasks should find in it.
Changes(value, able, bits) ==
  /\ control' = [value |-> value, able |-> able, bits |-> bits]
  /\ wanted' = [value |-> value, bits |-> bits]
  /\ call' = Overtaken
  /\ UNCHANGED <<loadVars, which, slot>>

\* The firmware changes its own bits, and whether the control is to be had.
FirmwareChanges ==
  \E able, bits \in BOOLEAN : Changes(control.value, able, bits)

\* store_smapi_request may make any call.
RawRequest(t) ==
  /\ call[t] = Idle /\ "root" \in held
  /\ \E v \in {0, 1}, bits \in BOOLEAN : Changes(v, control.able, bits)

-----------------------------------------------------------------------------
(* The battery attributes.                                                 *)

\* The EC's answer to row 1; all zero when the slot is empty.
Row(s) ==
  [i \in RowBytes |->
     IF s = Empty THEN 0
     ELSE CASE i = 0 -> 64
            [] i = 1 -> 208
            [] i = 6 -> s.voltage % 256 [] i = 7 -> s.voltage \div 256
            [] i = 8 -> s.current % 256 [] i = 9 -> s.current \div 256
            [] OTHER -> 0]

Shown(a, row) ==
  CASE a = "voltage" -> Unsigned(a, row)
    [] a = "current_now" -> Signed(a, row)
    [] a = "power_now" -> Power(a, row)

ShowBattery(t, a) ==
  /\ Begins(t, "bat0", [op |-> "check", attr |-> a])
  /\ UNCHANGED <<loadVars, controlVars, slot>>

Seeing(t) ==
  call' = [call EXCEPT ![t] = [op |-> "row", attr |-> @.attr, seen |-> {slot}]]

\* Mutant: an error counts as yes.
CheckStatusNotZero(t) ==
  /\ call[t].op = "check"
  /\ Ends(t) \/ Seeing(t)
  /\ UNCHANGED <<loadVars, controlVars, slot>>

\* bat_has_status: anything but 1 ends the call, an error too.
CheckStatus(t) ==
  /\ call[t].op = "check"
  /\ \/ Ends(t)
     \/ HasStatus(0, Row(slot)) /\ Seeing(t)
  /\ UNCHANGED <<loadVars, controlVars, slot>>

\* read_tp_ec_row once more, and the conversion.
ReadRow(t) ==
  /\ call[t].op = "row"
  /\ \/ Ends(t)
     \/ call' = [call EXCEPT ![t] =
                   [op |-> "shown", attr |-> @.attr, seen |-> @.seen,
                    value |-> Shown(@.attr, Row(slot))]]
  /\ UNCHANGED <<loadVars, controlVars, slot>>

Return(t) ==
  /\ call[t].op = "shown" /\ Ends(t)
  /\ UNCHANGED <<loadVars, controlVars, slot>>

\* The battery is removed or replaced, or measures something else.
SlotChanges ==
  /\ slot' \in (Readings \cup {Empty}) \ {slot}
  /\ call' = [u \in Tasks |->
                IF call[u].op = "row" THEN [call[u] EXCEPT !.seen = @ \cup {slot'}]
                ELSE call[u]]
  /\ UNCHANGED <<loadVars, controlVars>>

-----------------------------------------------------------------------------
(* Loading and unloading.                                                  *)

\* How many of the steps have acquired something: those before the next one.
Acquired ==
  CHOOSE n \in 0 .. Len(Steps) - 1 :
    Steps[n + 1] \notin held /\ \A i \in 1 .. n : Steps[i] \in held

\* The labels at the end of tp_init; err_attr first removes the groups.
Unwinding == <<"unregister device", "put device", "driver", "port2", "port1">>

\* Groups n, n-1, ..., 1
GroupsFrom(n) == [i \in 1 .. n |-> Groups[n + 1 - i]]

\* Mutant: the loop over the groups stops one early.
UndoLess(n) ==
  IF n < 6 THEN SubSeq(Unwinding, IF n = 5 THEN 1 ELSE 6 - n, 5)
  ELSE GroupsFrom(n - 6) \o Unwinding

\* What is undone when the step after n others fails.
Undo(n) ==
  IF n < 5 THEN SubSeq(Unwinding, 6 - n, 5) ELSE GroupsFrom(n - 5) \o Unwinding

Exit == GroupsFrom(3) \o <<"unregister device", "driver", "port2", "port1">>

Load ==
  /\ loader = "out" /\ loader' = "loading"
  /\ UNCHANGED <<undo, held, twice, call, controlVars, slot>>

Acquire ==
  /\ loader = "loading"
  /\ held' = held \cup {Steps[Acquired + 1]}
  /\ loader' = IF Acquired + 1 = Len(Steps) THEN "loaded" ELSE "loading"
  /\ UNCHANGED <<undo, twice, call, controlVars, slot>>

AcquireFails ==
  /\ loader = "loading" /\ loader' = "leaving"
  /\ undo' = Undo(Acquired)
  /\ UNCHANGED <<held, twice, call, controlVars, slot>>

Unload ==
  /\ loader = "loaded" /\ loader' = "leaving"
  /\ undo' = Exit
  /\ UNCHANGED <<held, twice, call, controlVars, slot>>

Releases(s) ==
  CASE s = "unregister device" -> {"added", "device"}
    [] s = "put device" -> {"device"}
    [] OTHER -> {s}

\* The removal of a group waits for the calls of its attributes.
Release ==
  /\ loader = "leaving" /\ undo # <<>>
  /\ Head(undo) = "bat0" => \A t \in Tasks : call[t] = Idle
  /\ undo' = Tail(undo)
  /\ held' = held \ Releases(Head(undo))
  /\ twice' = twice \cup (Releases(Head(undo)) \ held)
  /\ UNCHANGED <<loader, call, controlVars, slot>>

Left ==
  /\ loader = "leaving" /\ undo = <<>>
  /\ loader' = "out"
  /\ UNCHANGED <<undo, held, twice, call, controlVars, slot>>

-----------------------------------------------------------------------------

Next ==
  \/ \E t \in Tasks :
       \/ \E v \in Inputs : StoreControl(t, v)
       \/ GetControl(t) \/ SetControl(t) \/ RawRequest(t)
       \/ \E a \in {"voltage", "current_now", "power_now"} : ShowBattery(t, a)
       \/ CheckStatus(t) \/ ReadRow(t) \/ Return(t)
  \/ FirmwareChanges
  \/ SlotChanges
  \/ Load \/ Acquire \/ AcquireFails \/ Unload \/ Release \/ Left

Spec == Init /\ [][Next]_vars

-----------------------------------------------------------------------------

TypeOK ==
  /\ loader \in {"out", "loading", "loaded", "leaving"}
  /\ undo \in Seq({Unwinding[i] : i \in DOMAIN Unwinding} \cup {Groups[i] : i \in 1 .. 3})
  /\ held \subseteq {Steps[i] : i \in DOMAIN Steps}
  /\ twice \subseteq {Steps[i] : i \in DOMAIN Steps}
  /\ \A t \in Tasks :
       call[t].op \in {"none", "get", "set", "check", "row", "shown"}
  /\ which \in Controls
  /\ control \in [value : 0 .. MaxMinutes, able : BOOLEAN, bits : BOOLEAN]
  /\ wanted \in [value : Nat, bits : BOOLEAN]
  /\ slot \in Readings \cup {Empty}

\* Nothing stays acquired, and only the platform device is given back twice,
\* when an attribute group cannot be created: unregistered, and put again.
NothingHeld == (loader = "out" => held = {}) /\ twice \subseteq {"device"}

\* While a task is in an attribute, or may enter one, the device is there and
\* the ports of the SMI are the driver's.
PortsHeld ==
  (\E t \in Tasks : call[t] # Idle) \/ (\E i \in 1 .. 3 : Groups[i] \in held)
    => {"port1", "port2", "driver", "device", "added"} \subseteq held

(***************************************************************************)
(* Whichever step of tp_init fails, and in tp_exit, everything is given    *)
(* back, once, and never before the attributes that use it are gone.       *)
(***************************************************************************)
LeavesNothing == NothingHeld /\ PortsHeld

(***************************************************************************)
(* A charging control has the value last stored with success, the greatest *)
(* the register has room for when it was greater, and the firmware's bits  *)
(* in the same word are as the firmware or a raw call last set them,       *)
(* unless they changed between the two calls of a store, which puts the    *)
(* old ones back.                                                          *)
(***************************************************************************)
ControlsKept ==
  /\ control.bits = wanted.bits
  /\ control.value =
       IF wanted.value > MaxMinutes THEN MaxMinutes ELSE wanted.value

(***************************************************************************)
(* What a battery attribute shows was measured, all of it at one instant,  *)
(* by a battery that was in the slot in the course of the call, although   *)
(* the presence and the value come from two transactions of the EC.        *)
(* Exempt is a battery removed between the two, whose zeros are shown.     *)
(***************************************************************************)
ShowsABattery ==
  \A t \in Tasks :
    call[t].op = "shown" =>
      /\ call[t].seen # {Empty}
      /\ \E s \in call[t].seen : call[t].value = Shown(call[t].attr, Row(s))

=============================================================================
