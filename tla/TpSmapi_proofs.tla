--------------------------- MODULE TpSmapi_proofs ---------------------------
(***************************************************************************)
(* The properties of TpSmapi for any tasks, any minutes and limit, and any *)
(* batteries: tp_init and tp_exit give everything back, once and in time,  *)
(* the charging controls keep what is not theirs to change, what an        *)
(* attribute shows was measured by a battery, and a power fits into an     *)
(* int.                                                                    *)
(***************************************************************************)
EXTENDS TpSmapi, SequenceTheorems, TLAPS

StepNames == {Steps[i] : i \in DOMAIN Steps}
UndoNames ==
  {Unwinding[i] : i \in DOMAIN Unwinding} \cup {Groups[i] : i \in 1 .. 3}

-----------------------------------------------------------------------------
(* Loading and unloading.                                                  *)

\* The j-th thing to do when everything is to be unwound, after a failure ...
Undoing(j) == IF j <= 3 THEN Groups[4 - j] ELSE Unwinding[j - 3]

\* ... and in tp_exit, which does not put the device.
Exiting(j) ==
  IF j <= 3 THEN Groups[4 - j]
  ELSE IF j = 4 THEN "unregister device" ELSE Unwinding[j - 2]

\* Exactly the first n steps of tp_init have acquired something.
Done(n) == \A i \in 1 .. 8 : Steps[i] \in held <=> i <= n

\* The same, but for the device once it is unregistered.
Remains(n) ==
  /\ \A i \in 1 .. 8 : Steps[i] \in held => i <= n
  /\ \A i \in 1 .. n : Steps[i] \in held \/ i = 4
  /\ n >= 5 => Steps[4] \in held

\* What is left to undo fits the n steps of which something is left.
UnwindsFrom(n) ==
  /\ Remains(n) /\ Len(undo) = n
  /\ \A i \in 1 .. n : undo[i] = Undoing(i + 8 - n)

ExitsFrom(n) ==
  /\ Remains(n) /\ Len(undo) = n - 1
  /\ \A i \in 1 .. n - 1 : undo[i] = Exiting(i + 8 - n)

LoaderInv ==
  /\ loader \in {"out", "loading", "loaded", "leaving"}
  /\ undo \in Seq(UndoNames)
  /\ held \subseteq StepNames
  /\ loader = "out" => held = {}
  /\ loader = "loading" => \E n \in 0 .. 7 : Done(n)
  /\ loader = "loaded" => held = StepNames
  /\ loader = "leaving" =>
       \/ \E n \in 0 .. 8 : UnwindsFrom(n)
       \/ \E n \in 5 .. 8 : ExitsFrom(n)
  /\ twice \subseteq {"device"}

\* All that have a call are in the first battery's group.
CallsInv == "bat0" \notin held => \A t \in Tasks : call[t] = Idle

-----------------------------------------------------------------------------
(* The attributes.                                                         *)

Attributes == {"voltage", "current_now", "power_now"}
Slots == Readings \cup {Empty}

\* A value that may be stored in control w, with room in the register or not.
Storable(v, w) == v \in Nat /\ (w = "force" => v \in {0, 1})

Gets == [op : {"get"}, value : Nat]
Sets == [op : {"set"}, value : Nat, bits : BOOLEAN, alone : BOOLEAN]
Checks == [op : {"check"}, attr : Attributes]
Rows == [op : {"row"}, attr : Attributes, seen : SUBSET Slots]

\* Call c fits control w whose own bits are bits, and what is in the slot: the
\* bits are the latest unless something came in between, and a row is read
\* only when a battery was seen.
CallFits(c, w, bits, s) ==
  \/ c = Idle
  \/ c \in Gets /\ Storable(c.value, w)
  \/ c \in Sets /\ Storable(c.value, w) /\ (c.alone => c.bits = bits)
  \/ c \in Checks
  \/ c \in Rows /\ s \in c.seen /\ c.seen # {Empty}
  \/ /\ c.op = "shown" /\ c.seen # {Empty}
     /\ \E m \in c.seen : c.value = Shown(c.attr, Row(m))

ControlInv ==
  /\ which \in Controls
  /\ control \in [value : 0 .. MaxMinutes, able : BOOLEAN, bits : BOOLEAN]
  /\ wanted \in [value : Nat, bits : BOOLEAN]
  /\ ControlsKept

AttributesInv ==
  /\ ControlInv
  /\ slot \in Slots
  /\ call = [t \in Tasks |-> call[t]]
  /\ \A t \in Tasks : CallFits(call[t], which, control.bits, slot)

SmapiInv == LoaderInv /\ CallsInv /\ AttributesInv

-----------------------------------------------------------------------------
(* The steps of tp_init and what unwinds them.                             *)

LEMMA GroupsAre ==
  /\ Groups \in Seq(UndoNames) /\ Len(Groups) = 3
  /\ Groups[1] = "root" /\ Groups[2] = "bat0" /\ Groups[3] = "bat1"
  /\ \A i \in 1 .. 3 : Groups[i] \in UndoNames
  <1>1. Len(Groups) = 3 /\ DOMAIN Groups = 1 .. 3
    BY DEF Groups
  <1>2. Groups[1] = "root" /\ Groups[2] = "bat0" /\ Groups[3] = "bat1"
    BY DEF Groups
  <1>3. Groups[1] \in UndoNames /\ Groups[2] \in UndoNames /\ Groups[3] \in UndoNames
    BY DEF UndoNames
  <1>4. Groups \in Seq(UndoNames)
    BY <1>3 DEF Groups
  <1>5. QED
    BY <1>1, <1>2, <1>3, <1>4 DEF UndoNames

LEMMA UnwindingIs ==
  /\ Unwinding \in Seq(UndoNames) /\ Len(Unwinding) = 5
  /\ Unwinding[1] = "unregister device" /\ Unwinding[2] = "put device"
  /\ Unwinding[3] = "driver" /\ Unwinding[4] = "port2" /\ Unwinding[5] = "port1"
  /\ \A i \in 1 .. 5 : Unwinding[i] \in UndoNames
  /\ {"unregister device", "put device", "driver", "port2", "port1"}
       \subseteq UndoNames
  <1>1. Len(Unwinding) = 5 /\ DOMAIN Unwinding = 1 .. 5
    BY DEF Unwinding
  <1>2. /\ Unwinding[1] = "unregister device" /\ Unwinding[2] = "put device"
        /\ Unwinding[3] = "driver" /\ Unwinding[4] = "port2" /\ Unwinding[5] = "port1"
    BY DEF Unwinding
  <1>3. \A i \in 1 .. 5 : Unwinding[i] \in UndoNames
    BY <1>1 DEF UndoNames
  <1>4. /\ Unwinding[1] \in UndoNames /\ Unwinding[2] \in UndoNames
        /\ Unwinding[3] \in UndoNames /\ Unwinding[4] \in UndoNames
        /\ Unwinding[5] \in UndoNames
    BY <1>3
  <1>5. {"unregister device", "put device", "driver", "port2", "port1"}
          \subseteq UndoNames
    BY <1>2, <1>4
  <1>6. Unwinding \in Seq(UndoNames)
    <2>1. Unwinding \in Seq({"unregister device", "put device", "driver",
                             "port2", "port1"})
      BY DEF Unwinding
    <2>2. QED
      BY <1>5, <2>1, SeqMonotonic
  <1>7. QED
    BY <1>1, <1>2, <1>3, <1>5, <1>6

LEMMA StepsAre ==
  /\ DOMAIN Steps = 1 .. 8 /\ Len(Steps) = 8
  /\ Steps[1] = "port1" /\ Steps[2] = "port2" /\ Steps[3] = "driver"
  /\ Steps[4] = "device" /\ Steps[5] = "added" /\ Steps[6] = "root"
  /\ Steps[7] = "bat0" /\ Steps[8] = "bat1"
  BY DEF Steps, Groups

LEMMA Numbers ==
  \A i \in 1 .. 8 :
    i = 1 \/ i = 2 \/ i = 3 \/ i = 4 \/ i = 5 \/ i = 6 \/ i = 7 \/ i = 8
  OBVIOUS

\* No step occurs twice.
LEMMA StepsDiffer ==
  ASSUME NEW i \in 1 .. 8, NEW j \in 1 .. 8, Steps[i] = Steps[j]
  PROVE  i = j
  <1> DEFINE At(s) ==
        IF s = "port1" THEN 1 ELSE IF s = "port2" THEN 2
        ELSE IF s = "driver" THEN 3 ELSE IF s = "device" THEN 4
        ELSE IF s = "added" THEN 5 ELSE IF s = "root" THEN 6
        ELSE IF s = "bat0" THEN 7 ELSE 8
  <1>1. ASSUME NEW n \in 1 .. 8
        PROVE  At(Steps[n]) = n
    <2>1. \/ n = 1 \/ n = 2 \/ n = 3 \/ n = 4 \/ n = 5 \/ n = 6 \/ n = 7 \/ n = 8
      BY Numbers
    <2>2. QED
      BY <2>1, StepsAre
  <1>2. QED
    BY <1>1

\* What is concatenated, and the end of a sequence.
LEMMA Concatenated ==
  ASSUME NEW u \in Seq(UndoNames), NEW v \in Seq(UndoNames)
  PROVE  /\ u \o v \in Seq(UndoNames) /\ Len(u \o v) = Len(u) + Len(v)
         /\ \A i \in 1 .. Len(u) + Len(v) :
              (u \o v)[i] = IF i <= Len(u) THEN u[i] ELSE v[i - Len(u)]
  OBVIOUS

LEMMA Suffix ==
  ASSUME NEW u \in Seq(UndoNames), NEW k \in 1 .. Len(u) + 1
  PROVE  /\ SubSeq(u, k, Len(u)) \in Seq(UndoNames)
         /\ Len(SubSeq(u, k, Len(u))) = Len(u) - k + 1
         /\ \A i \in 1 .. Len(u) - k + 1 :
              SubSeq(u, k, Len(u))[i] = u[i + k - 1]
  OBVIOUS

LEMMA GroupsReversed ==
  ASSUME NEW n \in 0 .. 3
  PROVE  /\ GroupsFrom(n) \in Seq(UndoNames) /\ Len(GroupsFrom(n)) = n
         /\ \A i \in 1 .. n : GroupsFrom(n)[i] = Groups[n + 1 - i]
  <1>1. \A i \in 1 .. n : n + 1 - i \in 1 .. 3
    OBVIOUS
  <1>2. \A i \in 1 .. n : Groups[n + 1 - i] \in UndoNames
    BY <1>1, GroupsAre
  <1>3. GroupsFrom(n) \in Seq(UndoNames) /\ Len(GroupsFrom(n)) = n
    BY <1>2 DEF GroupsFrom
  <1>4. QED
    BY <1>3 DEF GroupsFrom

\* What a failure after n steps undoes.
LEMMA UndoIs ==
  ASSUME NEW n \in 0 .. 7
  PROVE  /\ Undo(n) \in Seq(UndoNames) /\ Len(Undo(n)) = n
         /\ \A i \in 1 .. n : Undo(n)[i] = Undoing(i + 8 - n)
  <1>1. CASE n < 5
    <2>1. Undo(n) = SubSeq(Unwinding, 6 - n, 5)
      BY <1>1 DEF Undo
    <2>2. /\ SubSeq(Unwinding, 6 - n, 5) \in Seq(UndoNames)
          /\ Len(SubSeq(Unwinding, 6 - n, 5)) = n
          /\ \A i \in 1 .. n :
               SubSeq(Unwinding, 6 - n, 5)[i] = Unwinding[i + (6 - n) - 1]
      <3> DEFINE k == 6 - n
      <3>1. k \in 1 .. 6 /\ 5 - k + 1 = n
        BY <1>1
      <3> HIDE DEF k
      <3>2. k \in 1 .. Len(Unwinding) + 1
        <4>1. Len(Unwinding) = 5
          BY UnwindingIs
        <4>2. QED
          BY <3>1, <4>1
      <3>3. /\ SubSeq(Unwinding, k, Len(Unwinding)) \in Seq(UndoNames)
            /\ Len(SubSeq(Unwinding, k, Len(Unwinding))) = Len(Unwinding) - k + 1
            /\ \A i \in 1 .. Len(Unwinding) - k + 1 :
                 SubSeq(Unwinding, k, Len(Unwinding))[i] = Unwinding[i + k - 1]
        BY <3>2, UnwindingIs, Suffix
      <3>4. /\ SubSeq(Unwinding, k, 5) \in Seq(UndoNames)
            /\ Len(SubSeq(Unwinding, k, 5)) = n
            /\ \A i \in 1 .. n : SubSeq(Unwinding, k, 5)[i] = Unwinding[i + k - 1]
        BY <3>1, <3>3, UnwindingIs
      <3>5. QED
        BY <3>4 DEF k
    <2>3. \A i \in 1 .. n :
            ~(i + 8 - n <= 3) /\ (i + 8 - n) - 3 = i + (6 - n) - 1
      BY <1>1
    <2>4. QED
      BY <2>1, <2>2, <2>3 DEF Undoing
  <1>2. CASE n >= 5
    <2> DEFINE g == GroupsFrom(n - 5)
    <2>1. Undo(n) = g \o Unwinding
      BY <1>2 DEF Undo
    <2>2. /\ g \in Seq(UndoNames) /\ Len(g) = n - 5
          /\ \A i \in 1 .. n - 5 : g[i] = Groups[(n - 5) + 1 - i]
      <3>1. n - 5 \in 0 .. 3
        BY <1>2
      <3>2. QED
        BY <3>1, GroupsReversed
    <2> HIDE DEF g
    <2>3. /\ g \o Unwinding \in Seq(UndoNames) /\ Len(g \o Unwinding) = n
          /\ \A i \in 1 .. n :
               (g \o Unwinding)[i] = IF i <= n - 5 THEN g[i] ELSE Unwinding[i - (n - 5)]
      <3>1. /\ g \o Unwinding \in Seq(UndoNames)
            /\ Len(g \o Unwinding) = Len(g) + Len(Unwinding)
            /\ \A i \in 1 .. Len(g) + Len(Unwinding) :
                 (g \o Unwinding)[i] =
                   IF i <= Len(g) THEN g[i] ELSE Unwinding[i - Len(g)]
        BY <2>2, UnwindingIs, Concatenated
      <3>2. Len(g) = n - 5 /\ Len(Unwinding) = 5 /\ (n - 5) + 5 = n
        <4>1. Len(Unwinding) = 5
          BY UnwindingIs
        <4>2. QED
          BY <2>2, <4>1
      <3>3. QED
        BY <3>1, <3>2
    <2>4. ASSUME NEW i \in 1 .. n
          PROVE  Undo(n)[i] = Undoing(i + 8 - n)
      <3>1. CASE i <= n - 5
        <4>1. i + 8 - n <= 3 /\ 4 - (i + 8 - n) = (n - 5) + 1 - i /\ i \in 1 .. n - 5
          BY <3>1
        <4>2. QED
          BY <2>1, <2>2, <2>3, <3>1, <4>1 DEF Undoing
      <3>2. CASE ~(i <= n - 5)
        <4>1. ~(i + 8 - n <= 3) /\ (i + 8 - n) - 3 = i - (n - 5)
          BY <3>2
        <4>2. QED
          BY <2>1, <2>3, <3>2, <4>1 DEF Undoing
      <3>3. QED
        BY <3>1, <3>2
    <2>5. QED
      BY <2>1, <2>3, <2>4
  <1>3. QED
    BY <1>1, <1>2

LEMMA ExitIs ==
  /\ Exit \in Seq(UndoNames) /\ Len(Exit) = 7
  /\ \A i \in 1 .. 7 : Exit[i] = Exiting(i)
  <1> DEFINE g == GroupsFrom(3)
             rest == <<"unregister device", "driver", "port2", "port1">>
  <1>1. /\ g \in Seq(UndoNames) /\ Len(g) = 3
        /\ \A i \in 1 .. 3 : g[i] = Groups[4 - i]
    <2>1. \A i \in 1 .. 3 : 3 + 1 - i = 4 - i
      OBVIOUS
    <2>2. QED
      BY <2>1, GroupsReversed
  <1>2. /\ rest \in Seq(UndoNames) /\ Len(rest) = 4
        /\ rest[1] = "unregister device"
        /\ \A i \in 2 .. 4 : rest[i] = Unwinding[i + 1]
    <2>1. rest \in Seq(UndoNames)
      <3>1. rest \in Seq({"unregister device", "driver", "port2", "port1"})
        OBVIOUS
      <3>2. {"unregister device", "driver", "port2", "port1"} \subseteq UndoNames
        BY UnwindingIs
      <3> HIDE DEF rest
      <3>3. QED
        BY <3>1, <3>2, SeqMonotonic, Zenon
    <2>2. /\ rest[2] = Unwinding[3] /\ rest[3] = Unwinding[4]
          /\ rest[4] = Unwinding[5]
      BY UnwindingIs
    <2>3. \A i \in 2 .. 4 :
            \/ i = 2 /\ i + 1 = 3
            \/ i = 3 /\ i + 1 = 4
            \/ i = 4 /\ i + 1 = 5
      OBVIOUS
    <2>4. Len(rest) = 4 /\ rest[1] = "unregister device"
      OBVIOUS
    <2> HIDE DEF rest
    <2>5. \A i \in 2 .. 4 : rest[i] = Unwinding[i + 1]
      BY <2>2, <2>3
    <2>6. QED
      BY <2>1, <2>4, <2>5
  <1>3. Exit = g \o rest
    BY DEF Exit
  <1> HIDE DEF g, rest
  <1>4. /\ g \o rest \in Seq(UndoNames) /\ Len(g \o rest) = 7
        /\ \A i \in 1 .. 7 : (g \o rest)[i] = IF i <= 3 THEN g[i] ELSE rest[i - 3]
    <2>1. /\ g \o rest \in Seq(UndoNames) /\ Len(g \o rest) = Len(g) + Len(rest)
          /\ \A i \in 1 .. Len(g) + Len(rest) :
               (g \o rest)[i] = IF i <= Len(g) THEN g[i] ELSE rest[i - Len(g)]
      BY <1>1, <1>2, Concatenated
    <2>2. Len(g) = 3 /\ Len(rest) = 4
      BY <1>1, <1>2, Zenon
    <2>3. QED
      BY <2>1, <2>2
  <1>5. ASSUME NEW i \in 1 .. 7
        PROVE  Exit[i] = Exiting(i)
    <2>1. CASE i <= 3
      BY <1>1, <1>3, <1>4, <2>1 DEF Exiting
    <2>2. CASE i = 4
      <3>1. Exit[4] = rest[4 - 3] /\ 4 - 3 = 1
        <4>1. 4 \in 1 .. 7 /\ ~(4 <= 3) /\ 4 - 3 = 1
          OBVIOUS
        <4>2. QED
          BY <1>3, <1>4, <4>1
      <3>2. Exiting(4) = "unregister device"
        BY DEF Exiting
      <3>3. QED
        BY <1>2, <2>2, <3>1, <3>2
    <2>3. CASE i >= 5
      <3>1. i - 3 \in 2 .. 4 /\ (i - 3) + 1 = i - 2 /\ ~(i <= 3) /\ i # 4
        BY <2>3
      <3>2. Exit[i] = rest[i - 3]
        BY <1>3, <1>4, <3>1
      <3>3. rest[i - 3] = Unwinding[i - 2]
        BY <1>2, <3>1
      <3>4. QED
        BY <3>1, <3>2, <3>3 DEF Exiting
    <2>4. QED
      BY <2>1, <2>2, <2>3
  <1>6. QED
    BY <1>3, <1>4, <1>5

\* What each entry gives back: the latest step, and the device with the
\* registration.
GivenBack(n) == IF n = 5 THEN {Steps[5], Steps[4]} ELSE {Steps[n]}

LEMMA ReleasesOf ==
  /\ Releases("unregister device") = {"added", "device"}
  /\ Releases("put device") = {"device"} /\ Releases("driver") = {"driver"}
  /\ Releases("port2") = {"port2"} /\ Releases("port1") = {"port1"}
  /\ Releases("root") = {"root"} /\ Releases("bat0") = {"bat0"}
  /\ Releases("bat1") = {"bat1"}
  <1>1. /\ Releases("unregister device") = {"added", "device"}
        /\ Releases("put device") = {"device"}
    BY DEF Releases
  <1>2. /\ Releases("driver") = {"driver"}
        /\ Releases("port2") = {"port2"} /\ Releases("port1") = {"port1"}
    BY DEF Releases
  <1>3. /\ Releases("root") = {"root"} /\ Releases("bat0") = {"bat0"}
        /\ Releases("bat1") = {"bat1"}
    BY DEF Releases
  <1>4. QED
    BY <1>1, <1>2, <1>3

LEMMA UndoingIs ==
  /\ Undoing(1) = "bat1" /\ Undoing(2) = "bat0" /\ Undoing(3) = "root"
  /\ Undoing(4) = "unregister device" /\ Undoing(5) = "put device"
  /\ Undoing(6) = "driver" /\ Undoing(7) = "port2" /\ Undoing(8) = "port1"
  <1>1. /\ Undoing(1) = Groups[3] /\ Undoing(2) = Groups[2]
        /\ Undoing(3) = Groups[1]
    BY DEF Undoing
  <1>2. /\ Undoing(4) = Unwinding[1] /\ Undoing(5) = Unwinding[2]
        /\ Undoing(6) = Unwinding[3] /\ Undoing(7) = Unwinding[4]
        /\ Undoing(8) = Unwinding[5]
    BY DEF Undoing
  <1>3. QED
    BY <1>1, <1>2, GroupsAre, UnwindingIs

LEMMA EntryReleases ==
  ASSUME NEW n \in 1 .. 8
  PROVE  /\ Releases(Undoing(9 - n)) = GivenBack(n)
         /\ Undoing(9 - n) = "bat0" => n = 7
  <1>1. \/ n = 1 /\ 9 - n = 8
        \/ n = 2 /\ 9 - n = 7
        \/ n = 3 /\ 9 - n = 6
        \/ n = 4 /\ 9 - n = 5
        \/ n = 5 /\ 9 - n = 4
        \/ n = 6 /\ 9 - n = 3
        \/ n = 7 /\ 9 - n = 2
        \/ n = 8 /\ 9 - n = 1
    OBVIOUS
  <1>2. /\ Releases(Undoing(8)) = {Steps[1]} /\ Releases(Undoing(7)) = {Steps[2]}
        /\ Releases(Undoing(6)) = {Steps[3]} /\ Releases(Undoing(5)) = {Steps[4]}
        /\ Releases(Undoing(4)) = {Steps[5], Steps[4]}
        /\ Releases(Undoing(3)) = {Steps[6]} /\ Releases(Undoing(2)) = {Steps[7]}
        /\ Releases(Undoing(1)) = {Steps[8]}
    BY UndoingIs, ReleasesOf, StepsAre
  <1>3. Releases(Undoing(9 - n)) = GivenBack(n)
    <2>1. /\ GivenBack(5) = {Steps[5], Steps[4]}
          /\ n # 5 => GivenBack(n) = {Steps[n]}
      BY DEF GivenBack
    <2>2. CASE n = 5
      BY <1>1, <1>2, <2>1, <2>2
    <2>3. CASE n < 5
      BY <1>1, <1>2, <2>1, <2>3
    <2>4. CASE n = 6 \/ n = 7
      BY <1>1, <1>2, <2>1, <2>4
    <2>5. CASE n = 8
      BY <1>1, <1>2, <2>1, <2>5
    <2>6. n < 5 \/ n = 5 \/ n = 6 \/ n = 7 \/ n = 8
      OBVIOUS
    <2>7. QED
      BY <2>2, <2>3, <2>4, <2>5, <2>6
  <1>4. Undoing(9 - n) = "bat0" => n = 7
    BY <1>1, UndoingIs
  <1>5. QED
    BY <1>3, <1>4

LEMMA ExitingIs ==
  /\ \A j \in 1 .. 4 : Exiting(j) = Undoing(j)
  /\ \A j \in 5 .. 7 : Exiting(j) = Undoing(j + 1)
  <1>1. \A j \in 1 .. 3 : Exiting(j) = Undoing(j)
    <2>1. \A j \in 1 .. 3 : j <= 3
      OBVIOUS
    <2>2. QED
      BY <2>1 DEF Exiting, Undoing
  <1>2. Exiting(4) = Undoing(4)
    <2>1. ~(4 <= 3)
      OBVIOUS
    <2>2. Exiting(4) = "unregister device"
      BY <2>1, Zenon DEF Exiting
    <2>3. QED
      BY <2>2, UndoingIs
  <1>3. ASSUME NEW j \in 5 .. 7
        PROVE  Exiting(j) = Undoing(j + 1)
    <2>1. ~(j <= 3) /\ j # 4 /\ ~(j + 1 <= 3) /\ (j + 1) - 3 = j - 2
      OBVIOUS
    <2>2. QED
      BY <2>1 DEF Exiting, Undoing
  <1>4. \A j \in 1 .. 4 : j \in 1 .. 3 \/ j = 4
    OBVIOUS
  <1>5. QED
    BY <1>1, <1>2, <1>3, <1>4

\* Giving back the latest of what remains leaves what remained before it.
LEMMA RemainsLess ==
  ASSUME NEW n \in 1 .. 8, Remains(n), held' = held \ GivenBack(n)
  PROVE  /\ Remains(n - 1)'
         /\ n = 5 => Remains(3)'
         /\ GivenBack(n) \ held \subseteq {"device"}
  <1>1. \A i \in 1 .. 8 :
          Steps[i] \in GivenBack(n) <=> i = n \/ (n = 5 /\ i = 4)
    <2>1. 4 \in 1 .. 8 /\ 5 \in 1 .. 8
      OBVIOUS
    <2>2. QED
      BY <2>1, StepsDiffer DEF GivenBack
  <1>2. \A i \in 1 .. 8 :
          Steps[i] \in held' <=> Steps[i] \in held /\ i # n /\ ~(n = 5 /\ i = 4)
    BY <1>1
  <1>3. /\ \A i \in 1 .. 8 : Steps[i] \in held => i <= n
        /\ \A i \in 1 .. n : Steps[i] \in held \/ i = 4
        /\ n >= 5 => Steps[4] \in held
    BY DEF Remains
  <1>4. \A i \in 1 .. 8 : Steps[i] \in held' => i <= n - 1 /\ (n = 5 => i <= 3)
    BY <1>2, <1>3
  <1>5. \A i \in 1 .. n - 1 : Steps[i] \in held' \/ i = 4
    BY <1>2, <1>3
  <1>6. n - 1 >= 5 => Steps[4] \in held'
    BY <1>2, <1>3
  <1>7. Remains(n - 1)' /\ (n = 5 => Remains(3)')
    BY <1>4, <1>5, <1>6 DEF Remains
  <1>8. GivenBack(n) \ held \subseteq {"device"}
    <2>1. CASE n = 4
      BY <2>1, StepsAre DEF GivenBack
    <2>2. CASE n # 4
      <3>1. Steps[n] \in held /\ (n = 5 => Steps[4] \in held)
        BY <1>3, <2>2
      <3>2. QED
        BY <3>1 DEF GivenBack
    <2>3. QED
      BY <2>1, <2>2
  <1>9. QED
    BY <1>7, <1>8

-----------------------------------------------------------------------------
(* LoaderInv and CallsInv are invariants.                                  *)

LEMMA AcquiredIs ==
  ASSUME NEW n \in 0 .. 7, Done(n)
  PROVE  Acquired = n
  <1> DEFINE Due(m) ==
               Steps[m + 1] \notin held /\ \A i \in 1 .. m : Steps[i] \in held
  <1>1. \A i \in 1 .. 8 : Steps[i] \in held <=> i <= n
    BY DEF Done
  <1>2. Due(n)
    BY <1>1
  <1>3. ASSUME NEW m \in 0 .. 7, Due(m)
        PROVE  m = n
    <2>1. ~(m < n)
      BY <1>1, <1>3
    <2>2. ~(n < m)
      BY <1>1, <1>3
    <2>3. QED
      BY <2>1, <2>2
  <1>4. 0 .. Len(Steps) - 1 = 0 .. 7
    <2>1. Len(Steps) = 8
      BY StepsAre
    <2>2. QED
      BY <2>1
  <1> HIDE DEF Due
  <1>5. (CHOOSE m \in 0 .. 7 : Due(m)) = n
    BY <1>2, <1>3
  <1>6. QED
    BY <1>4, <1>5 DEF Acquired, Due

LEMMA DoneRemains == \A n \in 0 .. 8 : Done(n) => Remains(n)
  BY DEF Done, Remains

LEMMA StepNamesAre ==
  /\ \A i \in 1 .. 8 : Steps[i] \in StepNames
  /\ \A s \in StepNames : \E i \in 1 .. 8 : s = Steps[i]
  <1>1. DOMAIN Steps = 1 .. 8
    BY StepsAre
  <1>2. QED
    BY <1>1 DEF StepNames

LEMMA LoaderInit == Init => LoaderInv /\ CallsInv
  BY DEF Init, LoaderInv, CallsInv

LEMMA LoadKeeps ==
  ASSUME LoaderInv, Load
  PROVE  LoaderInv'
  <1>1. held' = {} /\ loader' = "loading" /\ UNCHANGED <<undo, twice>>
    BY DEF Load, LoaderInv
  <1>2. Done(0)'
    <2>1. \A i \in 1 .. 8 : ~(i <= 0)
      OBVIOUS
    <2>2. QED
      BY <1>1, <2>1 DEF Done
  <1>3. 0 \in 0 .. 7
    OBVIOUS
  <1>4. QED
    BY <1>1, <1>2, <1>3 DEF LoaderInv

LEMMA AcquireKeeps ==
  ASSUME LoaderInv, Acquire
  PROVE  LoaderInv'
  <1>1. loader = "loading" /\ UNCHANGED <<undo, twice>>
    BY DEF Acquire
  <1>2. PICK n \in 0 .. 7 : Done(n)
    BY <1>1 DEF LoaderInv
  <1>3. /\ n + 1 \in 1 .. 8
        /\ held' = held \cup {Steps[n + 1]}
        /\ loader' = IF n + 1 = 8 THEN "loaded" ELSE "loading"
    <2>1. Acquired = n /\ Len(Steps) = 8
      BY <1>2, AcquiredIs, StepsAre
    <2>2. QED
      BY <2>1 DEF Acquire
  <1>4. Done(n + 1)'
    <2>1. ASSUME NEW i \in 1 .. 8
          PROVE  Steps[i] \in held' <=> i <= n + 1
      <3>1. Steps[i] \in held <=> i <= n
        BY <1>2 DEF Done
      <3>2. Steps[i] = Steps[n + 1] <=> i = n + 1
        BY <1>3, StepsDiffer
      <3>3. Steps[i] \in held' <=> i <= n \/ i = n + 1
        BY <1>3, <3>1, <3>2
      <3>4. QED
        BY <3>3
    <2>2. QED
      BY <2>1 DEF Done
  <1>5. held' \subseteq StepNames
    BY <1>3, StepNamesAre DEF LoaderInv
  <1>6. CASE n = 7
    <2>1. \A i \in 1 .. 8 : Steps[i] \in held'
      BY <1>4, <1>6 DEF Done
    <2>2. held' = StepNames /\ loader' = "loaded"
      BY <1>3, <1>5, <1>6, <2>1, StepNamesAre
    <2>3. QED
      BY <1>1, <2>2 DEF LoaderInv
  <1>7. CASE n # 7
    <2>1. n + 1 \in 0 .. 7 /\ loader' = "loading"
      BY <1>3, <1>7
    <2>2. QED
      BY <1>1, <1>4, <1>5, <2>1 DEF LoaderInv
  <1>8. QED
    BY <1>6, <1>7

LEMMA AcquireFailsKeeps ==
  ASSUME LoaderInv, AcquireFails
  PROVE  LoaderInv'
  <1>1. loader = "loading" /\ loader' = "leaving" /\ UNCHANGED <<held, twice>>
    BY DEF AcquireFails
  <1>2. PICK n \in 0 .. 7 : Done(n)
    BY <1>1 DEF LoaderInv
  <1>3. undo' = Undo(n)
    BY <1>2, AcquiredIs DEF AcquireFails
  <1>4. undo' \in Seq(UndoNames) /\ UnwindsFrom(n)'
    <2>1. Remains(n)'
      BY <1>1, <1>2, DoneRemains DEF Remains
    <2>2. QED
      BY <1>3, <2>1, UndoIs DEF UnwindsFrom
  <1>5. n \in 0 .. 8
    OBVIOUS
  <1>6. QED
    BY <1>1, <1>4, <1>5 DEF LoaderInv

LEMMA UnloadKeeps ==
  ASSUME LoaderInv, Unload
  PROVE  LoaderInv'
  <1>1. loader' = "leaving" /\ undo' = Exit /\ UNCHANGED <<held, twice>>
        /\ held = StepNames
    BY DEF Unload, LoaderInv
  <1>2. Remains(8)'
    BY <1>1, StepNamesAre DEF Remains
  <1>3. ExitsFrom(8)'
    <2>1. \A i \in 1 .. 8 - 1 : i \in 1 .. 7 /\ i + 8 - 8 = i
      OBVIOUS
    <2>2. 8 - 1 = 7
      OBVIOUS
    <2>3. QED
      BY <1>1, <1>2, <2>1, <2>2, ExitIs DEF ExitsFrom
  <1>4. 8 \in 5 .. 8
    OBVIOUS
  <1>5. QED
    BY <1>1, <1>3, <1>4, ExitIs DEF LoaderInv

LEMMA TailIs ==
  ASSUME NEW u \in Seq(UndoNames), NEW n \in Nat, Len(u) = n, u # <<>>
  PROVE  /\ n >= 1 /\ Tail(u) \in Seq(UndoNames) /\ Len(Tail(u)) = n - 1
         /\ Head(u) = u[1]
         /\ \A i \in 1 .. n - 1 : Tail(u)[i] = u[i + 1]
  OBVIOUS

LEMMA ReleaseKeeps ==
  ASSUME LoaderInv, CallsInv, Release
  PROVE  LoaderInv' /\ CallsInv'
  <1> DEFINE e == Head(undo)
  <1>1. /\ loader = "leaving" /\ undo # <<>> /\ UNCHANGED <<loader, call>>
        /\ undo \in Seq(UndoNames) /\ undo' = Tail(undo)
        /\ held' = held \ Releases(e)
        /\ twice' = twice \cup (Releases(e) \ held)
        /\ e = "bat0" => \A t \in Tasks : call[t] = Idle
    BY DEF Release, LoaderInv
  <1> HIDE DEF e
  <1>2. /\ Tail(undo) \in Seq(UndoNames) /\ e = undo[1]
        /\ held' \subseteq StepNames
    BY <1>1, TailIs DEF LoaderInv, e
  <1>3. ASSUME NEW n \in 1 .. 8, Remains(n), e = Undoing(9 - n)
        PROVE  /\ Remains(n - 1)' /\ (n = 5 => Remains(3)')
               /\ twice' \subseteq {"device"} /\ CallsInv'
    <2>1. Releases(e) = GivenBack(n) /\ (e = "bat0" => n = 7)
      BY <1>3, EntryReleases
    <2>2. /\ Remains(n - 1)' /\ (n = 5 => Remains(3)')
          /\ GivenBack(n) \ held \subseteq {"device"}
      BY <1>1, <1>3, <2>1, RemainsLess
    <2>3. twice' \subseteq {"device"}
      BY <1>1, <2>1, <2>2 DEF LoaderInv
    <2>4. CallsInv'
      <3>1. CASE n = 7
        <4>1. e = "bat0"
          <5>1. 9 - 7 = 2
            OBVIOUS
          <5>2. QED
            BY <1>3, <3>1, <5>1, UndoingIs
        <4>2. QED
          BY <1>1, <4>1 DEF CallsInv
      <3>2. CASE n # 7
        <4>1. Steps[7] \notin GivenBack(n)
          <5>1. 4 \in 1 .. 8 /\ 5 \in 1 .. 8 /\ 7 \in 1 .. 8
            OBVIOUS
          <5>2. QED
            BY <3>2, <5>1, StepsDiffer DEF GivenBack
        <4>2. "bat0" \in held <=> "bat0" \in held'
          BY <1>1, <2>1, <4>1, StepsAre
        <4>3. QED
          BY <1>1, <4>2 DEF CallsInv
      <3>3. QED
        BY <3>1, <3>2
    <2>5. QED
      BY <2>2, <2>3, <2>4
  <1>4. ASSUME NEW n \in 0 .. 8, UnwindsFrom(n)
        PROVE  LoaderInv' /\ CallsInv'
    <2>1. /\ Remains(n) /\ Len(undo) = n
          /\ \A i \in 1 .. n : undo[i] = Undoing(i + 8 - n)
      BY <1>4 DEF UnwindsFrom
    <2>2. /\ n \in 1 .. 8 /\ Len(Tail(undo)) = n - 1
          /\ \A i \in 1 .. n - 1 : Tail(undo)[i] = undo[i + 1]
      BY <1>1, <2>1, TailIs
    <2>3. e = Undoing(9 - n)
      <3>1. 1 \in 1 .. n /\ 1 + 8 - n = 9 - n
        BY <2>2
      <3>2. QED
        BY <1>2, <2>1, <3>1
    <2>4. /\ Remains(n - 1)' /\ twice' \subseteq {"device"} /\ CallsInv'
      BY <1>3, <2>1, <2>2, <2>3
    <2>5. \A i \in 1 .. n - 1 :
            i + 1 \in 1 .. n /\ (i + 1) + 8 - n = i + 8 - (n - 1)
      BY <2>2
    <2>6. UnwindsFrom(n - 1)' /\ n - 1 \in 0 .. 8
      <3>1. \A i \in 1 .. n - 1 : undo'[i] = Undoing(i + 8 - (n - 1))
        BY <1>1, <2>1, <2>2, <2>5
      <3>2. QED
        BY <1>1, <2>2, <2>4, <3>1 DEF UnwindsFrom
    <2>7. QED
      BY <1>1, <1>2, <2>4, <2>6 DEF LoaderInv
  <1>5. ASSUME NEW n \in 5 .. 8, ExitsFrom(n)
        PROVE  LoaderInv' /\ CallsInv'
    <2>1. /\ Remains(n) /\ Len(undo) = n - 1
          /\ \A i \in 1 .. n - 1 : undo[i] = Exiting(i + 8 - n)
      BY <1>5 DEF ExitsFrom
    <2>2. /\ Len(Tail(undo)) = (n - 1) - 1
          /\ \A i \in 1 .. (n - 1) - 1 : Tail(undo)[i] = undo[i + 1]
      <3>1. n - 1 \in Nat
        OBVIOUS
      <3>2. QED
        BY <1>1, <2>1, <3>1, TailIs
    <2>3. e = Undoing(9 - n)
      <3>1. 1 \in 1 .. n - 1 /\ 1 + 8 - n = 9 - n /\ 9 - n \in 1 .. 4
        OBVIOUS
      <3>2. e = Exiting(9 - n)
        BY <1>2, <2>1, <3>1
      <3>3. QED
        BY <3>1, <3>2, ExitingIs
    <2>4. /\ Remains(n - 1)' /\ (n = 5 => Remains(3)')
          /\ twice' \subseteq {"device"} /\ CallsInv'
      <3>1. n \in 1 .. 8
        OBVIOUS
      <3>2. QED
        BY <1>3, <2>1, <2>3, <3>1
    <2>5. \A i \in 1 .. (n - 1) - 1 : undo'[i] = Exiting(i + 9 - n)
      <3>1. \A i \in 1 .. (n - 1) - 1 :
              i + 1 \in 1 .. n - 1 /\ (i + 1) + 8 - n = i + 9 - n
        OBVIOUS
      <3>2. QED
        BY <1>1, <2>1, <2>2, <3>1
    <2>6. CASE n = 5
      <3>1. Len(undo') = 3
        BY <1>1, <2>2, <2>6
      <3>2. ASSUME NEW i \in 1 .. 3
            PROVE  undo'[i] = Undoing(i + 8 - 3)
        <4>1. /\ i \in 1 .. (n - 1) - 1 /\ i + 9 - n \in 5 .. 7
              /\ (i + 9 - n) + 1 = i + 8 - 3
          BY <2>6
        <4>2. QED
          BY <2>5, <4>1, ExitingIs
      <3>3. UnwindsFrom(3)' /\ 3 \in 0 .. 8
        BY <2>4, <2>6, <3>1, <3>2 DEF UnwindsFrom
      <3>4. QED
        BY <1>1, <1>2, <2>4, <3>3 DEF LoaderInv
    <2>7. CASE n # 5
      <3>1. n - 1 \in 5 .. 8
        BY <2>7
      <3>2. ExitsFrom(n - 1)'
        <4>1. \A i \in 1 .. (n - 1) - 1 : i + 8 - (n - 1) = i + 9 - n
          OBVIOUS
        <4>2. \A i \in 1 .. (n - 1) - 1 : undo'[i] = Exiting(i + 8 - (n - 1))
          BY <2>5, <4>1
        <4>3. QED
          BY <1>1, <2>2, <2>4, <4>2 DEF ExitsFrom
      <3>3. QED
        BY <1>1, <1>2, <2>4, <3>1, <3>2 DEF LoaderInv
    <2>8. QED
      BY <2>6, <2>7
  <1>6. QED
    BY <1>1, <1>4, <1>5 DEF LoaderInv

\* Nothing remains when nothing is left to undo.
LEMMA LeftKeeps ==
  ASSUME LoaderInv, Left
  PROVE  LoaderInv'
  <1>1. /\ loader = "leaving" /\ undo = <<>> /\ loader' = "out"
        /\ UNCHANGED <<undo, held, twice>>
    BY DEF Left
  <1>2. Len(undo) = 0
    BY <1>1
  <1>3. \A n \in 5 .. 8 : ~ExitsFrom(n)
    <2>1. \A n \in 5 .. 8 : n - 1 # 0
      OBVIOUS
    <2>2. QED
      BY <1>2, <2>1 DEF ExitsFrom
  <1>4. Remains(0)
    BY <1>1, <1>2, <1>3 DEF LoaderInv, UnwindsFrom
  <1>5. \A i \in 1 .. 8 : Steps[i] \notin held
    <2>1. \A i \in 1 .. 8 : ~(i <= 0)
      OBVIOUS
    <2>2. QED
      BY <1>4, <2>1 DEF Remains
  <1>6. held = {}
    BY <1>5, StepNamesAre DEF LoaderInv
  <1>7. QED
    BY <1>1, <1>6 DEF LoaderInv

-----------------------------------------------------------------------------
(* AttributesInv is an invariant.                                          *)

LEMMA CallShapes ==
  ASSUME NEW c, NEW w, NEW bits, NEW s, CallFits(c, w, bits, s)
  PROVE  /\ c.op \in {"none", "get", "set", "check", "row", "shown"}
         /\ c.op = "none" => c = Idle
         /\ c.op = "get" => c \in Gets /\ Storable(c.value, w)
         /\ c.op = "set" =>
              c \in Sets /\ Storable(c.value, w) /\ (c.alone => c.bits = bits)
         /\ c.op = "check" => c \in Checks
         /\ c.op = "row" => c \in Rows /\ s \in c.seen /\ c.seen # {Empty}
         /\ c.op = "shown" =>
              /\ c.seen # {Empty}
              /\ \E m \in c.seen : c.value = Shown(c.attr, Row(m))
  <1>1. Idle.op = "none"
    BY DEF Idle
  <1>2. /\ c \in Gets => c.op = "get"
        /\ c \in Sets => c.op = "set"
        /\ c \in Checks => c.op = "check"
        /\ c \in Rows => c.op = "row"
    BY DEF Gets, Sets, Checks, Rows
  <1>3. QED
    BY <1>1, <1>2 DEF CallFits

LEMMA IdleFits == \A w, bits, s : CallFits(Idle, w, bits, s)
  BY DEF CallFits

\* A row is as it was but for a battery that was seen as well.
LEMMA SeenMore ==
  ASSUME NEW c \in Rows, NEW s \in Slots, NEW m \in c.seen, c.seen # {Empty},
         NEW d, d = [c EXCEPT !.seen = @ \cup {s}]
  PROVE  d \in Rows /\ d.op = "row" /\ s \in d.seen /\ d.seen # {Empty}
  <1>1. d \in Rows /\ d.op = "row" /\ d.seen = c.seen \cup {s}
    BY DEF Rows
  <1>2. QED
    BY <1>1

LEMMA Overtook ==
  ASSUME NEW c \in Sets, NEW d, d = [c EXCEPT !.alone = FALSE]
  PROVE  d \in Sets /\ d.op = "set" /\ d.value = c.value /\ ~d.alone
  BY DEF Sets

\* When the bits of the control change no call is said to have the latest.
LEMMA OvertakenFit ==
  ASSUME AttributesInv, NEW t \in Tasks, NEW bits
  PROVE  CallFits(Overtaken[t], which, bits, slot)
  <1> DEFINE c == call[t]
             d == [c EXCEPT !.alone = FALSE]
  <1>1. CallFits(c, which, control.bits, slot)
    BY DEF AttributesInv
  <1>2. Overtaken[t] = IF c.op = "set" THEN d ELSE c
    BY DEF Overtaken
  <1>3. CASE c.op = "set"
    <2>1. c \in Sets /\ Storable(c.value, which)
      BY <1>1, <1>3, CallShapes
    <2>2. d \in Sets /\ d.op = "set" /\ d.value = c.value /\ ~d.alone
      BY <2>1, Overtook
    <2> HIDE DEF d, c
    <2>3. QED
      BY <1>2, <1>3, <2>1, <2>2 DEF CallFits
  <1>4. CASE c.op # "set"
    <2> HIDE DEF d, c
    <2>1. c \notin Sets
      BY <1>4 DEF Sets
    <2>2. QED
      BY <1>1, <1>2, <1>4, <2>1 DEF CallFits
  <1>5. QED
    BY <1>3, <1>4

\* One call changes and nothing else.
LEMMA OneCall ==
  ASSUME AttributesInv, NEW t \in Tasks, NEW c,
         call' = [call EXCEPT ![t] = c], UNCHANGED <<which, control, wanted, slot>>,
         CallFits(c, which, control.bits, slot)
  PROVE  AttributesInv'
  <1>1. /\ call' = [u \in Tasks |-> call'[u]]
        /\ \A u \in Tasks : call'[u] = IF u = t THEN c ELSE call[u]
    BY DEF AttributesInv
  <1>2. \A u \in Tasks : CallFits(call'[u], which', control'.bits, slot')
    BY <1>1 DEF AttributesInv
  <1>3. ControlInv'
    BY DEF AttributesInv, ControlInv, ControlsKept
  <1>4. QED
    BY <1>1, <1>2, <1>3 DEF AttributesInv

LEMMA AttributesInit == Init => AttributesInv
  <1> SUFFICES ASSUME Init
               PROVE  AttributesInv
    OBVIOUS
  <1>1. ControlInv
    BY SmapiAssumption DEF Init, ControlInv, ControlsKept
  <1>2. QED
    BY <1>1, IdleFits DEF Init, AttributesInv, Slots

LEMMA StoreFits ==
  ASSUME AttributesInv, NEW t \in Tasks, NEW v \in Inputs, StoreControl(t, v)
  PROVE  AttributesInv'
  <1> DEFINE c == [op |-> "get", value |-> v]
  <1>1. c \in Gets /\ c.value = v /\ Storable(v, which)
    <2>1. Storable(v, which)
      BY SmapiAssumption DEF Inputs, Storable, AttributesInv, ControlInv, Controls
    <2>2. QED
      BY <2>1 DEF Gets, Storable
  <1>2. call' = [call EXCEPT ![t] = c]
    BY DEF StoreControl, Begins
  <1> HIDE DEF c
  <1>3. CallFits(c, which, control.bits, slot)
    BY <1>1 DEF CallFits
  <1>4. QED
    BY <1>2, <1>3, OneCall DEF StoreControl, controlVars

LEMMA EndFits ==
  ASSUME AttributesInv, NEW t \in Tasks, Ends(t), UNCHANGED <<controlVars, slot>>
  PROVE  AttributesInv'
  BY IdleFits, OneCall DEF Ends, controlVars

LEMMA GetFits ==
  ASSUME AttributesInv, NEW t \in Tasks, GetControl(t)
  PROVE  AttributesInv'
  <1> DEFINE c == [op |-> "set", value |-> call[t].value, bits |-> Kept, alone |-> TRUE]
  <1>1. c \in Sets /\ c.value = call[t].value /\ c.bits = control.bits
        /\ Storable(call[t].value, which)
    <2>1. call[t] \in Gets /\ Storable(call[t].value, which)
      BY CallShapes DEF GetControl, AttributesInv
    <2>2. control.bits \in BOOLEAN
      BY DEF AttributesInv, ControlInv
    <2> DEFINE bit == control.bits
    <2>3. bit \in BOOLEAN /\ call[t].value \in Nat
      BY <2>1, <2>2 DEF Gets
    <2>4. Kept = bit
      BY DEF Kept
    <2> HIDE DEF bit
    <2>5. c \in Sets /\ c.value = call[t].value /\ c.bits = bit
      BY <2>3, <2>4 DEF Sets
    <2>6. QED
      BY <2>1, <2>5 DEF bit
  <1>2. Ends(t) \/ call' = [call EXCEPT ![t] = c]
    BY DEF GetControl
  <1> HIDE DEF c
  <1>3. CallFits(c, which, control.bits, slot)
    BY <1>1 DEF CallFits
  <1>4. UNCHANGED <<which, control, wanted, slot>>
    BY DEF GetControl, controlVars
  <1>5. QED
    BY <1>2, <1>3, <1>4, OneCall, EndFits DEF controlVars

LEMMA SetFits ==
  ASSUME AttributesInv, NEW t \in Tasks, SetControl(t)
  PROVE  AttributesInv'
  <1> DEFINE others == IF call[t].alone THEN call ELSE Overtaken
             v == call[t].value
             bit == call[t].bits
             sole == call[t].alone
  <1>1. /\ v \in Nat /\ Storable(v, which) /\ bit \in BOOLEAN /\ sole \in BOOLEAN
        /\ sole => bit = control.bits
    <2>1. /\ call[t] \in Sets /\ Storable(call[t].value, which)
          /\ call[t].alone => call[t].bits = control.bits
      BY CallShapes DEF SetControl, AttributesInv
    <2>2. QED
      BY <2>1 DEF Sets
  <1>2. UNCHANGED <<which, slot>>
    BY DEF SetControl
  <1>3. CASE Ends(t) /\ UNCHANGED <<control, wanted>>
    BY <1>2, <1>3, EndFits DEF controlVars
  <1>4. CASE /\ control' = [control EXCEPT !.value = Written(call[t].value),
                                           !.bits = call[t].bits]
             /\ wanted' = [value |-> call[t].value,
                           bits |-> IF call[t].alone THEN wanted.bits ELSE call[t].bits]
             /\ call' = [others EXCEPT ![t] = Idle]
    <2> HIDE DEF v, bit, sole
    <2>1. /\ control \in [value : 0 .. MaxMinutes, able : BOOLEAN, bits : BOOLEAN]
          /\ wanted \in [value : Nat, bits : BOOLEAN]
          /\ control.bits = wanted.bits /\ which \in Controls
      BY DEF AttributesInv, ControlInv, ControlsKept
    <2>2. /\ Written(v) \in 0 .. MaxMinutes
          /\ Written(v) = IF v > MaxMinutes THEN MaxMinutes ELSE v
      BY <1>1, <2>1, SmapiAssumption DEF Written, Storable, Controls
    <2>3. control' = [control EXCEPT !.value = Written(v), !.bits = bit]
      BY <1>4 DEF v, bit
    <2>4. wanted' = [value |-> v, bits |-> IF sole THEN wanted.bits ELSE bit]
      BY <1>4 DEF v, bit, sole
    <2>5. /\ control' \in [value : 0 .. MaxMinutes, able : BOOLEAN, bits : BOOLEAN]
          /\ control'.value = Written(v) /\ control'.bits = bit
      BY <1>1, <2>1, <2>2, <2>3
    <2>6. /\ wanted' \in [value : Nat, bits : BOOLEAN]
          /\ wanted'.value = v /\ wanted'.bits = bit
      <3>1. CASE sole
        BY <1>1, <2>1, <2>4, <3>1
      <3>2. CASE ~sole
        BY <1>1, <2>1, <2>4, <3>2
      <3>3. QED
        BY <3>1, <3>2
    <2>7. ControlInv'
      BY <1>2, <2>1, <2>2, <2>5, <2>6 DEF ControlInv, ControlsKept
    <2>8. others = [u \in Tasks |-> others[u]]
      BY DEF AttributesInv, Overtaken
    <2>9. ASSUME NEW u \in Tasks
          PROVE  CallFits(others[u], which, bit, slot)
      <3>1. CASE sole
        BY <1>1, <3>1 DEF AttributesInv, sole
      <3>2. CASE ~sole
        BY <3>2, OvertakenFit DEF sole
      <3>3. QED
        BY <3>1, <3>2
    <2>10. call' = [others EXCEPT ![t] = Idle]
      BY <1>4
    <2> HIDE DEF others
    <2>11. /\ call' = [u \in Tasks |-> call'[u]]
           /\ \A u \in Tasks : call'[u] = IF u = t THEN Idle ELSE others[u]
      BY <2>8, <2>10
    <2>12. \A u \in Tasks : CallFits(call'[u], which', control'.bits, slot')
      BY <1>2, <2>5, <2>9, <2>11, IdleFits
    <2>13. QED
      BY <1>2, <2>7, <2>11, <2>12 DEF AttributesInv
  <1>5. QED
    BY <1>3, <1>4 DEF SetControl

\* The firmware or a raw call changes the control.
LEMMA ChangesFit ==
  ASSUME AttributesInv, NEW value \in 0 .. MaxMinutes, NEW able \in BOOLEAN,
         NEW bits \in BOOLEAN, Changes(value, able, bits)
  PROVE  AttributesInv'
  <1>1. /\ control' = [value |-> value, able |-> able, bits |-> bits]
        /\ wanted' = [value |-> value, bits |-> bits]
        /\ call' = Overtaken /\ UNCHANGED <<which, slot>>
    BY DEF Changes
  <1>2. ControlInv'
    <2>1. /\ control' \in [value : 0 .. MaxMinutes, able : BOOLEAN, bits : BOOLEAN]
          /\ control'.value = value /\ control'.bits = bits
      BY <1>1
    <2>2. /\ wanted' \in [value : Nat, bits : BOOLEAN]
          /\ wanted'.value = value /\ wanted'.bits = bits
      BY <1>1, SmapiAssumption
    <2>3. ~(value > MaxMinutes)
      BY SmapiAssumption
    <2>4. QED
      BY <1>1, <2>1, <2>2, <2>3 DEF AttributesInv, ControlInv, ControlsKept
  <1>3. call' = [u \in Tasks |-> call'[u]]
    BY <1>1 DEF Overtaken
  <1>4. \A u \in Tasks : CallFits(call'[u], which', control'.bits, slot')
    BY <1>1, OvertakenFit
  <1>5. QED
    BY <1>1, <1>2, <1>3, <1>4 DEF AttributesInv

\* An empty slot has no battery with status.
LEMMA EmptyHasNoStatus == ~HasStatus(0, Row(Empty))
  <1>1. Row(Empty)[0] = 0
    BY DEF Row, RowBytes
  <1>2. 0 \div 64 = 0 /\ 0 % 2 = 0
    OBVIOUS
  <1>3. ~Present(0, Row(Empty))
    BY <1>1, <1>2 DEF Present
  <1>4. QED
    BY <1>3 DEF HasStatus

LEMMA BatteryFits ==
  ASSUME AttributesInv, NEW t \in Tasks,
         \/ \E a \in Attributes : ShowBattery(t, a)
         \/ CheckStatus(t) \/ ReadRow(t) \/ Return(t)
  PROVE  AttributesInv'
  <1>1. /\ CallFits(call[t], which, control.bits, slot) /\ slot \in Slots
        /\ UNCHANGED <<which, control, wanted, slot>>
    BY DEF AttributesInv, ShowBattery, CheckStatus, ReadRow, Return, controlVars
  <1>2. ASSUME NEW a \in Attributes, ShowBattery(t, a)
        PROVE  AttributesInv'
    <2> DEFINE c == [op |-> "check", attr |-> a]
    <2>1. c \in Checks
      BY DEF Checks
    <2>2. call' = [call EXCEPT ![t] = c]
      BY <1>2 DEF ShowBattery, Begins
    <2> HIDE DEF c
    <2>3. CallFits(c, which, control.bits, slot)
      BY <2>1 DEF CallFits
    <2>4. QED
      BY <1>1, <2>2, <2>3, OneCall
  <1>3. CASE call[t].op = "check" /\ HasStatus(0, Row(slot)) /\ Seeing(t)
    <2> DEFINE c == [op |-> "row", attr |-> call[t].attr, seen |-> {slot}]
    <2>1. c \in Rows /\ c.seen = {slot}
      <3>1. call[t] \in Checks
        BY <1>1, <1>3, CallShapes
      <3>2. call[t].attr \in Attributes
        BY <3>1 DEF Checks
      <3>3. QED
        BY <1>1, <3>2 DEF Rows
    <2>2. slot # Empty
      BY <1>3, EmptyHasNoStatus
    <2>3. call' = [call EXCEPT ![t] = c]
      BY <1>3 DEF Seeing
    <2> HIDE DEF c
    <2>4. CallFits(c, which, control.bits, slot)
      BY <2>1, <2>2 DEF CallFits
    <2>5. QED
      BY <1>1, <2>3, <2>4, OneCall
  <1>4. CASE /\ call[t].op = "row"
             /\ call' = [call EXCEPT ![t] =
                   [op |-> "shown", attr |-> @.attr, seen |-> @.seen,
                    value |-> Shown(@.attr, Row(slot))]]
    <2> DEFINE c == [op |-> "shown", attr |-> call[t].attr, seen |-> call[t].seen,
                     value |-> Shown(call[t].attr, Row(slot))]
    <2>1. slot \in call[t].seen /\ call[t].seen # {Empty}
      BY <1>1, <1>4, CallShapes
    <2>2. /\ c.op = "shown" /\ c.attr = call[t].attr /\ c.seen = call[t].seen
          /\ c.value = Shown(call[t].attr, Row(slot))
      OBVIOUS
    <2>3. call' = [call EXCEPT ![t] = c]
      BY <1>4
    <2> HIDE DEF c
    <2>4. CallFits(c, which, control.bits, slot)
      BY <2>1, <2>2 DEF CallFits
    <2>5. QED
      BY <1>1, <2>3, <2>4, OneCall
  <1>5. CASE Ends(t)
    BY <1>1, <1>5, EndFits DEF controlVars
  <1>6. QED
    BY <1>2, <1>3, <1>4, <1>5 DEF CheckStatus, ReadRow, Return

LEMMA SlotFits ==
  ASSUME AttributesInv, SlotChanges
  PROVE  AttributesInv'
  <1>1. slot' \in Slots /\ UNCHANGED <<which, control, wanted>>
    BY DEF SlotChanges, Slots, controlVars
  <1>2. call' = [u \in Tasks |-> call'[u]]
    BY DEF SlotChanges
  <1>3. ASSUME NEW u \in Tasks
        PROVE  CallFits(call'[u], which, control.bits, slot')
    <2> DEFINE c == call[u]
               d == [c EXCEPT !.seen = @ \cup {slot'}]
    <2>1. CallFits(c, which, control.bits, slot)
      BY DEF AttributesInv
    <2>2. call'[u] = IF c.op = "row" THEN d ELSE c
      BY DEF SlotChanges
    <2>3. CASE c.op = "row"
      <3>1. c \in Rows /\ slot \in c.seen /\ c.seen # {Empty}
        BY <2>1, <2>3, CallShapes
      <3>2. d \in Rows /\ d.op = "row" /\ slot' \in d.seen /\ d.seen # {Empty}
        BY <1>1, <3>1, SeenMore
      <3> HIDE DEF d, c
      <3>3. QED
        BY <2>2, <2>3, <3>2 DEF CallFits
    <2>4. CASE c.op # "row"
      <3> HIDE DEF d, c
      <3>1. c \notin Rows
        BY <2>4 DEF Rows
      <3>2. QED
        BY <2>1, <2>2, <2>4, <3>1 DEF CallFits
    <2>5. QED
      BY <2>3, <2>4
  <1>4. ControlInv'
    BY <1>1 DEF AttributesInv, ControlInv, ControlsKept
  <1>5. QED
    BY <1>1, <1>2, <1>3, <1>4 DEF AttributesInv

-----------------------------------------------------------------------------
(* The theorems.                                                           *)

\* The actions of the tasks, of the firmware and of the slot leave the loader
\* alone, and need the group of the first battery.
LEMMA TasksKeep ==
  ASSUME SmapiInv, UNCHANGED loadVars,
         \A t \in Tasks :
           call'[t] = Idle \/ call[t] # Idle \/ "bat0" \in held
  PROVE  LoaderInv' /\ CallsInv'
  <1>1. UNCHANGED <<loader, undo, held, twice>>
    BY DEF loadVars
  <1>2. LoaderInv'
    BY <1>1 DEF SmapiInv, LoaderInv, Done, UnwindsFrom, ExitsFrom, Remains
  <1>3. CallsInv'
    BY <1>1 DEF SmapiInv, CallsInv
  <1>4. QED
    BY <1>2, <1>3

LEMMA SmapiStep == SmapiInv /\ [Next]_vars => SmapiInv'
  <1> SUFFICES ASSUME SmapiInv, [Next]_vars
               PROVE  SmapiInv'
    OBVIOUS
  <1>0. /\ AttributesInv /\ LoaderInv /\ CallsInv
        /\ \A t \in Tasks : CallFits(call[t], which, control.bits, slot)
        /\ call = [t \in Tasks |-> call[t]]
        /\ Idle.op = "none"
    BY DEF SmapiInv, AttributesInv, Idle
  <1>1. ASSUME NEW t \in Tasks, NEW v \in Inputs, StoreControl(t, v)
        PROVE  SmapiInv'
    <2>1. "bat0" \in held /\ UNCHANGED loadVars
      BY <1>1 DEF StoreControl, Begins
    <2>2. QED
      BY <1>0, <1>1, <2>1, StoreFits, TasksKeep DEF SmapiInv
  <1>2. ASSUME NEW t \in Tasks, GetControl(t) \/ SetControl(t)
        PROVE  SmapiInv'
    <2>1. call[t] # Idle /\ UNCHANGED loadVars
      BY <1>0, <1>2 DEF GetControl, SetControl
    <2>2. "bat0" \in held
      BY <1>0, <2>1 DEF CallsInv
    <2>3. QED
      BY <1>0, <1>2, <2>1, <2>2, GetFits, SetFits, TasksKeep DEF SmapiInv
  <1>3. ASSUME NEW t \in Tasks, RawRequest(t)
        PROVE  SmapiInv'
    <2>1. PICK v \in {0, 1}, bits \in BOOLEAN : Changes(v, control.able, bits)
      BY <1>3 DEF RawRequest
    <2>2. v \in 0 .. MaxMinutes /\ control.able \in BOOLEAN
      BY <1>0, SmapiAssumption DEF AttributesInv, ControlInv
    <2>3. AttributesInv'
      BY <1>0, <2>1, <2>2, ChangesFit
    <2>4. UNCHANGED loadVars /\ call' = Overtaken
      BY <2>1 DEF Changes
    <2>5. \A u \in Tasks : call[u] = Idle => call'[u] = Idle
      BY <1>0, <2>4 DEF Overtaken
    <2>6. QED
      BY <1>0, <2>3, <2>4, <2>5, TasksKeep DEF SmapiInv
  <1>4. ASSUME NEW t \in Tasks, NEW a \in Attributes, ShowBattery(t, a)
        PROVE  SmapiInv'
    <2>1. "bat0" \in held /\ UNCHANGED loadVars
      BY <1>4 DEF ShowBattery, Begins
    <2>2. QED
      BY <1>0, <1>4, <2>1, BatteryFits, TasksKeep DEF SmapiInv
  <1>5. ASSUME NEW t \in Tasks, CheckStatus(t) \/ ReadRow(t) \/ Return(t)
        PROVE  SmapiInv'
    <2>1. call[t] # Idle /\ UNCHANGED loadVars
      BY <1>0, <1>5 DEF CheckStatus, ReadRow, Return
    <2>2. "bat0" \in held
      BY <1>0, <2>1 DEF CallsInv
    <2>3. QED
      BY <1>0, <1>5, <2>1, <2>2, BatteryFits, TasksKeep DEF SmapiInv
  <1>6. CASE FirmwareChanges
    <2>1. PICK able \in BOOLEAN, bits \in BOOLEAN : Changes(control.value, able, bits)
      BY <1>6 DEF FirmwareChanges
    <2>2. control.value \in 0 .. MaxMinutes
      BY <1>0 DEF AttributesInv, ControlInv
    <2>3. AttributesInv'
      BY <1>0, <2>1, <2>2, ChangesFit
    <2>4. UNCHANGED loadVars /\ call' = Overtaken
      BY <2>1 DEF Changes
    <2>5. \A u \in Tasks : call[u] = Idle => call'[u] = Idle
      BY <1>0, <2>4 DEF Overtaken
    <2>6. QED
      BY <1>0, <2>3, <2>4, <2>5, TasksKeep DEF SmapiInv
  <1>7. CASE SlotChanges
    <2>1. UNCHANGED loadVars
      BY <1>7 DEF SlotChanges
    <2>2. \A u \in Tasks : call[u] = Idle => call'[u] = Idle
      BY <1>0, <1>7 DEF SlotChanges
    <2>3. QED
      BY <1>0, <1>7, <2>1, <2>2, SlotFits, TasksKeep DEF SmapiInv
  <1>8. CASE Load \/ Acquire \/ AcquireFails \/ Unload \/ Release \/ Left
    <2>1. UNCHANGED <<call, controlVars, slot>>
      BY <1>8 DEF Load, Acquire, AcquireFails, Unload, Release, Left
    <2>2. AttributesInv'
      BY <1>0, <2>1 DEF AttributesInv, ControlInv, ControlsKept, controlVars
    <2>3. LoaderInv'
      BY <1>0, <1>8, LoadKeeps, AcquireKeeps, AcquireFailsKeeps,
         UnloadKeeps, ReleaseKeeps, LeftKeeps
    <2>4. CallsInv'
      <3>1. CASE Release
        BY <1>0, <3>1, ReleaseKeeps
      <3>2. CASE Load \/ Acquire \/ AcquireFails \/ Unload \/ Left
        <4>1. held \subseteq held'
          BY <3>2 DEF Load, Acquire, AcquireFails, Unload, Left
        <4>2. QED
          BY <1>0, <2>1, <4>1 DEF CallsInv
      <3>3. QED
        BY <1>8, <3>1, <3>2
    <2>5. QED
      BY <2>2, <2>3, <2>4 DEF SmapiInv
  <1>9. CASE UNCHANGED vars
    <2>1. UNCHANGED <<loadVars, call, which, control, wanted, slot>>
      BY <1>9 DEF vars, loadVars
    <2>2. AttributesInv'
      BY <1>0, <2>1 DEF AttributesInv, ControlInv, ControlsKept
    <2>3. QED
      BY <2>1, <2>2, TasksKeep DEF SmapiInv
  <1>10. QED
    BY <1>1, <1>2, <1>3, <1>4, <1>5, <1>6, <1>7, <1>8, <1>9 DEF Next, Attributes

LEMMA Invariance == Spec => []SmapiInv
  <1>1. Init => SmapiInv
    BY LoaderInit, AttributesInit DEF SmapiInv
  <1>2. QED
    BY <1>1, SmapiStep, PTL DEF Spec

\* Every variable keeps its type: what is left to undo is something that
\* tp_init or tp_exit does, and a control's value fits its register.
THEOREM Typing == Spec => []TypeOK
  <1>1. SmapiInv => TypeOK
    <2> SUFFICES ASSUME SmapiInv
                 PROVE  TypeOK
      OBVIOUS
    <2>1. \A t \in Tasks :
            call[t].op \in {"none", "get", "set", "check", "row", "shown"}
      BY CallShapes DEF SmapiInv, AttributesInv
    <2>2. twice \subseteq StepNames
      <3>1. Steps[4] \in StepNames
        <4>1. 4 \in 1 .. 8
          OBVIOUS
        <4>2. QED
          BY <4>1, StepNamesAre
      <3>2. QED
        BY <3>1, StepsAre DEF SmapiInv, LoaderInv
    <2>3. QED
      BY <2>1, <2>2 DEF SmapiInv, AttributesInv, ControlInv, LoaderInv, TypeOK,
         UndoNames, StepNames, Slots
  <1>2. QED
    BY <1>1, Invariance, PTL

\* Whichever step of tp_init fails, and in tp_exit, everything is given back,
\* once but for the platform device, and the ports and the device only after
\* the attributes that use them.
THEOREM NothingStays == Spec => []LeavesNothing
  <1>1. SmapiInv => NothingHeld
    BY DEF SmapiInv, LoaderInv, NothingHeld
  <1>2. SmapiInv => PortsHeld
    <2> SUFFICES ASSUME SmapiInv,
                        \/ \E t \in Tasks : call[t] # Idle
                        \/ \E i \in 1 .. 3 : Groups[i] \in held
                 PROVE  \A j \in 1 .. 5 : Steps[j] \in held
      <3>1. /\ 1 \in 1 .. 5 /\ 2 \in 1 .. 5 /\ 3 \in 1 .. 5
            /\ 4 \in 1 .. 5 /\ 5 \in 1 .. 5
        OBVIOUS
      <3>2. QED
        BY <3>1, StepsAre DEF PortsHeld
    <2>1. \A i \in 1 .. 3 : Groups[i] = Steps[i + 5] /\ i + 5 \in 6 .. 8
      <3>1. \A i \in 1 .. 3 : \/ i = 1 /\ i + 5 = 6
                              \/ i = 2 /\ i + 5 = 7
                              \/ i = 3 /\ i + 5 = 8
        OBVIOUS
      <3>2. \A i \in 1 .. 3 : Groups[i] = Steps[i + 5]
        BY <3>1, GroupsAre, StepsAre
      <3>3. QED
        BY <3>2
    <2>2. PICK g \in 6 .. 8 : Steps[g] \in held
      <3>1. CASE \E t \in Tasks : call[t] # Idle
        <4>1. "bat0" \in held
          BY <3>1 DEF SmapiInv, CallsInv
        <4>2. Steps[7] \in held /\ 7 \in 6 .. 8
          BY <4>1, StepsAre
        <4>3. QED
          BY <4>2
      <3>2. CASE \E i \in 1 .. 3 : Groups[i] \in held
        BY <2>1, <3>2
      <3>3. QED
        BY <3>1, <3>2
    <2>3. CASE held = StepNames
      BY <2>3, StepNamesAre
    <2>4. ASSUME NEW n \in 0 .. 8, Remains(n)
          PROVE  \A j \in 1 .. 5 : Steps[j] \in held
      <3>1. g <= n
        BY <2>2, <2>4 DEF Remains
      <3>2. \A j \in 1 .. n : Steps[j] \in held \/ j = 4
        BY <2>4 DEF Remains
      <3>3. Steps[4] \in held
        BY <2>4, <3>1 DEF Remains
      <3>4. QED
        BY <3>1, <3>2, <3>3
    <2>5. CASE loader \in {"loading", "leaving"}
      <3>1. \E n \in 0 .. 8 : Remains(n)
        <4>1. /\ \A n \in 0 .. 7 : n \in 0 .. 8
              /\ \A n \in 5 .. 8 : n \in 0 .. 8
          OBVIOUS
        <4>2. QED
          BY <2>5, <4>1, DoneRemains DEF SmapiInv, LoaderInv, UnwindsFrom, ExitsFrom
      <3>2. QED
        BY <2>4, <3>1
    <2>6. QED
      BY <2>2, <2>3, <2>5 DEF SmapiInv, LoaderInv
  <1>3. SmapiInv => LeavesNothing
    BY <1>1, <1>2 DEF LeavesNothing
  <1>4. QED
    BY <1>3, Invariance, PTL

\* A charging control has the value last stored with success, cut to what the
\* register has room for, and the firmware's bits as they were last set.
THEOREM KeepsControls == Spec => []ControlsKept
  <1>1. SmapiInv => ControlsKept
    BY DEF SmapiInv, AttributesInv, ControlInv
  <1>2. QED
    BY <1>1, Invariance, PTL

\* What a battery attribute shows was measured by something that was in the
\* slot in the course of the call, in which a battery was seen.
THEOREM Measured == Spec => []ShowsABattery
  <1>1. SmapiInv => ShowsABattery
    BY CallShapes DEF SmapiInv, AttributesInv, ShowsABattery
  <1>2. QED
    BY <1>1, Invariance, PTL

-----------------------------------------------------------------------------
(* The numbers of BatteryRow.  Sizes are named and hidden before the       *)
(* arithmetic, which is about any size.                                    *)

\* Two digits to the base B.
LEMMA TwoDigits ==
  ASSUME NEW B \in Nat, NEW a \in 0 .. B - 1, NEW b \in 0 .. B - 1
  PROVE  a + B * b \in 0 .. B * B - 1
  <1>1. PICK k \in Nat : B = b + 1 + k
    <2>1. B - b - 1 \in Nat
      OBVIOUS
    <2>2. QED
      BY <2>1
  <1>2. B * B = B * b + B + B * k /\ B * k \in Nat /\ B * b \in Nat /\ B * B \in Nat
    BY <1>1
  <1>3. a \in Int /\ 0 <= a /\ a < B
    OBVIOUS
  <1> HIDE <1>1
  <1>4. QED
    BY <1>2, <1>3

\* A signed half of H values on each side times one of B values.
LEMMA ProductBounds ==
  ASSUME NEW B \in Nat, NEW H \in Nat, H > 0, NEW i \in -H .. H - 1, NEW u \in 0 .. B - 1
  PROVE  i * u \in -(H * B) .. H * B - 1
  <1> DEFINE top == H * B
  <1>1. top \in Int /\ i \in Int /\ u \in Int /\ i * u \in Int
    OBVIOUS
  <1>2. PICK k \in Nat : B = u + 1 + k
    <2>1. B - u - 1 \in Nat
      OBVIOUS
    <2>2. QED
      BY <2>1
  <1>3. top = H * u + H + H * k /\ H * k \in Nat /\ H * u \in Nat
    BY <1>2
  <1>4. H * u - i * u \in Nat
    <2>1. H - i \in Nat /\ u \in Nat
      OBVIOUS
    <2>2. (H - i) * u \in Nat
      BY <2>1
    <2>3. (H - i) * u = H * u - i * u
      OBVIOUS
    <2>4. QED
      BY <2>2, <2>3
  <1>5. i * u + H * u \in Nat
    <2>1. i + H \in Nat /\ u \in Nat
      OBVIOUS
    <2>2. (i + H) * u \in Nat
      BY <2>1
    <2>3. (i + H) * u = i * u + H * u
      OBVIOUS
    <2>4. QED
      BY <2>2, <2>3
  <1> DEFINE p == i * u
  <1> DEFINE q == H * u
  <1> DEFINE r == H * k
  <1>6. top = q + H + r /\ r \in Nat /\ q \in Nat /\ q - p \in Nat /\ p + q \in Nat
        /\ p \in Int /\ top \in Int /\ H > 0
    BY <1>1, <1>3, <1>4, <1>5
  <1> HIDE DEF p, q, r, top
  <1>7. p \in -top .. top - 1
    BY <1>6
  <1>8. QED
    BY <1>7 DEF p, top

\* u16 gives a word wherever the row has two bytes.
LEMMA WordRead ==
  ASSUME NEW row \in [RowBytes -> Byte], NEW o \in 0 .. 14
  PROVE  u16(row, o) \in Word
  <1>1. row[o] \in 0 .. 256 - 1 /\ row[o + 1] \in 0 .. 256 - 1
    BY DEF RowBytes, Byte
  <1>2. 256 \in Nat
    OBVIOUS
  <1>3. QED
    BY <1>1, <1>2, TwoDigits, Zenon DEF u16, Word

\* s16 gives what a short can hold.
LEMMA SignedRead ==
  ASSUME NEW w \in Word
  PROVE  s16(w) \in -(128 * 256) .. 128 * 256 - 1
  <1> DEFINE B == 256 * 256
  <1> DEFINE H == 128 * 256
  <1>1. B \in Nat /\ H \in Nat /\ B = 2 * H
    OBVIOUS
  <1>2. w \in 0 .. B - 1
    BY DEF Word
  <1>3. s16(w) = IF w < H THEN w ELSE w - B
    BY Zenon DEF s16
  <1> HIDE DEF B, H
  <1>4. s16(w) \in -H .. H - 1
    BY <1>1, <1>2, <1>3
  <1>5. QED
    BY <1>4, Zenon DEF H

(***************************************************************************)
(* The product that show_tp_ec_bat_power computes in an int before it      *)
(* divides by 1000 is one of the 2^32 values of an int, whatever the EC    *)
(* has put into the row: a current of 16 bits with sign times a voltage of *)
(* 16 bits without.                                                        *)
(***************************************************************************)
THEOREM PowerFits ==
  ASSUME NEW row \in [RowBytes -> Byte], NEW a \in DOMAIN powerAttributes
  PROVE  LET t == powerAttributes[a]
             bound == (128 * 256) * (256 * 256)
         IN Product(u16(row, t[1]), u16(row, t[2])) \in -bound .. bound - 1
  <1> DEFINE t == powerAttributes[a]
  <1>1. t[1] \in 0 .. 14 /\ t[2] \in 0 .. 14
    BY DEF powerAttributes
  <1> HIDE DEF t
  <1>2. u16(row, t[1]) \in 0 .. 256 * 256 - 1
    BY <1>1, WordRead, Zenon DEF Word
  <1>3. s16(u16(row, t[2])) \in -(128 * 256) .. 128 * 256 - 1
    BY <1>1, WordRead, SignedRead, Zenon
  <1> DEFINE volts == u16(row, t[1])
  <1> DEFINE amps == s16(u16(row, t[2]))
  <1> DEFINE B == 256 * 256
  <1> DEFINE H == 128 * 256
  <1>4. B \in Nat /\ H \in Nat /\ H > 0
    OBVIOUS
  <1>5. amps \in -H .. H - 1 /\ volts \in 0 .. B - 1
    BY <1>2, <1>3, Zenon
  <1> HIDE DEF volts, amps, B, H
  <1>6. amps * volts \in -(H * B) .. H * B - 1
    BY <1>4, <1>5, ProductBounds
  <1>7. Product(u16(row, t[1]), u16(row, t[2])) = amps * volts
    BY Zenon DEF Product, volts, amps
  <1>8. QED
    BY <1>6, <1>7, Zenon DEF t, B, H

=============================================================================
