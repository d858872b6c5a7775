------------------------- MODULE HdapsDevice_proofs -------------------------
(***************************************************************************)
(* The properties of HdapsDevice for any tasks, any rates, ratios and      *)
(* orders they store, and any width of the EC's registers: loading and     *)
(* unloading leave nothing behind, and the EC runs with the driver's       *)
(* configuration unless something came in between.                         *)
(***************************************************************************)
EXTENDS HdapsDevice, SequenceTheorems, TLAPS

StepNames == {Steps[i] : i \in DOMAIN Steps}
UndoNames == {Unwinding[i] : i \in DOMAIN Unwinding} \cup {Exit[1]}

\* Exactly the steps of hdaps_init before the n-th have acquired something.
DoneUpTo(n) == \A i \in DOMAIN Steps : Steps[i] \in held <=> i < n

-----------------------------------------------------------------------------
(* The variables of the attributes and of the EC.                          *)

\* Their part of TypeOK; a store has a value of its own attribute.
ValuesInv ==
  /\ call \in [Tasks -> Calls]
  /\ \A t \in Tasks :
       call[t].op = "store" => call[t].value \in Values[call[t].attr]
  /\ sampling_rate \in Rates /\ oversampling_ratio \in Ratios
  /\ running_avg_filter_order \in Orders
  /\ power \in BOOLEAN
  /\ ecRate \in 0 .. EcWord - 1 /\ ecOrder \in 0 .. OrderWord - 1
  /\ doubt \in BOOLEAN

-----------------------------------------------------------------------------
(* Loading and unloading.                                                  *)

\* What u releases, when u is what is left of an unwinding.
Owed(u) == {s \in StepNames : \E i \in DOMAIN u : s \in Releases(u[i])}

\* No two entries of u release the same but hdaps_idev, and the two requests
\* of hdaps_device_shutdown are entries that follow each other.
WellOrdered(u) ==
  /\ \A i, j \in DOMAIN u : \A s \in Releases(u[i]) \cap Releases(u[j]) :
       s = "idev" \/ i = j
  /\ \A i \in DOMAIN u :
       /\ u[i] = "power off" =>
            i + 1 \in DOMAIN u /\ u[i + 1] = "stop sampling"
       /\ u[i] = "stop sampling" /\ i # 1 => u[i - 1] = "power off"

\* What is held fits what the loader has still to do.
HeldInv ==
  /\ loader = "out" => held = {}
  /\ loader = "loading" => \E n \in DOMAIN Steps : DoneUpTo(n)
  /\ loader = "loaded" => held = StepNames
  /\ loader = "leaving" =>
       /\ WellOrdered(undo)
       /\ held \subseteq Owed(undo) /\ Owed(undo) \ {"idev"} \subseteq held
  /\ bound => "device" \in held
  /\ twice \subseteq {"idev"}

\* The attributes exist only in the group, and tasks are frozen only when
\* the loader is done.
CallsInv ==
  /\ "group" \notin held => \A t \in Tasks : call[t] = Idle
  /\ ~awake => loader \in {"out", "loaded"} /\ \A t \in Tasks : call[t] = Idle

\* How far hdaps_device_shutdown has got.
ShutInv ==
  /\ shut = "no" => loader # "out"
  /\ loader = "loading" /\ "device" \notin held => shut # "no"
  /\ loader \in {"loading", "loaded"} /\ "device" \in held => shut = "no"
  /\ loader = "leaving" /\ shut = "no" =>
       \E i \in DOMAIN undo : undo[i] = "stop sampling"
  /\ loader = "leaving" /\ undo # <<>> /\ undo[1] = "stop sampling" => ~power
  /\ shut \in {"yes", "restarted"} => ~power
  /\ shut = "yes" => ecRate = 0 /\ ecOrder = 1

\* The part of TypeOK about the loader, and what keeps it.
LoaderInv ==
  /\ loader \in {"out", "loading", "loaded", "leaving"}
  /\ undo \in Seq(UndoNames)
  /\ held \subseteq StepNames
  /\ bound \in BOOLEAN /\ awake \in BOOLEAN
  /\ shut \in {"no", "yes", "restarted", "failed"}
  /\ HeldInv /\ CallsInv /\ ShutInv

-----------------------------------------------------------------------------
(* The configuration.                                                      *)

\* The variables a store finds, with its own value.
RateWith(c) ==
  (IF c.attr = "rate" THEN c.value ELSE sampling_rate)
    * (IF c.attr = "ratio" THEN c.value ELSE oversampling_ratio)

OrderWith(c) ==
  IF c.attr = "order" THEN c.value ELSE running_avg_filter_order

\* The EC runs with rate and order.
EcHas(rate, order) == ecRate = rate % EcWord /\ ecOrder = order % OrderWord

Asked == {t \in Tasks : call[t].op = "store" /\ call[t].asked}

Running == loader \in {"loading", "loaded"}

\* A store that nothing overlapped asks for the variables as they still are.
StoresFit ==
  \A t \in InFlight :
    call[t].alone =>
      call[t].rate = RateWith(call[t]) /\ call[t].order = OrderWith(call[t])

\* The only store that was taken by the EC is what the EC runs with ...
TakenFits ==
  \A t \in Asked :
    Running /\ call[t].alone /\ Asked = {t} =>
      EcHas(call[t].rate, call[t].order)

\* ... and without one the EC runs with the variables.
VariablesFit ==
  Running /\ bound /\ awake /\ ~doubt /\ Asked = {} =>
    EcHas(sampling_rate * oversampling_ratio, running_avg_filter_order)

\* What a show has read is the product as long as nothing changes it.
ShowsFit ==
  \A t \in Tasks :
    call[t].op = "show" /\ call[t].alone =>
      call[t].rate = (sampling_rate * oversampling_ratio) % EcWord

ConfigInv == StoresFit /\ TakenFits /\ VariablesFit /\ ShowsFit

DeviceInv == ValuesInv /\ LoaderInv /\ ConfigInv
-----------------------------------------------------------------------------
(* Calls.                                                                  *)

LEMMA CallShapes ==
  ASSUME NEW c \in Calls
  PROVE  /\ c.op \in {"none", "store", "show"}
         /\ c.op = "none" <=> c = Idle
         /\ c.op = "store" =>
              /\ c.attr \in Attributes
              /\ c.asked \in BOOLEAN /\ c.alone \in BOOLEAN
              /\ c.rate \in Nat /\ c.order \in Int
         /\ c.op = "show" => c.rate \in 0 .. EcWord - 1 /\ c.alone \in BOOLEAN
  BY DEF Calls, Idle

LEMMA AskedCall ==
  ASSUME NEW c \in Calls, c.op = "store", NEW d, d = [c EXCEPT !.asked = TRUE]
  PROVE  /\ d \in Calls
         /\ d.op = "store" /\ d.attr = c.attr /\ d.value = c.value /\ d.asked
         /\ d.alone = c.alone /\ d.rate = c.rate /\ d.order = c.order
  <1>1. c \in [op : {"store"}, attr : Attributes,
               value : Rates \cup Ratios \cup Orders, asked : BOOLEAN,
               alone : BOOLEAN, rate : Nat, order : Int]
    BY DEF Calls, Idle
  <1>2. d \in Calls /\ d.op = "store" /\ d.attr = c.attr /\ d.value = c.value
    BY <1>1 DEF Calls
  <1>3. d.asked
    BY <1>1
  <1>4. d.alone = c.alone /\ d.rate = c.rate /\ d.order = c.order
    BY <1>1
  <1>5. QED
    BY <1>2, <1>3, <1>4

LEMMA OverlappedCall ==
  ASSUME NEW c \in Calls, c # Idle, NEW d, d = [c EXCEPT !.alone = FALSE]
  PROVE  /\ d \in Calls
         /\ d.op = c.op /\ ~d.alone
         /\ c.op = "store" =>
              /\ d.attr = c.attr /\ d.value = c.value /\ d.asked = c.asked
              /\ d.rate = c.rate /\ d.order = c.order
  <1>1. CASE c.op = "store"
    BY <1>1 DEF Calls, Idle
  <1>2. CASE c.op = "show"
    BY <1>2 DEF Calls, Idle
  <1>3. QED
    BY <1>1, <1>2, CallShapes

LEMMA IdleCall == Idle \in Calls /\ Idle.op = "none"
  BY DEF Calls, Idle

\* What the end of a call leaves: everybody else's, overlapped.
LEMMA EndsCalls ==
  ASSUME call \in [Tasks -> Calls], NEW t \in Tasks, Ends(t)
  PROVE  /\ call' \in [Tasks -> Calls]
         /\ call'[t] = Idle
         /\ \A u \in Tasks :
              /\ call[u] = Idle => call'[u] = Idle
              /\ u # t /\ call[u] # Idle =>
                   /\ call'[u].op = call[u].op /\ ~call'[u].alone
                   /\ call[u].op = "store" =>
                        /\ call'[u].attr = call[u].attr
                        /\ call'[u].value = call[u].value
                        /\ call'[u].asked = call[u].asked
  <1>1. \A u \in Tasks :
          call'[u] = IF u = t THEN Idle
                     ELSE IF call[u] = Idle THEN Idle
                     ELSE [call[u] EXCEPT !.alone = FALSE]
    BY DEF Ends
  <1>2. ASSUME NEW u \in Tasks
        PROVE  /\ call'[u] \in Calls
               /\ call[u] = Idle => call'[u] = Idle
               /\ u # t /\ call[u] # Idle =>
                   /\ call'[u].op = call[u].op /\ ~call'[u].alone
                   /\ call[u].op = "store" =>
                        /\ call'[u].attr = call[u].attr
                        /\ call'[u].value = call[u].value
                        /\ call'[u].asked = call[u].asked
    <2>1. CASE u = t \/ call[u] = Idle
      BY <1>1, <2>1, IdleCall
    <2>2. CASE u # t /\ call[u] # Idle
      <3>1. call[u] \in Calls /\ call'[u] = [call[u] EXCEPT !.alone = FALSE]
        BY <1>1, <2>2
      <3>2. QED
        BY <2>2, <3>1, OverlappedCall
    <2>3. QED
      BY <2>1, <2>2
  <1>3. call' = [u \in Tasks |-> call'[u]] /\ call'[t] = Idle
    BY <1>1 DEF Ends
  <1>4. QED
    BY <1>2, <1>3

LEMMA ConfiguresTypes ==
  ASSUME NEW rate \in Nat, NEW order \in Int, Configures(rate, order)
  PROVE  ecRate' \in 0 .. EcWord - 1 /\ ecOrder' \in 0 .. OrderWord - 1
  BY DeviceAssumption DEF Configures

LEMMA VariablesInt ==
  ASSUME ValuesInv
  PROVE  /\ sampling_rate \in Nat \ {0} /\ oversampling_ratio \in Nat \ {0}
         /\ running_avg_filter_order \in Int
         /\ sampling_rate * oversampling_ratio \in Nat
  <1>1. /\ sampling_rate \in Nat \ {0} /\ oversampling_ratio \in Nat \ {0}
        /\ running_avg_filter_order \in Int
    BY DeviceAssumption DEF ValuesInv
  <1>2. QED
    BY <1>1

-----------------------------------------------------------------------------
(* ValuesInv is an invariant.                                              *)

LEMMA ValuesOf ==
  ASSUME NEW a \in Attributes, NEW v \in Values[a]
  PROVE  /\ v \in Rates \cup Ratios \cup Orders
         /\ a = "rate" => v \in Rates
         /\ a = "ratio" => v \in Ratios
         /\ a = "order" => v \in Orders
  BY DEF Attributes, Values

LEMMA StoreValues ==
  ASSUME ValuesInv, NEW t \in Tasks, NEW a \in Attributes, NEW v \in Values[a],
         Store(t, a, v)
  PROVE  ValuesInv'
  <1> DEFINE rate == (IF a = "rate" THEN v ELSE sampling_rate)
                       * (IF a = "ratio" THEN v ELSE oversampling_ratio)
             order == IF a = "order" THEN v ELSE running_avg_filter_order
             c == [op |-> "store", attr |-> a, value |-> v, asked |-> FALSE,
                   alone |-> TRUE, rate |-> rate, order |-> order]
  <1>1. rate \in Nat /\ order \in Int
    <2>1. (IF a = "rate" THEN v ELSE sampling_rate) \in Nat
      BY VariablesInt, ValuesOf, DeviceAssumption
    <2>2. (IF a = "ratio" THEN v ELSE oversampling_ratio) \in Nat
      BY VariablesInt, ValuesOf, DeviceAssumption
    <2>3. order \in Int
      BY VariablesInt, ValuesOf, DeviceAssumption
    <2>4. QED
      BY <2>1, <2>2, <2>3
  <1>2. call' = [call EXCEPT ![t] = c]
    BY DEF Store
  <1> HIDE DEF rate, order
  <1>3. c \in Calls /\ c.attr = a /\ c.value = v
    BY <1>1, ValuesOf DEF Calls
  <1> HIDE DEF c
  <1>4. QED
    BY <1>2, <1>3 DEF Store, ValuesInv, config, ec

LEMMA RecordsValues ==
  ASSUME ValuesInv, NEW t \in Tasks, call[t].op = "store", Records(t)
  PROVE  ValuesInv'
  <1>1. /\ call[t] \in Calls /\ call[t].attr \in Attributes
        /\ call[t].value \in Values[call[t].attr]
        /\ call[t].alone \in BOOLEAN
    BY CallShapes DEF ValuesInv
  <1>2. /\ call' \in [Tasks -> Calls]
        /\ \A u \in Tasks :
             call'[u].op = "store" => call'[u].value \in Values[call'[u].attr]
    <2>1. /\ call' \in [Tasks -> Calls]
          /\ call'[t] = Idle
          /\ \A u \in Tasks :
              /\ call[u] = Idle => call'[u] = Idle
              /\ u # t /\ call[u] # Idle =>
                   /\ call'[u].op = call[u].op
                   /\ call[u].op = "store" =>
                        /\ call'[u].attr = call[u].attr
                        /\ call'[u].value = call[u].value
      BY EndsCalls DEF Records, ValuesInv
    <2>2. QED
      BY <2>1, IdleCall DEF ValuesInv
  <1>3. /\ sampling_rate' \in Rates /\ oversampling_ratio' \in Ratios
        /\ running_avg_filter_order' \in Orders
    <2>1. CASE call[t].attr = "rate"
      BY <1>1, <2>1, ValuesOf DEF Records, ValuesInv
    <2>2. CASE call[t].attr = "ratio"
      BY <1>1, <2>2, ValuesOf DEF Records, ValuesInv
    <2>3. CASE call[t].attr = "order"
      BY <1>1, <2>3, ValuesOf DEF Records, ValuesInv
    <2>4. QED
      BY <1>1, <2>1, <2>2, <2>3 DEF Attributes
  <1>4. UNCHANGED <<power, ecRate, ecOrder>> /\ doubt' \in BOOLEAN
    BY <1>1 DEF Records, ec
  <1>5. QED
    BY <1>2, <1>3, <1>4 DEF ValuesInv

\* hdaps_device_init and hdaps_device_shutdown.
LEMMA DeviceValues ==
  ASSUME ValuesInv,
         DeviceShutdown \/ \E good \in BOOLEAN : DeviceInit(good)
  PROVE  /\ power' \in BOOLEAN
         /\ ecRate' \in 0 .. EcWord - 1 /\ ecOrder' \in 0 .. OrderWord - 1
  <1>1. CASE DeviceShutdown
    <2>1. Configures(0, 1) \/ UNCHANGED <<ecRate, ecOrder>>
      BY <1>1 DEF DeviceShutdown
    <2>2. power' \in BOOLEAN
      BY <1>1 DEF DeviceShutdown, ValuesInv
    <2>3. QED
      BY <2>1, <2>2, ConfiguresTypes DEF ValuesInv
  <1>2. ASSUME NEW good \in BOOLEAN, DeviceInit(good)
        PROVE  /\ power' \in BOOLEAN
               /\ ecRate' \in 0 .. EcWord - 1 /\ ecOrder' \in 0 .. OrderWord - 1
    <2>1. \/ Configures(sampling_rate * oversampling_ratio, running_avg_filter_order)
          \/ UNCHANGED <<ecRate, ecOrder>>
      BY <1>2 DEF DeviceInit
    <2>2. power' \in BOOLEAN
      BY <1>2 DEF DeviceInit, ValuesInv
    <2>3. QED
      BY <2>1, <2>2, ConfiguresTypes, VariablesInt DEF ValuesInv
  <1>3. QED
    BY <1>1, <1>2

LEMMA ValuesInit == Init => ValuesInv
  <1> SUFFICES ASSUME Init
               PROVE  ValuesInv
    OBVIOUS
  <1>1. call \in [Tasks -> Calls] /\ \A t \in Tasks : call[t].op # "store"
    BY IdleCall DEF Init
  <1>2. ecRate \in 0 .. EcWord - 1 /\ ecOrder \in 0 .. OrderWord - 1
    BY DeviceAssumption DEF Init
  <1>3. QED
    BY <1>1, <1>2 DEF Init, ValuesInv

LEMMA ValuesStep == ValuesInv /\ [Next]_vars => ValuesInv'
  <1> SUFFICES ASSUME ValuesInv, [Next]_vars
               PROVE  ValuesInv'
    OBVIOUS
  <1> USE DEF config, ec, loadVars
  <1>1. ASSUME NEW t \in Tasks, NEW a \in Attributes, NEW v \in Values[a],
               Store(t, a, v)
        PROVE  ValuesInv'
    BY <1>1, StoreValues
  <1>2. ASSUME NEW t \in Tasks, Configure(t)
        PROVE  ValuesInv'
    <2>1. /\ call[t] \in Calls /\ call[t].op = "store"
          /\ call[t].rate \in Nat /\ call[t].order \in Int
      BY <1>2, CallShapes DEF Configure, ValuesInv
    <2>2. ecRate' \in 0 .. EcWord - 1 /\ ecOrder' \in 0 .. OrderWord - 1
      BY <1>2, <2>1, ConfiguresTypes DEF Configure
    <2>3. /\ call'[t] \in Calls /\ call'[t].attr = call[t].attr
          /\ call'[t].value = call[t].value
          /\ call' = [call EXCEPT ![t] = call'[t]]
      <3> DEFINE d == [call[t] EXCEPT !.asked = TRUE]
      <3>1. call' = [call EXCEPT ![t] = d]
        BY <1>2 DEF Configure
      <3>2. d \in Calls /\ d.attr = call[t].attr /\ d.value = call[t].value
        BY <2>1, AskedCall
      <3>3. call'[t] = d
        BY <3>1 DEF ValuesInv
      <3>4. QED
        BY <3>1, <3>2, <3>3
    <2>4. QED
      BY <1>2, <2>1, <2>2, <2>3 DEF Configure, ValuesInv
  <1>3. ASSUME NEW t \in Tasks, StoreFails(t)
        PROVE  ValuesInv'
    <2>1. CASE call[t].asked
      <3>1. /\ call' \in [Tasks -> Calls]
            /\ call'[t] = Idle
            /\ \A u \in Tasks :
                /\ call[u] = Idle => call'[u] = Idle
                /\ u # t /\ call[u] # Idle =>
                     /\ call'[u].op = call[u].op
                     /\ call[u].op = "store" =>
                          /\ call'[u].attr = call[u].attr
                          /\ call'[u].value = call[u].value
        BY <1>3, <2>1, EndsCalls DEF StoreFails, ValuesInv
      <3>2. QED
        BY <1>3, <2>1, <3>1, IdleCall DEF StoreFails, ValuesInv
    <2>2. CASE ~call[t].asked
      BY <1>3, <2>2, IdleCall DEF StoreFails, ValuesInv
    <2>3. QED
      BY <2>1, <2>2
  <1>4. ASSUME NEW t \in Tasks, StoreEnds(t)
        PROVE  ValuesInv'
    BY <1>4, RecordsValues DEF StoreEnds
  <1>5. ASSUME NEW t \in Tasks, ShowRatio(t)
        PROVE  ValuesInv'
    <2> DEFINE c == [op |-> "show", rate |-> ecRate,
                     alone |-> InFlight = {} /\ ~doubt /\ bound /\ loader = "loaded"]
    <2>1. c \in Calls /\ c.op = "show"
      BY DEF Calls, ValuesInv
    <2>2. call' = [call EXCEPT ![t] = c]
      BY <1>5 DEF ShowRatio
    <2> HIDE DEF c
    <2>3. QED
      BY <1>5, <2>1, <2>2 DEF ShowRatio, ValuesInv
  <1>6. ASSUME NEW t \in Tasks, ShowEnds(t)
        PROVE  ValuesInv'
    BY <1>6, IdleCall DEF ShowEnds, ValuesInv
  <1>7. CASE Suspend
    <2>1. /\ power' \in BOOLEAN
          /\ ecRate' \in 0 .. EcWord - 1 /\ ecOrder' \in 0 .. OrderWord - 1
      BY <1>7, DeviceValues DEF Suspend, ValuesInv
    <2>2. QED
      BY <1>7, <2>1 DEF Suspend, ValuesInv
  <1>8. CASE Resume
    <2>1. doubt' \in BOOLEAN
      BY <1>8 DEF Resume, DeviceInit, ValuesInv
    <2>2. /\ power' \in BOOLEAN
          /\ ecRate' \in 0 .. EcWord - 1 /\ ecOrder' \in 0 .. OrderWord - 1
      BY <1>8, DeviceValues DEF Resume, ValuesInv
    <2>3. QED
      BY <1>8, <2>1, <2>2 DEF Resume, ValuesInv
  <1>9. CASE Acquire
    <2>1. doubt' \in BOOLEAN
      BY <1>9 DEF Acquire, DeviceInit, ValuesInv
    <2>2. /\ power' \in BOOLEAN
          /\ ecRate' \in 0 .. EcWord - 1 /\ ecOrder' \in 0 .. OrderWord - 1
      BY <1>9, DeviceValues DEF Acquire, ValuesInv
    <2>3. QED
      BY <1>9, <2>1, <2>2 DEF Acquire, ValuesInv
  <1>10. CASE Load \/ AcquireFails \/ Unload \/ Release \/ Left
    BY <1>10 DEF Load, AcquireFails, Unload, Release, Left, ValuesInv
  <1>11. CASE PowerOff
    BY <1>11 DEF PowerOff, Powers, ValuesInv
  <1>12. CASE StopSampling
    <2>1. ecRate' \in 0 .. EcWord - 1 /\ ecOrder' \in 0 .. OrderWord - 1
      <3>1. CASE Configures(0, 1)
        <4>1. 0 \in Nat /\ 1 \in Int
          OBVIOUS
        <4>2. QED
          BY <3>1, <4>1, ConfiguresTypes
      <3>2. CASE UNCHANGED <<ecRate, ecOrder>>
        BY <3>2 DEF ValuesInv
      <3>3. QED
        BY <1>12, <3>1, <3>2 DEF StopSampling
    <2>2. QED
      BY <1>12, <2>1 DEF StopSampling, ValuesInv
  <1>13. CASE UNCHANGED vars
    BY <1>13 DEF vars, ValuesInv
  <1>14. QED
    BY <1>1, <1>2, <1>3, <1>4, <1>5, <1>6, <1>7, <1>8, <1>9, <1>10, <1>11,
       <1>12, <1>13 DEF Next
-----------------------------------------------------------------------------
(* The steps of hdaps_init and what unwinds them.                          *)

\* The sequences by their elements.
LEMMA StepsAre ==
  /\ DOMAIN Steps = 1 .. 7
  /\ Steps[1] = "driver" /\ Steps[2] = "device" /\ Steps[3] = "group"
  /\ Steps[4] = "idev" /\ Steps[5] = "raw" /\ Steps[6] = "idev registered"
  /\ Steps[7] = "raw registered"
  BY DEF Steps

LEMMA UnwindingIs ==
  /\ Len(Unwinding) = 8 /\ DOMAIN Unwinding = 1 .. 8
  /\ Unwinding[1] = "unregister idev" /\ Unwinding[2] = "free raw"
  /\ Unwinding[3] = "free idev" /\ Unwinding[4] = "group"
  /\ Unwinding[5] = "device" /\ Unwinding[6] = "driver"
  /\ Unwinding[7] = "power off" /\ Unwinding[8] = "stop sampling"
  BY DEF Unwinding

LEMMA ExitIs ==
  /\ Len(Exit) = 7 /\ DOMAIN Exit = 1 .. 7
  /\ Exit[1] = "unregister raw" /\ Exit[2] = "unregister idev"
  /\ Exit[3] = "power off" /\ Exit[4] = "stop sampling"
  /\ Exit[5] = "group" /\ Exit[6] = "device" /\ Exit[7] = "driver"
  BY DEF Exit

LEMMA Numbers ==
  /\ \A i \in 1 .. 7 : i = 1 \/ i = 2 \/ i = 3 \/ i = 4 \/ i = 5 \/ i = 6 \/ i = 7
  /\ \A i \in 1 .. 8 : i \in 1 .. 7 \/ i = 8
  OBVIOUS

LEMMA StepNamesAre ==
  /\ \A s \in StepNames :
       \/ s = "driver" \/ s = "device" \/ s = "group" \/ s = "idev" \/ s = "raw"
       \/ s = "idev registered" \/ s = "raw registered"
  /\ "driver" \in StepNames /\ "device" \in StepNames /\ "group" \in StepNames
  /\ "idev" \in StepNames /\ "raw" \in StepNames
  /\ "idev registered" \in StepNames /\ "raw registered" \in StepNames
  <1>1. ASSUME NEW s \in StepNames
        PROVE  \/ s = "driver" \/ s = "device" \/ s = "group" \/ s = "idev"
               \/ s = "raw" \/ s = "idev registered" \/ s = "raw registered"
    <2>1. PICK i \in 1 .. 7 : s = Steps[i]
      BY StepsAre DEF StepNames
    <2>2. \/ i = 1 \/ i = 2 \/ i = 3 \/ i = 4 \/ i = 5 \/ i = 6 \/ i = 7
      BY Numbers
    <2>3. \/ s = Steps[1] \/ s = Steps[2] \/ s = Steps[3] \/ s = Steps[4]
          \/ s = Steps[5] \/ s = Steps[6] \/ s = Steps[7]
      BY <2>1, <2>2
    <2>4. QED
      BY <2>3, StepsAre
  <1>2. \A i \in DOMAIN Steps : Steps[i] \in StepNames
    BY DEF StepNames
  <1>3. \A i \in 1 .. 7 : Steps[i] \in StepNames
    BY <1>2, StepsAre
  <1>4. /\ Steps[1] \in StepNames /\ Steps[2] \in StepNames
        /\ Steps[3] \in StepNames /\ Steps[4] \in StepNames
        /\ Steps[5] \in StepNames /\ Steps[6] \in StepNames
        /\ Steps[7] \in StepNames
    BY <1>3
  <1>5. /\ "driver" \in StepNames /\ "device" \in StepNames
        /\ "group" \in StepNames /\ "idev" \in StepNames
        /\ "raw" \in StepNames /\ "idev registered" \in StepNames
        /\ "raw registered" \in StepNames
    BY <1>4, StepsAre
  <1>6. QED
    BY <1>1, <1>5

LEMMA UndoNamesAre ==
  /\ \A s \in UndoNames :
       \/ s = "unregister idev" \/ s = "free raw" \/ s = "free idev"
       \/ s = "group" \/ s = "device" \/ s = "driver" \/ s = "power off"
       \/ s = "stop sampling" \/ s = "unregister raw"
  /\ {"unregister idev", "free raw", "free idev", "group", "device", "driver",
      "power off", "stop sampling", "unregister raw"} \subseteq UndoNames
  <1>1. ASSUME NEW i \in DOMAIN Unwinding
        PROVE  \/ Unwinding[i] = "unregister idev" \/ Unwinding[i] = "free raw"
               \/ Unwinding[i] = "free idev" \/ Unwinding[i] = "group"
               \/ Unwinding[i] = "device" \/ Unwinding[i] = "driver"
               \/ Unwinding[i] = "power off" \/ Unwinding[i] = "stop sampling"
    <2>1. \/ i = 1 \/ i = 2 \/ i = 3 \/ i = 4 \/ i = 5 \/ i = 6 \/ i = 7 \/ i = 8
      BY Numbers, UnwindingIs
    <2>2. QED
      BY <2>1, UnwindingIs
  <1>2. \A s \in UndoNames :
          s = "unregister raw" \/ \E i \in DOMAIN Unwinding : s = Unwinding[i]
    BY ExitIs DEF UndoNames
  <1>3. /\ \A i \in DOMAIN Unwinding : Unwinding[i] \in UndoNames
        /\ Exit[1] \in UndoNames
    BY DEF UndoNames
  <1>4. \A i \in 1 .. 8 : Unwinding[i] \in UndoNames
    BY <1>3, UnwindingIs
  <1>5. /\ Unwinding[1] \in UndoNames /\ Unwinding[2] \in UndoNames
        /\ Unwinding[3] \in UndoNames /\ Unwinding[4] \in UndoNames
        /\ Unwinding[5] \in UndoNames /\ Unwinding[6] \in UndoNames
        /\ Unwinding[7] \in UndoNames /\ Unwinding[8] \in UndoNames
    BY <1>4
  <1>6. /\ "unregister idev" \in UndoNames /\ "free raw" \in UndoNames
        /\ "free idev" \in UndoNames /\ "group" \in UndoNames
        /\ "device" \in UndoNames /\ "driver" \in UndoNames
        /\ "power off" \in UndoNames /\ "stop sampling" \in UndoNames
    BY <1>5, UnwindingIs
  <1>7. "unregister raw" \in UndoNames
    BY <1>3, ExitIs
  <1>8. ASSUME NEW s \in UndoNames
        PROVE  \/ s = "unregister idev" \/ s = "free raw" \/ s = "free idev"
               \/ s = "group" \/ s = "device" \/ s = "driver"
               \/ s = "power off" \/ s = "stop sampling" \/ s = "unregister raw"
    BY <1>1, <1>2
  <1>9. QED
    BY <1>6, <1>7, <1>8

\* NextStep is the step after those that are done.
LEMMA NextStepIs ==
  ASSUME NEW n \in DOMAIN Steps, DoneUpTo(n)
  PROVE  NextStep = Steps[n]
  <1> DEFINE Due(m) ==
               Steps[m] \notin held /\ \A i \in 1 .. m - 1 : Steps[i] \in held
  <1>1. n \in 1 .. 7 /\ \A i \in 1 .. 7 : Steps[i] \in held <=> i < n
    BY StepsAre DEF DoneUpTo
  <1>2. Due(n)
    BY <1>1
  <1>3. ASSUME NEW m \in DOMAIN Steps, Due(m)
        PROVE  m = n
    <2>1. m \in 1 .. 7 /\ ~(m < n)
      BY <1>1, <1>3, StepsAre
    <2>2. ~(n < m)
      BY <1>1, <1>3, <2>1
    <2>3. QED
      BY <1>1, <2>1, <2>2
  <1> HIDE DEF Due
  <1>4. (CHOOSE m \in DOMAIN Steps : Due(m)) = n
    BY <1>2, <1>3
  <1>5. QED
    BY <1>4 DEF NextStep, Due

LEMMA ReleasesOf ==
  /\ Releases("unregister idev") = {"idev registered", "idev"}
  /\ Releases("unregister raw") = {"raw registered", "raw"}
  /\ Releases("free idev") = {"idev"} /\ Releases("free raw") = {"raw"}
  /\ Releases("group") = {"group"} /\ Releases("device") = {"device"}
  /\ Releases("driver") = {"driver"} /\ Releases("power off") = {"power off"}
  /\ Releases("stop sampling") = {"stop sampling"}
  <1>1. Releases("unregister idev") = {"idev registered", "idev"}
    BY DEF Releases
  <1>2. Releases("unregister raw") = {"raw registered", "raw"}
    BY DEF Releases
  <1>3. Releases("free idev") = {"idev"} /\ Releases("free raw") = {"raw"}
    BY DEF Releases
  <1>4. /\ Releases("group") = {"group"} /\ Releases("device") = {"device"}
        /\ Releases("driver") = {"driver"}
    BY DEF Releases
  <1>5. /\ Releases("power off") = {"power off"}
        /\ Releases("stop sampling") = {"stop sampling"}
    BY DEF Releases
  <1>6. QED
    BY <1>1, <1>2, <1>3, <1>4, <1>5

LEMMA LabelOf ==
  ASSUME NEW n \in 1 .. 7
  PROVE  Label(Steps[n]) = IF n = 1 THEN 9 ELSE IF n = 2 THEN 6 ELSE 8 - n
  <1>1. Label("driver") = 9 /\ Label("device") = 6 /\ Label("group") = 5
    BY DEF Label
  <1>2. Label("idev") = 4 /\ Label("raw") = 3
    BY DEF Label
  <1>3. Label("idev registered") = 2 /\ Label("raw registered") = 1
    BY DEF Label
  <1>4. n = 1 \/ n = 2 \/ n = 3 \/ n = 4 \/ n = 5 \/ n = 6 \/ n = 7
    BY Numbers
  <1>5. /\ Label(Steps[1]) = 9 /\ Label(Steps[2]) = 6 /\ Label(Steps[3]) = 5
        /\ Label(Steps[4]) = 4 /\ Label(Steps[5]) = 3 /\ Label(Steps[6]) = 2
        /\ Label(Steps[7]) = 1
    BY <1>1, <1>2, <1>3, StepsAre
  <1>6. \A l : \/ n = 1 /\ l = 9
               \/ n = 2 /\ l = 6
               \/ n \in 3 .. 7 /\ l = 8 - n
               => l = IF n = 1 THEN 9 ELSE IF n = 2 THEN 6 ELSE 8 - n
    OBVIOUS
  <1>7. QED
    BY <1>4, <1>5, <1>6

\* The entry of Unwinding that releases s.
UnwoundAt(s) ==
  IF s = "idev registered" THEN 1 ELSE IF s = "raw" THEN 2
  ELSE IF s = "group" THEN 4 ELSE IF s = "device" THEN 5
  ELSE IF s = "driver" THEN 6 ELSE IF s = "power off" THEN 7 ELSE 8

LEMMA UnwindingReleases ==
  /\ Releases(Unwinding[1]) = {"idev registered", "idev"}
  /\ Releases(Unwinding[2]) = {"raw"} /\ Releases(Unwinding[3]) = {"idev"}
  /\ Releases(Unwinding[4]) = {"group"} /\ Releases(Unwinding[5]) = {"device"}
  /\ Releases(Unwinding[6]) = {"driver"}
  /\ Releases(Unwinding[7]) = {"power off"}
  /\ Releases(Unwinding[8]) = {"stop sampling"}
  BY UnwindingIs, ReleasesOf

LEMMA UnwoundOnce ==
  ASSUME NEW i \in 1 .. 8, NEW s \in Releases(Unwinding[i])
  PROVE  s = "idev" \/ i = UnwoundAt(s)
  <1>1. \/ i = 1 \/ i = 2 \/ i = 3 \/ i = 4 \/ i = 5 \/ i = 6 \/ i = 7 \/ i = 8
    BY Numbers
  <1>2. CASE i = 1
    BY <1>2, UnwindingReleases DEF UnwoundAt
  <1>3. CASE i = 2
    BY <1>3, UnwindingReleases DEF UnwoundAt
  <1>4. CASE i = 3
    BY <1>4, UnwindingReleases DEF UnwoundAt
  <1>5. CASE i = 4
    BY <1>5, UnwindingReleases DEF UnwoundAt
  <1>6. CASE i = 5
    BY <1>6, UnwindingReleases DEF UnwoundAt
  <1>7. CASE i = 6
    BY <1>7, UnwindingReleases DEF UnwoundAt
  <1>8. CASE i = 7
    BY <1>8, UnwindingReleases DEF UnwoundAt
  <1>9. CASE i = 8
    BY <1>9, UnwindingReleases DEF UnwoundAt
  <1>10. QED
    BY <1>1, <1>2, <1>3, <1>4, <1>5, <1>6, <1>7, <1>8, <1>9

LEMMA OrderedUnwinding == Unwinding \in Seq(UndoNames) /\ WellOrdered(Unwinding)
  <1>1. Unwinding \in Seq(UndoNames)
    <2>1. Unwinding \in Seq({"unregister idev", "free raw", "free idev", "group",
                             "device", "driver", "power off", "stop sampling"})
      BY DEF Unwinding
    <2>2. QED
      BY <2>1, UndoNamesAre, SeqMonotonic
  <1>2. \A i, j \in DOMAIN Unwinding :
          \A s \in Releases(Unwinding[i]) \cap Releases(Unwinding[j]) :
            s = "idev" \/ i = j
    BY UnwoundOnce, UnwindingIs
  <1>3. ASSUME NEW i \in DOMAIN Unwinding
        PROVE  /\ Unwinding[i] = "power off" => i = 7
               /\ Unwinding[i] = "stop sampling" => i = 8
    <2>1. \/ i = 1 \/ i = 2 \/ i = 3 \/ i = 4 \/ i = 5 \/ i = 6 \/ i = 7 \/ i = 8
      BY Numbers, UnwindingIs
    <2>2. QED
      BY <2>1, UnwindingIs
  <1>4. 7 + 1 = 8 /\ 8 - 1 = 7
    OBVIOUS
  <1>5. ASSUME NEW i \in DOMAIN Unwinding
        PROVE  /\ Unwinding[i] = "power off" =>
                    i + 1 \in DOMAIN Unwinding /\ Unwinding[i + 1] = "stop sampling"
               /\ Unwinding[i] = "stop sampling" /\ i # 1 =>
                    Unwinding[i - 1] = "power off"
    <2>1. CASE Unwinding[i] = "power off"
      <3>1. i + 1 = 8
        BY <1>3, <1>4, <2>1
      <3>2. 8 \in DOMAIN Unwinding
        BY DEF Unwinding
      <3>3. QED
        BY <2>1, <3>1, <3>2, UnwindingIs
    <2>2. CASE Unwinding[i] = "stop sampling"
      <3>1. i - 1 = 7
        BY <1>3, <1>4, <2>2
      <3>2. QED
        BY <2>2, <3>1, UnwindingIs
    <2>3. QED
      BY <2>1, <2>2
  <1>6. QED
    BY <1>1, <1>2, <1>5 DEF WellOrdered

\* The entry of Exit that releases s.
ExitAt(s) ==
  IF s = "raw registered" \/ s = "raw" THEN 1
  ELSE IF s = "idev registered" THEN 2 ELSE IF s = "power off" THEN 3
  ELSE IF s = "stop sampling" THEN 4 ELSE IF s = "group" THEN 5
  ELSE IF s = "device" THEN 6 ELSE 7

LEMMA ExitReleases ==
  /\ Releases(Exit[1]) = {"raw registered", "raw"}
  /\ Releases(Exit[2]) = {"idev registered", "idev"}
  /\ Releases(Exit[3]) = {"power off"} /\ Releases(Exit[4]) = {"stop sampling"}
  /\ Releases(Exit[5]) = {"group"} /\ Releases(Exit[6]) = {"device"}
  /\ Releases(Exit[7]) = {"driver"}
  BY ExitIs, ReleasesOf

LEMMA OrderedExit ==
  /\ Exit \in Seq(UndoNames) /\ WellOrdered(Exit) /\ StepNames \subseteq Owed(Exit)
  /\ \E i \in DOMAIN Exit : Exit[i] = "stop sampling"
  /\ Exit # <<>> /\ Exit[1] # "stop sampling"
  <1>0. \A i \in DOMAIN Exit :
          i = 1 \/ i = 2 \/ i = 3 \/ i = 4 \/ i = 5 \/ i = 6 \/ i = 7
    BY Numbers, ExitIs
  <1>1. Exit \in Seq(UndoNames)
    <2>1. Exit \in Seq({"unregister raw", "unregister idev", "power off",
                        "stop sampling", "group", "device", "driver"})
      BY DEF Exit
    <2>2. QED
      BY <2>1, UndoNamesAre, SeqMonotonic
  <1>2. ASSUME NEW i \in DOMAIN Exit, NEW s \in Releases(Exit[i])
        PROVE  s = "idev" \/ i = ExitAt(s)
    <2>1. CASE i = 1 \/ i = 2
      BY <1>2, <2>1, ExitReleases DEF ExitAt
    <2>2. CASE i = 3 \/ i = 4
      BY <1>2, <2>2, ExitReleases DEF ExitAt
    <2>3. CASE i = 5 \/ i = 6 \/ i = 7
      BY <1>2, <2>3, ExitReleases DEF ExitAt
    <2>4. QED
      BY <1>0, <2>1, <2>2, <2>3
  <1>3. \A i \in DOMAIN Exit :
          /\ Exit[i] = "power off" => i = 3
          /\ Exit[i] = "stop sampling" => i = 4
    BY <1>0, ExitIs
  <1>4. 3 + 1 = 4 /\ 4 - 1 = 3
    OBVIOUS
  <1>5. WellOrdered(Exit)
    <2>1. ASSUME NEW i \in DOMAIN Exit
          PROVE  /\ Exit[i] = "power off" =>
                      i + 1 \in DOMAIN Exit /\ Exit[i + 1] = "stop sampling"
                 /\ Exit[i] = "stop sampling" /\ i # 1 => Exit[i - 1] = "power off"
      <3>1. CASE Exit[i] = "power off"
        <4>1. i + 1 = 4
          BY <1>3, <1>4, <3>1
        <4>2. 4 \in DOMAIN Exit
          BY DEF Exit
        <4>3. QED
          BY <3>1, <4>1, <4>2, ExitIs
      <3>2. CASE Exit[i] = "stop sampling"
        <4>1. i - 1 = 3
          BY <1>3, <1>4, <3>2
        <4>2. QED
          BY <3>2, <4>1, ExitIs
      <3>3. QED
        BY <3>1, <3>2
    <2>2. \A i, j \in DOMAIN Exit :
            \A s \in Releases(Exit[i]) \cap Releases(Exit[j]) : s = "idev" \/ i = j
      BY <1>2
    <2>3. QED
      BY <2>1, <2>2 DEF WellOrdered
  <1>6. StepNames \subseteq Owed(Exit)
    <2> SUFFICES ASSUME NEW s \in StepNames
                 PROVE  \E i \in 1 .. 7 : s \in Releases(Exit[i])
      BY ExitIs DEF Owed
    <2>1. \/ s \in Releases(Exit[1]) \/ s \in Releases(Exit[2])
          \/ s \in Releases(Exit[5]) \/ s \in Releases(Exit[6])
          \/ s \in Releases(Exit[7])
      BY StepNamesAre, ExitReleases
    <2>2. QED
      BY <2>1
  <1>7. Exit # <<>>
    BY DEF Exit
  <1>8. 4 \in DOMAIN Exit
    BY DEF Exit
  <1>9. QED
    BY <1>1, <1>5, <1>6, <1>7, <1>8, ExitIs

\* The indices around an entry and around its place in the whole sequence.
LEMMA Shift ==
  ASSUME NEW i \in Nat, NEW k \in Nat, NEW m \in Nat,
         k >= 1, i >= 1, i <= m - k + 1
  PROVE  /\ (i + k - 1) + 1 = (i + 1) + k - 1
         /\ (i - 1) + k - 1 = (i + k - 1) - 1
         /\ (i + k - 1) + 1 \in 1 .. m => i + 1 \in 1 .. m - k + 1
         /\ i # 1 => i + k - 1 # 1 /\ i - 1 \in 1 .. m - k + 1
  <1>1. (i + k - 1) + 1 = (i + 1) + k - 1
    OBVIOUS
  <1>2. (i - 1) + k - 1 = (i + k - 1) - 1
    OBVIOUS
  <1>3. (i + k - 1) + 1 \in 1 .. m => i + 1 \in 1 .. m - k + 1
    OBVIOUS
  <1>4. i # 1 => i + k - 1 # 1
    OBVIOUS
  <1>5. i # 1 => i - 1 \in 1 .. m - k + 1
    OBVIOUS
  <1>6. QED
    BY <1>1, <1>2, <1>3, <1>4, <1>5

\* The end of a well-ordered sequence is one, too.
LEMMA OrderedSuffix ==
  ASSUME NEW u \in Seq(UndoNames), WellOrdered(u), NEW k \in 1 .. Len(u) + 1,
         NEW v, v = SubSeq(u, k, Len(u))
  PROVE  /\ v \in Seq(UndoNames) /\ Len(v) = Len(u) - k + 1
         /\ \A i \in 1 .. Len(v) : v[i] = u[i + k - 1]
         /\ WellOrdered(v)
  <1>0. /\ Len(u) \in Nat /\ DOMAIN u = 1 .. Len(u)
        /\ k \in Nat /\ k >= 1 /\ k <= Len(u) + 1
    OBVIOUS
  <1>1. /\ v \in Seq(UndoNames) /\ Len(v) = Len(u) - k + 1
        /\ \A i \in 1 .. Len(v) : v[i] = u[i + k - 1]
    OBVIOUS
  <1>2. \A i \in 1 .. Len(v) : i + k - 1 \in DOMAIN u
    BY <1>1
  <1>3. ASSUME NEW i \in DOMAIN v, NEW j \in DOMAIN v,
               NEW s \in Releases(v[i]) \cap Releases(v[j])
        PROVE  s = "idev" \/ i = j
    <2>1. /\ i \in 1 .. Len(v) /\ j \in 1 .. Len(v)
          /\ i + k - 1 \in DOMAIN u /\ j + k - 1 \in DOMAIN u
          /\ v[i] = u[i + k - 1] /\ v[j] = u[j + k - 1]
      BY <1>1, <1>2
    <2>2. s = "idev" \/ i + k - 1 = j + k - 1
      BY <1>3, <2>1 DEF WellOrdered
    <2>3. QED
      BY <2>1, <2>2
  <1>4. ASSUME NEW i \in 1 .. Len(v)
        PROVE  /\ v[i] = "power off" =>
                    i + 1 \in DOMAIN v /\ v[i + 1] = "stop sampling"
               /\ v[i] = "stop sampling" /\ i # 1 => v[i - 1] = "power off"
    <2>0. i \in Nat /\ i >= 1 /\ i <= Len(v) /\ Len(v) = Len(u) - k + 1
      BY <1>0, <1>1
    <2>1. i + k - 1 \in DOMAIN u /\ v[i] = u[i + k - 1]
      BY <1>1, <1>2
    <2> DEFINE m == Len(u)
    <2>4. /\ (i + k - 1) + 1 = (i + 1) + k - 1
          /\ (i - 1) + k - 1 = (i + k - 1) - 1
          /\ (i + k - 1) + 1 \in 1 .. m => i + 1 \in 1 .. m - k + 1
          /\ i # 1 => i + k - 1 # 1 /\ i - 1 \in 1 .. m - k + 1
      <3> HIDE DEF m
      <3>1. m \in Nat /\ i <= m - k + 1
        BY <1>0, <2>0 DEF m
      <3>2. QED
        BY <1>0, <2>0, <3>1, Shift
    <2>2. ASSUME v[i] = "power off"
          PROVE  i + 1 \in DOMAIN v /\ v[i + 1] = "stop sampling"
      <3>1. (i + k - 1) + 1 \in DOMAIN u /\ u[(i + k - 1) + 1] = "stop sampling"
        BY <2>1, <2>2 DEF WellOrdered
      <3>2. (i + k - 1) + 1 = (i + 1) + k - 1
        BY <2>4
      <3>3. i + 1 \in 1 .. Len(v)
        BY <1>0, <2>0, <2>4, <3>1
      <3>4. v[i + 1] = u[(i + 1) + k - 1] /\ i + 1 \in DOMAIN v
        BY <1>1, <3>3
      <3>5. QED
        BY <3>1, <3>2, <3>4
    <2>3. ASSUME v[i] = "stop sampling", i # 1
          PROVE  v[i - 1] = "power off"
      <3>1. i + k - 1 # 1 /\ i - 1 \in 1 .. Len(v)
        BY <2>0, <2>3, <2>4
      <3>2. u[(i + k - 1) - 1] = "power off"
        BY <2>1, <2>3, <3>1 DEF WellOrdered
      <3>3. (i - 1) + k - 1 = (i + k - 1) - 1
        BY <2>4
      <3>4. v[i - 1] = u[(i - 1) + k - 1]
        BY <1>1, <3>1
      <3>5. QED
        BY <3>2, <3>3, <3>4
    <2>5. QED
      BY <2>2, <2>3
  <1>5. DOMAIN v = 1 .. Len(v)
    BY <1>1
  <1>6. QED
    BY <1>1, <1>3, <1>4, <1>5 DEF WellOrdered

LEMMA OrderedTail ==
  ASSUME NEW u \in Seq(UndoNames), WellOrdered(u), u # <<>>
  PROVE  /\ Tail(u) \in Seq(UndoNames) /\ Len(Tail(u)) = Len(u) - 1
         /\ \A i \in 1 .. Len(u) - 1 : Tail(u)[i] = u[i + 1]
         /\ WellOrdered(Tail(u))
         /\ Head(u) = u[1] /\ 1 \in DOMAIN u /\ Head(u) \in UndoNames
         /\ Owed(u) = Owed(Tail(u)) \cup (Releases(Head(u)) \cap StepNames)
         /\ Owed(Tail(u)) \cap Releases(Head(u)) \subseteq {"idev"}
  <1>1. /\ Tail(u) \in Seq(UndoNames) /\ Len(Tail(u)) = Len(u) - 1
        /\ \A i \in 1 .. Len(u) - 1 : Tail(u)[i] = u[i + 1]
        /\ Head(u) = u[1] /\ 1 \in DOMAIN u /\ Head(u) \in UndoNames
    OBVIOUS
  <1>2. Tail(u) = SubSeq(u, 2, Len(u)) /\ 2 \in 1 .. Len(u) + 1
    BY <1>1
  <1>3. WellOrdered(Tail(u))
    BY <1>2, OrderedSuffix
  <1>4. Owed(u) = Owed(Tail(u)) \cup (Releases(Head(u)) \cap StepNames)
    <2>1. ASSUME NEW s \in StepNames, NEW i \in DOMAIN u, s \in Releases(u[i])
          PROVE  s \in Owed(Tail(u)) \cup (Releases(Head(u)) \cap StepNames)
      <3>1. CASE i = 1
        BY <1>1, <2>1, <3>1
      <3>2. CASE i # 1
        <4>1. i - 1 \in DOMAIN Tail(u) /\ Tail(u)[i - 1] = u[i]
          BY <1>1, <3>2
        <4>2. QED
          BY <2>1, <4>1 DEF Owed
      <3>3. QED
        BY <3>1, <3>2
    <2>2. ASSUME NEW s \in StepNames, NEW i \in DOMAIN Tail(u),
                 s \in Releases(Tail(u)[i])
          PROVE  s \in Owed(u)
      <3>1. i + 1 \in DOMAIN u /\ u[i + 1] = Tail(u)[i]
        BY <1>1
      <3>2. QED
        BY <2>2, <3>1 DEF Owed
    <2>3. Releases(Head(u)) \cap StepNames \subseteq Owed(u)
      BY <1>1 DEF Owed
    <2>4. QED
      BY <2>1, <2>2, <2>3 DEF Owed
  <1>5. Owed(Tail(u)) \cap Releases(Head(u)) \subseteq {"idev"}
    <2>1. ASSUME NEW i \in DOMAIN Tail(u)
          PROVE  Releases(Tail(u)[i]) \cap Releases(Head(u)) \subseteq {"idev"}
      <3>1. i + 1 \in DOMAIN u /\ i + 1 # 1 /\ Tail(u)[i] = u[i + 1]
        BY <1>1
      <3>2. QED
        BY <1>1, <3>1 DEF WellOrdered
    <2>2. QED
      BY <2>1 DEF Owed
  <1>6. QED
    BY <1>1, <1>3, <1>4, <1>5

\* The label each failure goes to owes what the steps before it acquired.
LEMMA LabelsOwe ==
  ASSUME NEW n \in DOMAIN Steps, DoneUpTo(n), held \subseteq StepNames,
         NEW v, v = SubSeq(Unwinding, Label(Steps[n]), Len(Unwinding))
  PROVE  /\ v \in Seq(UndoNames) /\ WellOrdered(v)
         /\ held \subseteq Owed(v) /\ Owed(v) \ {"idev"} \subseteq held
         /\ n = 1 \/ \E i \in DOMAIN v : v[i] = "stop sampling"
         /\ v # <<>> => v[1] # "stop sampling"
  <1> DEFINE k == Label(Steps[n])
  <1>0. n \in 1 .. 7 /\ \A i \in 1 .. 7 : Steps[i] \in held <=> i < n
    BY StepsAre DEF DoneUpTo
  <1>1. k = IF n = 1 THEN 9 ELSE IF n = 2 THEN 6 ELSE 8 - n
    BY <1>0, LabelOf
  <1> HIDE DEF k
  <1>2. k \in 1 .. 9 /\ (n # 1 => k \in 1 .. 6) /\ (n = 1 => k = 9)
    BY <1>0, <1>1
  <1>3. /\ v \in Seq(UndoNames) /\ Len(v) = 9 - k /\ WellOrdered(v)
        /\ \A i \in 1 .. Len(v) : v[i] = Unwinding[i + k - 1]
    <2>1. Len(Unwinding) = 8 /\ k \in 1 .. Len(Unwinding) + 1
      <3>1. Len(Unwinding) = 8
        BY UnwindingIs
      <3>2. QED
        BY <1>2, <3>1
    <2>2. v = SubSeq(Unwinding, k, Len(Unwinding))
      BY DEF k
    <2>3. /\ v \in Seq(UndoNames) /\ Len(v) = Len(Unwinding) - k + 1
          /\ \A i \in 1 .. Len(v) : v[i] = Unwinding[i + k - 1]
          /\ WellOrdered(v)
      BY <2>1, <2>2, OrderedUnwinding, OrderedSuffix
    <2>4. Len(Unwinding) - k + 1 = 9 - k
      BY <1>2, <2>1
    <2>5. QED
      BY <2>3, <2>4
  <1>4. ASSUME NEW s \in StepNames
        PROVE  s \in Owed(v) <=> \E j \in k .. 8 : s \in Releases(Unwinding[j])
    <2>1. ASSUME NEW j \in k .. 8
          PROVE  j - k + 1 \in DOMAIN v /\ v[j - k + 1] = Unwinding[j]
      <3>1. j - k + 1 \in 1 .. Len(v) /\ (j - k + 1) + k - 1 = j
        BY <1>2, <1>3
      <3>2. QED
        BY <1>3, <3>1
    <2>2. ASSUME NEW i \in DOMAIN v
          PROVE  i + k - 1 \in k .. 8 /\ v[i] = Unwinding[i + k - 1]
      <3>1. i \in 1 .. Len(v) /\ Len(v) = 9 - k
        BY <1>3
      <3>2. i + k - 1 \in k .. 8
        BY <1>2, <3>1
      <3>3. QED
        BY <1>3, <3>1, <3>2
    <2>3. QED
      BY <2>1, <2>2 DEF Owed
  <1>5. ASSUME NEW s \in StepNames, s # "idev"
        PROVE  s \in Owed(v) <=>
                 k <= UnwoundAt(s) /\ s \in Releases(Unwinding[UnwoundAt(s)])
    <2>1. UnwoundAt(s) \in 1 .. 8
      BY DEF UnwoundAt
    <2>2. k <= UnwoundAt(s) <=> UnwoundAt(s) \in k .. 8
      BY <1>2, <2>1
    <2>3. \A j \in k .. 8 : s \in Releases(Unwinding[j]) => j = UnwoundAt(s)
      BY <1>2, <1>5, UnwoundOnce
    <2>4. QED
      BY <1>4, <2>2, <2>3
  <1>6. /\ "driver" \in Owed(v) <=> k <= 6
        /\ "device" \in Owed(v) <=> k <= 5
        /\ "group" \in Owed(v) <=> k <= 4
        /\ "raw" \in Owed(v) <=> k <= 2
        /\ "idev registered" \in Owed(v) <=> k <= 1
        /\ "raw registered" \notin Owed(v)
    <2>1. /\ "driver" \in StepNames /\ "device" \in StepNames
          /\ "group" \in StepNames /\ "raw" \in StepNames
          /\ "idev registered" \in StepNames /\ "raw registered" \in StepNames
      BY StepNamesAre
    <2>2. /\ UnwoundAt("driver") = 6 /\ UnwoundAt("device") = 5
          /\ UnwoundAt("group") = 4 /\ UnwoundAt("raw") = 2
          /\ UnwoundAt("idev registered") = 1 /\ UnwoundAt("raw registered") = 8
      BY DEF UnwoundAt
    <2>3. "driver" \in Owed(v) <=> k <= 6
      <3>1. "driver" \in Owed(v) <=>
              /\ k <= UnwoundAt("driver")
              /\ "driver" \in Releases(Unwinding[UnwoundAt("driver")])
        BY <1>5, <2>1
      <3>2. QED
        BY <2>2, <3>1, UnwindingReleases
    <2>4. "device" \in Owed(v) <=> k <= 5
      <3>1. "device" \in Owed(v) <=>
              /\ k <= UnwoundAt("device")
              /\ "device" \in Releases(Unwinding[UnwoundAt("device")])
        BY <1>5, <2>1
      <3>2. QED
        BY <2>2, <3>1, UnwindingReleases
    <2>5. "group" \in Owed(v) <=> k <= 4
      <3>1. "group" \in Owed(v) <=>
              /\ k <= UnwoundAt("group")
              /\ "group" \in Releases(Unwinding[UnwoundAt("group")])
        BY <1>5, <2>1
      <3>2. QED
        BY <2>2, <3>1, UnwindingReleases
    <2>6. "raw" \in Owed(v) <=> k <= 2
      <3>1. "raw" \in Owed(v) <=>
              /\ k <= UnwoundAt("raw")
              /\ "raw" \in Releases(Unwinding[UnwoundAt("raw")])
        BY <1>5, <2>1
      <3>2. QED
        BY <2>2, <3>1, UnwindingReleases
    <2>7. "idev registered" \in Owed(v) <=> k <= 1
      <3>1. "idev registered" \in Owed(v) <=>
              /\ k <= UnwoundAt("idev registered")
              /\ "idev registered" \in Releases(Unwinding[UnwoundAt("idev registered")])
        BY <1>5, <2>1
      <3>2. QED
        BY <2>2, <3>1, UnwindingReleases
    <2>8. "raw registered" \notin Owed(v)
      <3>1. "raw registered" \in Owed(v) =>
              "raw registered" \in Releases(Unwinding[UnwoundAt("raw registered")])
        BY <1>5, <2>1
      <3>2. "raw registered" \notin Releases(Unwinding[8])
        BY UnwindingReleases
      <3>3. QED
        BY <2>2, <3>1, <3>2
    <2>9. QED
      BY <2>3, <2>4, <2>5, <2>6, <2>7, <2>8
  <1>7. k <= 3 => "idev" \in Owed(v)
    <2>1. "idev" \in StepNames
      BY StepNamesAre
    <2>2. k <= 3 => 3 \in k .. 8
      BY <1>2
    <2>3. QED
      BY <1>4, <2>1, <2>2, UnwindingReleases
  <1>8. /\ "driver" \in held <=> 1 < n
        /\ "device" \in held <=> 2 < n
        /\ "group" \in held <=> 3 < n
        /\ "idev" \in held <=> 4 < n
        /\ "raw" \in held <=> 5 < n
        /\ "idev registered" \in held <=> 6 < n
        /\ "raw registered" \in held <=> 7 < n
    <2>1. /\ Steps[1] \in held <=> 1 < n
          /\ Steps[2] \in held <=> 2 < n
          /\ Steps[3] \in held <=> 3 < n
          /\ Steps[4] \in held <=> 4 < n
          /\ Steps[5] \in held <=> 5 < n
          /\ Steps[6] \in held <=> 6 < n
          /\ Steps[7] \in held <=> 7 < n
      BY <1>0
    <2>2. QED
      BY <2>1, StepsAre
  <1>9. held \subseteq Owed(v) /\ Owed(v) \ {"idev"} \subseteq held
    <2>1. /\ 1 < n <=> k <= 6
          /\ 2 < n <=> k <= 5
          /\ 3 < n <=> k <= 4
          /\ 4 < n => k <= 3
          /\ 5 < n <=> k <= 2
          /\ 6 < n <=> k <= 1
          /\ ~(7 < n)
      <3>1. n = 1 \/ n = 2 \/ n = 3 \/ n = 4 \/ n = 5 \/ n = 6 \/ n = 7
        BY <1>0, Numbers
      <3>2. QED
        BY <1>1, <3>1
    <2>2. /\ "driver" \in held <=> "driver" \in Owed(v)
          /\ "device" \in held <=> "device" \in Owed(v)
          /\ "group" \in held <=> "group" \in Owed(v)
          /\ "idev" \in held => "idev" \in Owed(v)
          /\ "raw" \in held <=> "raw" \in Owed(v)
          /\ "idev registered" \in held <=> "idev registered" \in Owed(v)
          /\ "raw registered" \notin held /\ "raw registered" \notin Owed(v)
      BY <1>6, <1>7, <1>8, <2>1
    <2>3. ASSUME NEW s \in StepNames
          PROVE  s \in held => s \in Owed(v)
      BY <2>2, StepNamesAre
    <2>4. ASSUME NEW s \in StepNames, s # "idev"
          PROVE  s \in Owed(v) => s \in held
      BY <2>2, <2>4, StepNamesAre
    <2>5. Owed(v) \subseteq StepNames
      BY DEF Owed
    <2>6. QED
      BY <2>3, <2>4, <2>5
  <1>10. n = 1 \/ \E i \in DOMAIN v : v[i] = "stop sampling"
    <2>1. ASSUME n # 1
          PROVE  9 - k \in DOMAIN v /\ v[9 - k] = Unwinding[8]
      BY <1>2, <1>3, <2>1
    <2>2. QED
      BY <2>1, UnwindingIs
  <1>11. v # <<>> => v[1] # "stop sampling"
    <2> SUFFICES ASSUME v # <<>>
                 PROVE  v[1] # "stop sampling"
      OBVIOUS
    <2>1. 1 \in 1 .. Len(v) /\ n # 1
      BY <1>2, <1>3, EmptySeq
    <2>2. v[1] = Unwinding[k] /\ k \in 1 .. 6
      BY <1>2, <1>3, <2>1
    <2>3. k = 1 \/ k = 2 \/ k = 3 \/ k = 4 \/ k = 5 \/ k = 6
      BY <2>2
    <2>4. QED
      BY <2>2, <2>3, UnwindingIs
  <1>12. QED
    BY <1>3, <1>9, <1>10, <1>11

-----------------------------------------------------------------------------
(* LoaderInv is an invariant.                                              *)

LEMMA LoaderInit == Init => LoaderInv
  <1> SUFFICES ASSUME Init
               PROVE  LoaderInv
    OBVIOUS
  <1>1. undo \in Seq(UndoNames)
    BY DEF Init
  <1>2. HeldInv /\ CallsInv /\ ShutInv
    BY DEF Init, HeldInv, CallsInv, ShutInv
  <1>3. QED
    BY <1>1, <1>2 DEF Init, LoaderInv

\* A task in a call shows that the attributes exist and the system is awake.
LEMMA TasksKeep ==
  ASSUME LoaderInv, awake, "group" \in held,
         UNCHANGED <<loader, undo, held, twice, bound, awake, power>>,
         \/ UNCHANGED <<ecRate, ecOrder, shut>>
         \/ shut' = IF shut = "yes" THEN "restarted" ELSE shut
  PROVE  LoaderInv'
  <1>1. HeldInv'
    BY DEF LoaderInv, HeldInv, Owed, WellOrdered, DoneUpTo
  <1>2. CallsInv'
    BY DEF CallsInv
  <1>3. shut' \in {"no", "yes", "restarted", "failed"} /\ ShutInv'
    <2>1. CASE UNCHANGED <<ecRate, ecOrder, shut>>
      BY <2>1 DEF LoaderInv, ShutInv
    <2>2. CASE shut' = IF shut = "yes" THEN "restarted" ELSE shut
      BY <2>2 DEF LoaderInv, ShutInv
    <2>3. QED
      BY <2>1, <2>2
  <1>4. QED
    BY <1>1, <1>2, <1>3 DEF LoaderInv

LEMMA InCall ==
  ASSUME LoaderInv, NEW t \in Tasks, call[t].op # "none"
  PROVE  awake /\ "group" \in held
  BY IdleCall DEF LoaderInv, CallsInv

LEMMA SuspendKeeps ==
  ASSUME LoaderInv, Suspend \/ Resume
  PROVE  LoaderInv'
  <1>1. /\ UNCHANGED <<loader, undo, held, twice, bound, call, shut>>
        /\ loader \in {"out", "loaded"} /\ awake' \in BOOLEAN
        /\ \A t \in Tasks : call[t] = Idle
    BY DEF Suspend, Resume, LoaderInv, CallsInv, loadVars
  <1>2. HeldInv'
    BY <1>1 DEF LoaderInv, HeldInv
  <1>3. CallsInv'
    BY <1>1 DEF CallsInv
  <1>4. ShutInv'
    <2>1. CASE bound
      <3>1. loader = "loaded" /\ shut = "no"
        BY <1>1, <2>1 DEF LoaderInv, HeldInv, ShutInv
      <3>2. QED
        BY <1>1, <3>1 DEF ShutInv
    <2>2. CASE ~bound
      <3>1. UNCHANGED <<power, ecRate, ecOrder>>
        BY <2>2 DEF Suspend, Resume, ec
      <3>2. QED
        BY <1>1, <3>1 DEF LoaderInv, ShutInv
    <2>3. QED
      BY <2>1, <2>2
  <1>5. QED
    BY <1>1, <1>2, <1>3, <1>4 DEF LoaderInv

\* The steps that matter below have their number.
LEMMA InSteps ==
  /\ 1 \in DOMAIN Steps /\ 2 \in DOMAIN Steps /\ 7 \in DOMAIN Steps
  /\ Steps[2] = "device" /\ Steps[7] = "raw registered"
  <1>1. 1 \in DOMAIN Steps /\ 2 \in DOMAIN Steps /\ 7 \in DOMAIN Steps
    BY DEF Steps
  <1>2. QED
    BY <1>1, StepsAre

LEMMA LoadKeeps ==
  ASSUME LoaderInv, Load
  PROVE  LoaderInv'
  <1> USE DEF ec
  <1>1. /\ UNCHANGED <<undo, held, twice, bound, awake, call, power, ecRate,
                       ecOrder, shut>>
        /\ awake /\ loader = "out" /\ loader' = "loading" /\ held = {}
    BY DEF Load, LoaderInv, HeldInv
  <1>2. 1 \in DOMAIN Steps /\ DoneUpTo(1)'
    <2>1. DoneUpTo(1)'
      <3>1. held' = {} /\ \A i \in 1 .. 7 : ~(i < 1)
        BY <1>1
      <3>2. QED
        BY <3>1, StepsAre DEF DoneUpTo
    <2>2. QED
      BY <2>1, InSteps
  <1>3. HeldInv'
    BY <1>1, <1>2 DEF LoaderInv, HeldInv
  <1>4. CallsInv' /\ ShutInv'
    BY <1>1 DEF LoaderInv, CallsInv, ShutInv
  <1>5. QED
    BY <1>1, <1>3, <1>4 DEF LoaderInv

\* No step of hdaps_init occurs twice.
LEMMA StepsDiffer ==
  ASSUME NEW i \in DOMAIN Steps, NEW j \in DOMAIN Steps, Steps[i] = Steps[j]
  PROVE  i = j
  <1> DEFINE At(s) ==
        IF s = "driver" THEN 1 ELSE IF s = "device" THEN 2
        ELSE IF s = "group" THEN 3 ELSE IF s = "idev" THEN 4
        ELSE IF s = "raw" THEN 5 ELSE IF s = "idev registered" THEN 6 ELSE 7
  <1>1. ASSUME NEW n \in DOMAIN Steps
        PROVE  At(Steps[n]) = n
    <2>1. n = 1 \/ n = 2 \/ n = 3 \/ n = 4 \/ n = 5 \/ n = 6 \/ n = 7
      BY Numbers, StepsAre
    <2>2. QED
      BY <2>1, StepsAre
  <1>2. QED
    BY <1>1

LEMMA AcquireKeeps ==
  ASSUME LoaderInv, Acquire
  PROVE  LoaderInv'
  <1> USE DEF ec
  <1>1. /\ loader = "loading" /\ awake
        /\ held' = held \cup {NextStep}
        /\ loader' = IF NextStep = "raw registered" THEN "loaded" ELSE "loading"
        /\ UNCHANGED <<undo, twice, awake, call>>
    BY DEF Acquire, LoaderInv, CallsInv
  <1>2. PICK n \in DOMAIN Steps : DoneUpTo(n)
    BY <1>1 DEF LoaderInv, HeldInv
  <1>3. NextStep = Steps[n] /\ n \in 1 .. 7 /\ NextStep \in StepNames
    BY <1>2, NextStepIs, StepsAre DEF StepNames
  <1>4. \A i \in 1 .. 7 : Steps[i] \in held' <=> i < n + 1
    <2>1. ASSUME NEW i \in 1 .. 7
          PROVE  Steps[i] \in held' <=> i < n + 1
      <3>1. Steps[i] \in held <=> i < n
        BY <1>2, StepsAre DEF DoneUpTo
      <3>2. Steps[i] = Steps[n] <=> i = n
        BY <1>3, StepsDiffer, StepsAre
      <3>3. Steps[i] \in held' <=> i < n \/ i = n
        BY <1>1, <1>3, <3>1, <3>2
      <3>4. QED
        BY <1>3, <3>3
    <2>2. QED
      BY <2>1
  <1>5. "device" \in held <=> 2 < n
    <2>1. 2 \in DOMAIN Steps /\ Steps[2] = "device"
      BY InSteps
    <2>2. QED
      BY <1>2, <2>1 DEF DoneUpTo
  <1>6. NextStep = "device" <=> n = 2
    BY <1>3, StepsDiffer, InSteps
  <1>7. NextStep = "raw registered" <=> n = 7
    BY <1>3, StepsDiffer, InSteps
  <1>8. /\ bound' \in BOOLEAN /\ (bound' => "device" \in held')
        /\ shut' \in {"no", "yes", "restarted", "failed"}
    BY <1>1 DEF Acquire, LoaderInv, HeldInv
  <1>9. HeldInv'
    <2>1. CASE n = 7
      <3>1. \A i \in 1 .. 7 : Steps[i] \in held'
        BY <1>4, <2>1
      <3>2. StepNames \subseteq held'
        BY <3>1, StepsAre DEF StepNames
      <3>3. held' = StepNames /\ loader' = "loaded"
        BY <1>1, <1>3, <1>7, <2>1, <3>2 DEF LoaderInv
      <3>4. QED
        BY <1>1, <1>8, <3>3 DEF LoaderInv, HeldInv
    <2>2. CASE n # 7
      <3>1. n + 1 \in DOMAIN Steps
        <4>1. n + 1 \in 1 .. 7
          BY <1>3, <2>2
        <4>2. QED
          BY <4>1, StepsAre
      <3>2. DoneUpTo(n + 1)'
        BY <1>4, StepsAre DEF DoneUpTo
      <3>3. loader' = "loading"
        BY <1>1, <1>7, <2>2
      <3>4. QED
        BY <1>1, <1>8, <3>1, <3>2, <3>3 DEF LoaderInv, HeldInv
    <2>3. QED
      BY <2>1, <2>2
  <1>10. CallsInv'
    BY <1>1 DEF LoaderInv, CallsInv
  <1>11. ShutInv'
    <2>1. CASE n = 2
      <3>1. shut' = "no" /\ loader' = "loading" /\ "device" \in held'
        BY <1>1, <1>6, <1>7, <2>1 DEF Acquire
      <3>2. QED
        BY <3>1 DEF ShutInv
    <2>2. CASE n # 2
      <3>1. /\ UNCHANGED <<power, ecRate, ecOrder, shut>>
            /\ loader' \in {"loading", "loaded"}
            /\ loader' = "loaded" => n = 7
            /\ "device" \in held' <=> "device" \in held
        BY <1>1, <1>6, <1>7, <2>2 DEF Acquire
      <3>2. QED
        BY <1>1, <1>5, <3>1 DEF LoaderInv, ShutInv
    <2>3. QED
      BY <2>1, <2>2
  <1>12. undo' \in Seq(UndoNames) /\ held' \subseteq StepNames /\ awake' \in BOOLEAN
    BY <1>1, <1>3 DEF LoaderInv
  <1>13. QED
    BY <1>1, <1>8, <1>9, <1>10, <1>11, <1>12 DEF LoaderInv

LEMMA AcquireFailsKeeps ==
  ASSUME LoaderInv, AcquireFails
  PROVE  LoaderInv'
  <1> USE DEF ec
  <1>1. /\ loader = "loading" /\ awake /\ loader' = "leaving"
        /\ undo' = SubSeq(Unwinding, Label(NextStep), Len(Unwinding))
        /\ UNCHANGED <<held, twice, bound, awake, call, power, ecRate, ecOrder, shut>>
    BY DEF AcquireFails, LoaderInv, CallsInv
  <1>2. PICK n \in DOMAIN Steps : DoneUpTo(n)
    BY <1>1 DEF LoaderInv, HeldInv
  <1>3. NextStep = Steps[n] /\ n \in 1 .. 7
    BY <1>2, NextStepIs, StepsAre
  <1>4. /\ undo' \in Seq(UndoNames) /\ WellOrdered(undo')
        /\ held \subseteq Owed(undo') /\ Owed(undo') \ {"idev"} \subseteq held
        /\ n = 1 \/ \E i \in DOMAIN undo' : undo'[i] = "stop sampling"
        /\ undo' # <<>> => undo'[1] # "stop sampling"
    BY <1>1, <1>2, <1>3, LabelsOwe DEF LoaderInv
  <1>5. n = 1 => "device" \notin held
    <2>1. 2 \in DOMAIN Steps /\ Steps[2] = "device"
      BY InSteps
    <2>2. QED
      BY <1>2, <2>1 DEF DoneUpTo
  <1>6. HeldInv'
    BY <1>1, <1>4 DEF LoaderInv, HeldInv
  <1>7. CallsInv'
    BY <1>1 DEF LoaderInv, CallsInv
  <1>8. ShutInv'
    BY <1>1, <1>4, <1>5 DEF LoaderInv, ShutInv
  <1>9. QED
    BY <1>1, <1>4, <1>6, <1>7, <1>8 DEF LoaderInv

LEMMA UnloadKeeps ==
  ASSUME LoaderInv, Unload
  PROVE  LoaderInv'
  <1> USE DEF ec
  <1>1. /\ loader = "loaded" /\ awake /\ loader' = "leaving" /\ undo' = Exit
        /\ UNCHANGED <<held, twice, bound, awake, call, power, ecRate, ecOrder, shut>>
    BY DEF Unload
  <1>2. /\ held \subseteq Owed(undo') /\ Owed(undo') \ {"idev"} \subseteq held
        /\ WellOrdered(undo') /\ undo' \in Seq(UndoNames)
    BY <1>1, OrderedExit DEF LoaderInv, HeldInv, Owed
  <1>3. HeldInv'
    BY <1>1, <1>2 DEF LoaderInv, HeldInv
  <1>4. CallsInv'
    BY <1>1 DEF LoaderInv, CallsInv
  <1>5. ShutInv'
    BY <1>1, OrderedExit DEF LoaderInv, ShutInv
  <1>6. QED
    BY <1>1, <1>2, <1>3, <1>4, <1>5 DEF LoaderInv


\* What an entry of an unwinding releases tells which entry it is.
LEMMA ReleasedBy ==
  ASSUME NEW e \in UndoNames
  PROVE  /\ "device" \in Releases(e) <=> e = "device"
         /\ "group" \in Releases(e) <=> e = "group"
         /\ e \notin {"power off", "stop sampling"} => Releases(e) \subseteq StepNames
         /\ e \in {"power off", "stop sampling"} => Releases(e) \cap StepNames = {}
  <1>1. \/ e = "unregister idev" \/ e = "free raw" \/ e = "free idev"
        \/ e = "group" \/ e = "device" \/ e = "driver" \/ e = "power off"
        \/ e = "stop sampling" \/ e = "unregister raw"
    BY UndoNamesAre
  <1>2. CASE e = "unregister idev" \/ e = "free raw" \/ e = "free idev"
    BY <1>2, ReleasesOf, StepNamesAre
  <1>3. CASE e = "group" \/ e = "device" \/ e = "driver"
    BY <1>3, ReleasesOf, StepNamesAre
  <1>4. CASE e = "power off" \/ e = "stop sampling"
    BY <1>4, ReleasesOf, StepNamesAre
  <1>5. CASE e = "unregister raw"
    BY <1>5, ReleasesOf, StepNamesAre
  <1>6. QED
    BY <1>1, <1>2, <1>3, <1>4, <1>5

\* The entries of hdaps_device_shutdown stay together at the head.
LEMMA ShutdownTogether ==
  ASSUME NEW u \in Seq(UndoNames), WellOrdered(u), u # <<>>
  PROVE  /\ Tail(u) # <<>> /\ Tail(u)[1] = "stop sampling" => u[1] = "power off"
         /\ u[1] = "power off" => Tail(u) # <<>> /\ Tail(u)[1] = "stop sampling"
         /\ /\ u[1] # "stop sampling"
            /\ \E i \in DOMAIN u : u[i] = "stop sampling"
            => \E i \in DOMAIN Tail(u) : Tail(u)[i] = "stop sampling"
  <1>1. /\ Tail(u) \in Seq(UndoNames) /\ Len(Tail(u)) = Len(u) - 1
        /\ \A i \in 1 .. Len(u) - 1 : Tail(u)[i] = u[i + 1]
        /\ 1 \in DOMAIN u /\ DOMAIN u = 1 .. Len(u)
        /\ DOMAIN Tail(u) = 1 .. Len(u) - 1 /\ Len(u) \in Nat
    BY OrderedTail
  <1> DEFINE m == Len(u) - 1
  <1>a. Tail(u) # <<>> <=> m # 0
    BY <1>1, EmptySeq
  <1>b. Len(u) >= 1
    BY <1>1
  <1>c. /\ m \in Nat /\ DOMAIN Tail(u) = 1 .. m /\ DOMAIN u = 1 .. m + 1
        /\ \A i \in 1 .. m : Tail(u)[i] = u[i + 1]
    BY <1>1, <1>b
  <1> HIDE DEF m
  <1>2. ASSUME Tail(u) # <<>>, Tail(u)[1] = "stop sampling"
        PROVE  u[1] = "power off"
    <2>0. m \in Nat /\ m # 0
      BY <1>a, <1>c, <1>2
    <2>1. 1 \in 1 .. m /\ 2 \in 1 .. m + 1 /\ 1 + 1 = 2 /\ 2 - 1 = 1 /\ 2 # 1
      BY <2>0
    <2>2. 2 \in DOMAIN u
      BY <1>c, <2>1
    <2>3. u[2] = "stop sampling"
      BY <1>c, <1>2, <2>1
    <2>4. QED
      BY <2>1, <2>2, <2>3 DEF WellOrdered
  <1>3. ASSUME u[1] = "power off"
        PROVE  Tail(u) # <<>> /\ Tail(u)[1] = "stop sampling"
    <2>1. 1 + 1 \in DOMAIN u /\ u[1 + 1] = "stop sampling"
      BY <1>1, <1>3 DEF WellOrdered
    <2>2. 1 + 1 \in 1 .. m + 1
      BY <1>c, <2>1
    <2>3. m # 0 /\ 1 \in 1 .. m
      BY <1>c, <2>2
    <2>4. QED
      BY <1>a, <1>c, <2>1, <2>3
  <1>4. ASSUME u[1] # "stop sampling", NEW i \in DOMAIN u, u[i] = "stop sampling"
        PROVE  \E j \in DOMAIN Tail(u) : Tail(u)[j] = "stop sampling"
    <2>1. i \in 1 .. m + 1 /\ i # 1
      BY <1>c, <1>4
    <2>2. i - 1 \in 1 .. m /\ (i - 1) + 1 = i
      BY <1>c, <2>1
    <2>3. i - 1 \in DOMAIN Tail(u) /\ Tail(u)[i - 1] = u[i]
      BY <1>c, <2>2
    <2>4. QED
      BY <1>4, <2>3
  <1>5. QED
    BY <1>2, <1>3, <1>4

LEMMA ReleaseKeeps ==
  ASSUME LoaderInv, Release
  PROVE  LoaderInv'
  <1> USE DEF ec
  <1> DEFINE R == Releases(Head(undo))
  <1>1. /\ loader = "leaving" /\ undo # <<>> /\ awake
        /\ Head(undo) \notin {"power off", "stop sampling"}
        /\ Head(undo) = "group" => \A t \in Tasks : call[t] = Idle
        /\ undo' = Tail(undo) /\ held' = held \ R
        /\ twice' = twice \cup (R \ held)
        /\ bound' = (bound /\ Head(undo) # "device")
        /\ UNCHANGED <<loader, awake, call, power, ecRate, ecOrder, shut>>
    BY DEF Release, LoaderInv, CallsInv
  <1>2. /\ undo \in Seq(UndoNames) /\ WellOrdered(undo)
        /\ held \subseteq Owed(undo) /\ Owed(undo) \ {"idev"} \subseteq held
    BY <1>1 DEF LoaderInv, HeldInv
  <1>3. /\ Tail(undo) \in Seq(UndoNames) /\ WellOrdered(Tail(undo))
        /\ Head(undo) = undo[1] /\ Head(undo) \in UndoNames
        /\ Owed(undo) = Owed(Tail(undo)) \cup (R \cap StepNames)
        /\ Owed(Tail(undo)) \cap R \subseteq {"idev"}
    BY <1>1, <1>2, OrderedTail
  <1>4. /\ "device" \in R => Head(undo) = "device"
        /\ "group" \in R => Head(undo) = "group"
        /\ R \subseteq StepNames
    BY <1>1, <1>3, ReleasedBy
  <1> HIDE DEF R
  <1>5. held' \subseteq Owed(undo') /\ Owed(undo') \ {"idev"} \subseteq held'
    BY <1>1, <1>2, <1>3
  <1>6. twice' \subseteq {"idev"}
    BY <1>1, <1>2, <1>3, <1>4 DEF LoaderInv, HeldInv
  <1>7. /\ bound' \in BOOLEAN
        /\ bound' => "device" \in held'
    BY <1>1, <1>4 DEF LoaderInv, HeldInv
  <1>8. HeldInv'
    BY <1>1, <1>3, <1>5, <1>6, <1>7 DEF HeldInv
  <1>9. CallsInv'
    BY <1>1, <1>4 DEF LoaderInv, CallsInv
  <1>10. ShutInv'
    <2>1. shut = "no" => \E i \in DOMAIN undo' : undo'[i] = "stop sampling"
      BY <1>1, <1>2, <1>3, ShutdownTogether DEF LoaderInv, ShutInv
    <2>2. ~(undo' # <<>> /\ undo'[1] = "stop sampling")
      BY <1>1, <1>2, <1>3, ShutdownTogether
    <2>3. QED
      BY <1>1, <2>1, <2>2 DEF LoaderInv, ShutInv
  <1>11. QED
    BY <1>1, <1>3, <1>7, <1>8, <1>9, <1>10 DEF LoaderInv

\* hdaps_device_shutdown releases nothing that hdaps_init has acquired.
LEMMA ShutdownOwes ==
  ASSUME LoaderInv, loader = "leaving", undo # <<>>,
         Head(undo) \in {"power off", "stop sampling"}
  PROVE  /\ undo \in Seq(UndoNames) /\ Tail(undo) \in Seq(UndoNames)
         /\ WellOrdered(undo) /\ WellOrdered(Tail(undo)) /\ Head(undo) = undo[1]
         /\ held \subseteq Owed(Tail(undo))
         /\ Owed(Tail(undo)) \ {"idev"} \subseteq held
  <1>1. /\ undo \in Seq(UndoNames) /\ WellOrdered(undo)
        /\ held \subseteq Owed(undo) /\ Owed(undo) \ {"idev"} \subseteq held
    BY DEF LoaderInv, HeldInv
  <1>2. /\ Tail(undo) \in Seq(UndoNames) /\ WellOrdered(Tail(undo))
        /\ Head(undo) = undo[1] /\ Head(undo) \in UndoNames
        /\ Owed(undo) = Owed(Tail(undo)) \cup (Releases(Head(undo)) \cap StepNames)
    BY <1>1, OrderedTail
  <1>3. Releases(Head(undo)) \cap StepNames = {}
    BY <1>2, ReleasedBy
  <1>4. QED
    BY <1>1, <1>2, <1>3

LEMMA PowerOffKeeps ==
  ASSUME LoaderInv, PowerOff
  PROVE  LoaderInv'
  <1> USE DEF ec
  <1>1. /\ loader = "leaving" /\ undo # <<>> /\ Head(undo) = "power off" /\ awake
        /\ UNCHANGED <<loader, held, twice, bound, awake, call, ecRate, ecOrder>>
    BY DEF PowerOff, Powers, LoaderInv, CallsInv
  <1>2. /\ undo \in Seq(UndoNames) /\ Tail(undo) \in Seq(UndoNames)
        /\ WellOrdered(undo) /\ WellOrdered(Tail(undo)) /\ undo[1] = "power off"
        /\ held \subseteq Owed(Tail(undo))
        /\ Owed(Tail(undo)) \ {"idev"} \subseteq held
    BY <1>1, ShutdownOwes
  <1>3. Tail(undo) # <<>> /\ Tail(undo)[1] = "stop sampling"
    BY <1>1, <1>2, ShutdownTogether
  <1>4. CallsInv'
    BY <1>1 DEF LoaderInv, CallsInv
  <1>5. CASE Powers(FALSE) /\ undo' = Tail(undo) /\ UNCHANGED shut
    <2>1. HeldInv'
      BY <1>1, <1>2, <1>5 DEF LoaderInv, HeldInv
    <2>2. ShutInv'
      <3>1. \E i \in DOMAIN Tail(undo) : Tail(undo)[i] = "stop sampling"
        BY <1>2, <1>3, OrderedTail
      <3>2. QED
        BY <1>1, <1>5, <3>1 DEF LoaderInv, ShutInv, Powers
    <2>3. QED
      BY <1>1, <1>2, <1>4, <1>5, <2>1, <2>2 DEF LoaderInv
  <1>6. CASE /\ Powers(FALSE) \/ UNCHANGED ec
             /\ undo' = Tail(Tail(undo)) /\ shut' = "failed"
    <2>1. Head(Tail(undo)) = "stop sampling"
      BY <1>2, <1>3, OrderedTail
    <2>2. /\ Tail(Tail(undo)) \in Seq(UndoNames) /\ WellOrdered(Tail(Tail(undo)))
          /\ Head(Tail(undo)) \in UndoNames
          /\ Owed(Tail(undo)) = Owed(Tail(Tail(undo)))
               \cup (Releases(Head(Tail(undo))) \cap StepNames)
      BY <1>2, <1>3, OrderedTail
    <2>3. Releases(Head(Tail(undo))) \cap StepNames = {}
      BY <2>1, <2>2, ReleasedBy
    <2>4. HeldInv'
      BY <1>1, <1>2, <1>6, <2>2, <2>3 DEF LoaderInv, HeldInv
    <2>5. ~(undo' # <<>> /\ undo'[1] = "stop sampling")
      BY <1>2, <1>3, <1>6, ShutdownTogether
    <2>6. ShutInv'
      BY <1>1, <1>6, <2>5 DEF LoaderInv, ShutInv
    <2>7. QED
      BY <1>1, <1>4, <1>6, <2>2, <2>4, <2>6 DEF LoaderInv
  <1>7. QED
    BY <1>5, <1>6 DEF PowerOff

LEMMA StopSamplingKeeps ==
  ASSUME LoaderInv, StopSampling
  PROVE  LoaderInv'
  <1>1. /\ loader = "leaving" /\ undo # <<>> /\ Head(undo) = "stop sampling" /\ awake
        /\ undo' = Tail(undo) /\ shut' \in {"yes", "failed"}
        /\ UNCHANGED <<loader, held, twice, bound, awake, call, power>>
    BY DEF StopSampling, LoaderInv, CallsInv
  <1>2. /\ undo \in Seq(UndoNames) /\ Tail(undo) \in Seq(UndoNames)
        /\ WellOrdered(undo) /\ WellOrdered(Tail(undo)) /\ undo[1] = "stop sampling"
        /\ held \subseteq Owed(Tail(undo))
        /\ Owed(Tail(undo)) \ {"idev"} \subseteq held
    BY <1>1, ShutdownOwes
  <1>3. HeldInv'
    BY <1>1, <1>2 DEF LoaderInv, HeldInv
  <1>4. CallsInv'
    BY <1>1 DEF LoaderInv, CallsInv
  <1>5. shut' = "yes" => ecRate' = 0 /\ ecOrder' = 1
    <2>1. 0 % EcWord = 0 /\ 1 % OrderWord = 1
      BY DeviceAssumption
    <2>2. QED
      BY <2>1 DEF StopSampling, Configures
  <1>6. ~(undo' # <<>> /\ undo'[1] = "stop sampling") /\ ~power
    BY <1>1, <1>2, ShutdownTogether DEF LoaderInv, ShutInv
  <1>7. ShutInv'
    BY <1>1, <1>5, <1>6 DEF ShutInv
  <1>8. QED
    BY <1>1, <1>2, <1>3, <1>4, <1>7 DEF LoaderInv

LEMMA LeftKeeps ==
  ASSUME LoaderInv, Left
  PROVE  LoaderInv'
  <1> USE DEF ec
  <1>1. /\ loader = "leaving" /\ undo = <<>> /\ loader' = "out"
        /\ UNCHANGED <<undo, held, twice, bound, awake, call, power, ecRate,
                       ecOrder, shut>>
    BY DEF Left
  <1>2. held = {}
    BY <1>1 DEF LoaderInv, HeldInv, Owed
  <1>3. shut # "no"
    BY <1>1 DEF LoaderInv, ShutInv
  <1>4. HeldInv'
    BY <1>1, <1>2 DEF LoaderInv, HeldInv
  <1>5. CallsInv'
    BY <1>1 DEF LoaderInv, CallsInv
  <1>6. ShutInv'
    BY <1>1, <1>3 DEF LoaderInv, ShutInv
  <1>7. QED
    BY <1>1, <1>4, <1>5, <1>6 DEF LoaderInv

LEMMA LoaderStep == ValuesInv /\ LoaderInv /\ [Next]_vars => LoaderInv'
  <1> SUFFICES ASSUME ValuesInv, LoaderInv, [Next]_vars
               PROVE  LoaderInv'
    OBVIOUS
  <1> USE DEF config, ec, loadVars
  <1>1. ASSUME NEW t \in Tasks,
               \/ \E a \in Attributes : \E v \in Values[a] : Store(t, a, v)
               \/ Configure(t) \/ StoreFails(t) \/ StoreEnds(t)
               \/ ShowRatio(t) \/ ShowEnds(t)
        PROVE  LoaderInv'
    <2>1. CASE \E a \in Attributes : \E v \in Values[a] : Store(t, a, v)
      BY <2>1, TasksKeep DEF Store
    <2>2. CASE Configure(t)
      BY <2>2, InCall, TasksKeep DEF Configure
    <2>3. CASE StoreFails(t)
      BY <2>3, InCall, TasksKeep DEF StoreFails
    <2>4. CASE StoreEnds(t)
      BY <2>4, InCall, TasksKeep DEF StoreEnds, Records
    <2>5. CASE ShowRatio(t)
      BY <2>5, TasksKeep DEF ShowRatio
    <2>6. CASE ShowEnds(t)
      BY <2>6, InCall, TasksKeep DEF ShowEnds
    <2>7. QED
      BY <1>1, <2>1, <2>2, <2>3, <2>4, <2>5, <2>6
  <1>2. CASE UNCHANGED vars
    BY <1>2 DEF vars, LoaderInv, HeldInv, CallsInv, ShutInv, DoneUpTo, Owed, WellOrdered
  <1>3. QED
    BY <1>1, <1>2, SuspendKeeps, LoadKeeps, AcquireKeeps, AcquireFailsKeeps,
       UnloadKeeps, ReleaseKeeps, PowerOffKeeps, StopSamplingKeeps, LeftKeeps
       DEF Next

-----------------------------------------------------------------------------
(* ConfigInv is an invariant.                                              *)

\* Nothing is claimed of the EC while the module is on its way out, or out.
LEMMA ConfigOut ==
  ASSUME ConfigInv, UNCHANGED <<call, config>>, ~Running'
  PROVE  ConfigInv'
  <1>1. StoresFit' /\ ShowsFit'
    BY DEF ConfigInv, StoresFit, ShowsFit, InFlight, RateWith, OrderWith, config
  <1>2. TakenFits' /\ VariablesFit'
    BY DEF TakenFits, VariablesFit
  <1>3. QED
    BY <1>1, <1>2 DEF ConfigInv

\* Nor of a task that is in no call.
LEMMA ConfigIdle ==
  ASSUME \A t \in Tasks : call'[t] = Idle, VariablesFit'
  PROVE  ConfigInv'
  <1>1. \A t \in Tasks : call'[t].op = "none"
    BY IdleCall
  <1>2. StoresFit' /\ TakenFits' /\ ShowsFit'
    BY <1>1 DEF StoresFit, TakenFits, ShowsFit, InFlight, Asked
  <1>3. QED
    BY <1>2 DEF ConfigInv

\* One call changes, to something that is no store the EC has taken.
LEMMA ConfigCall ==
  ASSUME ValuesInv, ConfigInv, NEW t \in Tasks, NEW c,
         call' = [call EXCEPT ![t] = c], t \notin Asked,
         UNCHANGED <<loader, bound, awake, sampling_rate, oversampling_ratio,
                     running_avg_filter_order, ecRate, ecOrder, doubt>>,
         c.op = "store" =>
           /\ ~c.asked
           /\ c.alone => c.rate = RateWith(c) /\ c.order = OrderWith(c),
         c.op = "show" /\ c.alone =>
           c.rate = (sampling_rate * oversampling_ratio) % EcWord
  PROVE  ConfigInv'
  <1>1. call'[t] = c /\ \A u \in Tasks \ {t} : call'[u] = call[u]
    BY DEF ValuesInv
  <1>2. Asked' = Asked
    BY <1>1 DEF Asked
  <1>3. StoresFit'
    BY <1>1 DEF ConfigInv, StoresFit, InFlight, RateWith, OrderWith
  <1>4. TakenFits'
    <2>1. ASSUME NEW u \in Asked, Running, call'[u].alone, Asked = {u}
          PROVE  EcHas(call'[u].rate, call'[u].order)
      <3>1. call'[u] = call[u]
        BY <1>1 DEF Asked
      <3>2. QED
        BY <2>1, <3>1 DEF ConfigInv, TakenFits
    <2>2. QED
      BY <1>2, <2>1 DEF TakenFits, EcHas, Running
  <1>5. VariablesFit'
    BY <1>2 DEF ConfigInv, VariablesFit, EcHas, Running
  <1>6. ShowsFit'
    BY <1>1 DEF ConfigInv, ShowsFit
  <1>7. QED
    BY <1>3, <1>4, <1>5, <1>6 DEF ConfigInv

\* A call ends that the EC has taken: the others are overlapped.
LEMMA ConfigEnds ==
  ASSUME ValuesInv, NEW t \in Tasks, Ends(t), VariablesFit'
  PROVE  ConfigInv'
  <1>1. \A u \in Tasks :
          \/ call'[u] = Idle
          \/ call'[u].op = call[u].op /\ ~call'[u].alone
    BY EndsCalls DEF ValuesInv
  <1>2. \A u \in Tasks : call'[u].op # "none" => ~call'[u].alone
    BY <1>1, IdleCall
  <1>3. StoresFit' /\ TakenFits' /\ ShowsFit'
    BY <1>2 DEF StoresFit, TakenFits, ShowsFit, InFlight, Asked
  <1>4. QED
    BY <1>3 DEF ConfigInv

LEMMA StoreFits ==
  ASSUME ValuesInv, ConfigInv, NEW t \in Tasks, NEW a \in Attributes,
         NEW v \in Values[a], Store(t, a, v)
  PROVE  ConfigInv'
  <1> DEFINE rate == (IF a = "rate" THEN v ELSE sampling_rate)
                       * (IF a = "ratio" THEN v ELSE oversampling_ratio)
             order == IF a = "order" THEN v ELSE running_avg_filter_order
             c == [op |-> "store", attr |-> a, value |-> v, asked |-> FALSE,
                   alone |-> TRUE, rate |-> rate, order |-> order]
  <1>1. /\ c.op = "store" /\ ~c.asked
        /\ c.rate = RateWith(c) /\ c.order = OrderWith(c)
    <2>1. c.attr = a /\ c.value = v /\ c.rate = rate /\ c.order = order
      OBVIOUS
    <2>2. RateWith(c) = rate /\ OrderWith(c) = order
      BY <2>1 DEF RateWith, OrderWith
    <2>3. QED
      BY <2>1, <2>2
  <1>2. call' = [call EXCEPT ![t] = c] /\ t \notin Asked
    BY IdleCall DEF Store, Asked
  <1>3. UNCHANGED <<loader, bound, awake, sampling_rate, oversampling_ratio,
                    running_avg_filter_order, ecRate, ecOrder, doubt>>
    BY DEF Store, loadVars, config, ec
  <1> HIDE DEF c
  <1>4. QED
    BY <1>1, <1>2, <1>3, ConfigCall

LEMMA ConfigureFits ==
  ASSUME ValuesInv, ConfigInv, NEW t \in Tasks, Configure(t)
  PROVE  ConfigInv'
  <1> DEFINE d == [call[t] EXCEPT !.asked = TRUE]
  <1>1. call[t] \in Calls /\ call[t].op = "store"
    BY DEF Configure, ValuesInv
  <1>2. /\ d.op = "store" /\ d.attr = call[t].attr /\ d.value = call[t].value
        /\ d.asked /\ d.alone = call[t].alone
        /\ d.rate = call[t].rate /\ d.order = call[t].order
    BY <1>1, AskedCall
  <1>3. call' = [call EXCEPT ![t] = d]
    BY DEF Configure
  <1>4. UNCHANGED <<sampling_rate, oversampling_ratio, running_avg_filter_order>>
    BY DEF Configure, config
  <1> HIDE DEF d
  <1>5. call'[t] = d /\ \A u \in Tasks \ {t} : call'[u] = call[u]
    BY <1>3 DEF ValuesInv
  <1>6. t \in Asked'
    BY <1>2, <1>5 DEF Asked
  <1>7. StoresFit'
    <2>1. ASSUME NEW u \in Tasks, call'[u].op = "store", call'[u].alone
          PROVE  /\ call'[u].rate = RateWith(call[u])'
                 /\ call'[u].order = OrderWith(call[u])'
      <3>1. /\ call[u].op = "store" /\ call[u].alone
            /\ call'[u].attr = call[u].attr /\ call'[u].value = call[u].value
            /\ call'[u].rate = call[u].rate /\ call'[u].order = call[u].order
        BY <1>1, <1>2, <1>5, <2>1
      <3>2. call[u].rate = RateWith(call[u]) /\ call[u].order = OrderWith(call[u])
        BY <3>1 DEF ConfigInv, StoresFit, InFlight
      <3>3. QED
        BY <1>4, <3>1, <3>2 DEF RateWith, OrderWith
    <2>2. QED
      BY <2>1 DEF StoresFit, InFlight
  <1>8. TakenFits'
    <2>1. EcHas(call[t].rate, call[t].order)'
      BY <1>2, <1>5 DEF Configure, Configures, EcHas
    <2>2. QED
      BY <1>6, <2>1 DEF TakenFits
  <1>9. VariablesFit'
    BY <1>6 DEF VariablesFit
  <1>10. ShowsFit'
    BY <1>2, <1>4, <1>5 DEF ConfigInv, ShowsFit
  <1>11. QED
    BY <1>7, <1>8, <1>9, <1>10 DEF ConfigInv

LEMMA StoreFailsFits ==
  ASSUME ValuesInv, ConfigInv, NEW t \in Tasks, StoreFails(t)
  PROVE  ConfigInv'
  <1>1. CASE call[t].asked
    <2>1. Ends(t) /\ VariablesFit'
      BY <1>1 DEF StoreFails, VariablesFit
    <2>2. QED
      BY <2>1, ConfigEnds
  <1>2. CASE ~call[t].asked
    <2>1. call' = [call EXCEPT ![t] = Idle] /\ t \notin Asked
      BY <1>2 DEF StoreFails, Asked
    <2>2. UNCHANGED <<loader, bound, awake, sampling_rate, oversampling_ratio,
                      running_avg_filter_order, ecRate, ecOrder, doubt>>
      BY <1>2 DEF StoreFails, loadVars, config, ec
    <2>3. Idle.op # "store" /\ Idle.op # "show"
      BY IdleCall
    <2>4. QED
      BY <2>1, <2>2, <2>3, ConfigCall
  <1>3. QED
    BY <1>1, <1>2

\* The store that succeeds alone leaves the EC with the variables it records.
LEMMA StoreEndsFits ==
  ASSUME ValuesInv, ConfigInv, NEW t \in Tasks, StoreEnds(t)
  PROVE  ConfigInv'
  <1>1. /\ call[t].op = "store" /\ call[t].asked /\ Records(t) /\ Ends(t)
        /\ doubt' = ~call[t].alone
        /\ UNCHANGED <<loader, bound, awake, ecRate, ecOrder>>
    BY DEF StoreEnds, Records, loadVars, ec
  <1>2. call[t] \in Calls /\ call[t].attr \in Attributes
    BY <1>1, CallShapes DEF ValuesInv
  <1>3. /\ sampling_rate' * oversampling_ratio' = RateWith(call[t])
        /\ running_avg_filter_order' = OrderWith(call[t])
    <2>1. CASE call[t].attr = "rate"
      BY <1>1, <2>1 DEF Records, RateWith, OrderWith
    <2>2. CASE call[t].attr = "ratio"
      BY <1>1, <2>2 DEF Records, RateWith, OrderWith
    <2>3. CASE call[t].attr = "order"
      BY <1>1, <2>3 DEF Records, RateWith, OrderWith
    <2>4. QED
      BY <1>2, <2>1, <2>2, <2>3 DEF Attributes
  <1>4. VariablesFit'
    <2> SUFFICES ASSUME Running, ~doubt', Asked' = {}
                 PROVE  EcHas(sampling_rate * oversampling_ratio,
                              running_avg_filter_order)'
      BY <1>1 DEF VariablesFit, Running
    <2>1. \A u \in Tasks \ {t} :
            call[u].op = "store" =>
              call'[u].op = "store" /\ call'[u].asked = call[u].asked
      BY <1>1, IdleCall, EndsCalls DEF ValuesInv
    <2>2. Asked = {t}
      BY <1>1, <2>1 DEF Asked
    <2>3. call[t].alone
      BY <1>1
    <2>4. EcHas(call[t].rate, call[t].order)
      BY <2>2, <2>3 DEF ConfigInv, TakenFits
    <2>5. call[t].rate = RateWith(call[t]) /\ call[t].order = OrderWith(call[t])
      BY <1>1, <2>3 DEF ConfigInv, StoresFit, InFlight
    <2>6. QED
      BY <1>1, <1>3, <2>4, <2>5 DEF EcHas
  <1>5. QED
    BY <1>1, <1>4, ConfigEnds

LEMMA ShowFits ==
  ASSUME ValuesInv, ConfigInv, NEW t \in Tasks, ShowRatio(t) \/ ShowEnds(t)
  PROVE  ConfigInv'
  <1>1. UNCHANGED <<loader, bound, awake, sampling_rate, oversampling_ratio,
                    running_avg_filter_order, ecRate, ecOrder, doubt>>
    BY DEF ShowRatio, ShowEnds, loadVars, config, ec
  <1>2. t \notin Asked
    BY IdleCall DEF ShowRatio, ShowEnds, Asked
  <1>3. CASE ShowRatio(t)
    <2> DEFINE sole == InFlight = {} /\ ~doubt /\ bound /\ loader = "loaded"
               c == [op |-> "show", rate |-> ecRate, alone |-> sole]
    <2>1. sole => ecRate = (sampling_rate * oversampling_ratio) % EcWord
      <3>1. sole => Asked = {} /\ Running
        BY DEF InFlight, Asked, Running
      <3>2. QED
        BY <1>3, <3>1 DEF ShowRatio, ConfigInv, VariablesFit, EcHas
    <2>2. call' = [call EXCEPT ![t] = c]
      BY <1>3 DEF ShowRatio
    <2> HIDE DEF sole
    <2>3. c.op = "show" /\ c.rate = ecRate /\ (c.alone => sole)
      OBVIOUS
    <2> HIDE DEF c
    <2>4. QED
      BY <1>1, <1>2, <2>1, <2>2, <2>3, ConfigCall
  <1>4. CASE ShowEnds(t)
    <2>1. call' = [call EXCEPT ![t] = Idle]
      BY <1>4 DEF ShowEnds
    <2>2. Idle.op # "store" /\ Idle.op # "show"
      BY IdleCall
    <2>3. QED
      BY <1>1, <1>2, <2>1, <2>2, ConfigCall
  <1>5. QED
    BY <1>3, <1>4

\* hdaps_device_init leaves the EC with the variables, or a doubt.
LEMMA DeviceInitFits ==
  ASSUME NEW good \in BOOLEAN, DeviceInit(good), UNCHANGED config
  PROVE  VariablesFit'
  BY DEF DeviceInit, VariablesFit, EcHas, Configures, config

LEMMA AcquireFits ==
  ASSUME LoaderInv, ConfigInv, Acquire
  PROVE  ConfigInv'
  <1>1. /\ loader = "loading" /\ UNCHANGED <<call, config>>
        /\ UNCHANGED <<awake>> /\ Running /\ Running'
    BY DEF Acquire, Running
  <1>2. CASE NextStep = "device"
    <2>1. PICK n \in DOMAIN Steps : DoneUpTo(n)
      BY <1>1 DEF LoaderInv, HeldInv
    <2>2. n = 2
      BY <1>2, <2>1, NextStepIs, StepsDiffer, InSteps
    <2>3. "group" \notin held
      <3>1. 3 \in DOMAIN Steps
        BY DEF Steps
      <3>2. Steps[3] \in held <=> 3 < 2
        BY <2>1, <2>2, <3>1 DEF DoneUpTo
      <3>3. ~(3 < 2)
        OBVIOUS
      <3>4. QED
        BY <3>2, <3>3, StepsAre
    <2>4. \A t \in Tasks : call'[t] = Idle
      BY <1>1, <2>3 DEF LoaderInv, CallsInv
    <2>5. VariablesFit'
      BY <1>1, <1>2, DeviceInitFits DEF Acquire
    <2>6. QED
      BY <2>4, <2>5, ConfigIdle
  <1>3. CASE NextStep # "device"
    <2>1. UNCHANGED <<bound, ecRate, ecOrder, doubt>>
      BY <1>3 DEF Acquire, ec
    <2>2. QED
      BY <1>1, <2>1 DEF ConfigInv, StoresFit, TakenFits, VariablesFit, ShowsFit,
         InFlight, Asked, RateWith, OrderWith, EcHas, config
  <1>4. QED
    BY <1>2, <1>3

LEMMA ConfigInit == Init => ConfigInv
  <1> SUFFICES ASSUME Init
               PROVE  ConfigInv
    OBVIOUS
  <1>1. (\A t \in Tasks : call[t].op = "none") /\ ~Running
    BY IdleCall DEF Init, Running
  <1>2. QED
    BY <1>1 DEF ConfigInv, StoresFit, TakenFits, VariablesFit, ShowsFit,
       InFlight, Asked

LEMMA ConfigStep ==
  ValuesInv /\ LoaderInv /\ ConfigInv /\ [Next]_vars => ConfigInv'
  <1> SUFFICES ASSUME ValuesInv, LoaderInv, ConfigInv, [Next]_vars
               PROVE  ConfigInv'
    OBVIOUS
  <1>1. CASE Suspend
    <2>1. (\A t \in Tasks : call'[t] = Idle) /\ ~awake'
      BY <1>1 DEF Suspend
    <2>2. QED
      BY <2>1, ConfigIdle DEF VariablesFit
  <1>2. CASE Resume
    <2>1. \A t \in Tasks : call'[t] = Idle
      BY <1>2 DEF Resume, LoaderInv, CallsInv
    <2>2. VariablesFit'
      <3>1. CASE bound
        BY <1>2, <3>1, DeviceInitFits DEF Resume
      <3>2. CASE ~bound
        BY <1>2, <3>2 DEF Resume, VariablesFit, loadVars
      <3>3. QED
        BY <3>1, <3>2
    <2>3. QED
      BY <2>1, <2>2, ConfigIdle
  <1>3. CASE Load
    <2>1. held = {} /\ ~bound /\ UNCHANGED <<call, bound>>
      BY <1>3 DEF Load, LoaderInv, HeldInv
    <2>2. (\A t \in Tasks : call'[t] = Idle) /\ VariablesFit'
      BY <2>1 DEF LoaderInv, CallsInv, VariablesFit
    <2>3. QED
      BY <2>2, ConfigIdle
  <1>4. CASE AcquireFails \/ Unload \/ Release \/ PowerOff \/ StopSampling \/ Left
    <2>1. UNCHANGED <<call, config>> /\ loader' \in {"leaving", "out"}
      BY <1>4 DEF AcquireFails, Unload, Release, PowerOff, StopSampling, Left
    <2>2. QED
      BY <2>1, ConfigOut DEF Running
  <1>5. CASE UNCHANGED vars
    BY <1>5 DEF vars, ConfigInv, StoresFit, TakenFits, VariablesFit, ShowsFit,
       InFlight, Asked, RateWith, OrderWith, EcHas, Running
  <1>6. QED
    BY <1>1, <1>2, <1>3, <1>4, <1>5, StoreFits, ConfigureFits, StoreFailsFits,
       StoreEndsFits, ShowFits, AcquireFits DEF Next

-----------------------------------------------------------------------------
(* The theorems.                                                           *)

LEMMA Invariance == Spec => []DeviceInv
  <1>1. Init => DeviceInv
    BY ValuesInit, LoaderInit, ConfigInit DEF DeviceInv
  <1>2. DeviceInv /\ [Next]_vars => DeviceInv'
    BY ValuesStep, LoaderStep, ConfigStep DEF DeviceInv
  <1>3. QED
    BY <1>1, <1>2, PTL DEF Spec

\* Every variable keeps its type: what is left of an unwinding is one of the
\* labels of hdaps_init or an entry of hdaps_exit, the driver's variables are
\* what was stored, and the EC's registers keep their width.
THEOREM Typing == Spec => []TypeOK
  <1>1. DeviceInv => TypeOK
    BY DEF DeviceInv, ValuesInv, LoaderInv, HeldInv, TypeOK, UndoNames, StepNames
  <1>2. QED
    BY <1>1, Invariance, PTL

\* The EC runs with the driver's variables while the device has its driver and
\* no store is under way, from the last configuration that succeeded alone on.
THEOREM RunsWithVariables == Spec => []ConfigAgrees
  <1>1. DeviceInv => ConfigAgrees
    <2> SUFFICES ASSUME DeviceInv, loader = "loaded", bound, awake, ~doubt,
                        InFlight = {}
                 PROVE  EcHas(sampling_rate * oversampling_ratio,
                              running_avg_filter_order)
      BY DEF ConfigAgrees, EcHas
    <2>1. Asked = {} /\ Running
      BY DEF Asked, InFlight, Running
    <2>2. QED
      BY <2>1 DEF DeviceInv, ConfigInv, VariablesFit
  <1>2. QED
    BY <1>1, Invariance, PTL

\* What was stored in oversampling_ratio is read back, although it is computed
\* from the EC's rate and a sampling_rate that is read later.
THEOREM RatioComesBack == Spec => []RatioReadsBack
  <1>1. ASSUME NEW r \in Nat \ {0}, NEW n \in Nat, NEW w \in Nat \ {0}, r * n < w
        PROVE  ((r * n) % w) \div r = n
    <2>1. r * n \in Nat
      OBVIOUS
    <2>2. \A m \in Nat : m < w => m % w = m
      OBVIOUS
    <2>3. (r * n) % w = r * n
      BY <1>1, <2>1, <2>2
    <2>4. (r * n) \div r = n
      OBVIOUS
    <2>5. QED
      BY <2>3, <2>4
  <1>2. DeviceInv => RatioReadsBack
    <2> SUFFICES ASSUME DeviceInv, NEW t \in Tasks,
                        call[t].op = "show", call[t].alone,
                        sampling_rate * oversampling_ratio < EcWord
                 PROVE  Shown(t) = oversampling_ratio
      BY DEF RatioReadsBack
    <2>1. call[t].rate = (sampling_rate * oversampling_ratio) % EcWord
      BY DEF DeviceInv, ConfigInv, ShowsFit
    <2>2. /\ sampling_rate \in Nat \ {0} /\ oversampling_ratio \in Nat
          /\ EcWord \in Nat \ {0}
      BY VariablesInt, DeviceAssumption DEF DeviceInv
    <2>3. QED
      BY <1>1, <2>1, <2>2 DEF Shown
  <1>3. QED
    BY <1>2, Invariance, PTL

\* A module that is out holds nothing, has given nothing back twice but
\* hdaps_idev, and has left the accelerometer off: whichever step of hdaps_init
\* failed, and after hdaps_exit.
THEOREM NothingStays == Spec => []LeavesNothing
  <1>1. DeviceInv => NothingHeld
    BY DEF DeviceInv, LoaderInv, HeldInv, NothingHeld
  <1>2. DeviceInv => NothingRuns
    BY DEF DeviceInv, LoaderInv, ShutInv, NothingRuns
  <1>3. DeviceInv => LeavesNothing
    BY <1>1, <1>2 DEF LeavesNothing
  <1>4. QED
    BY <1>3, Invariance, PTL


=============================================================================
