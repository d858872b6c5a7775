----------------------------- MODULE HdapsDevice ----------------------------
(***************************************************************************)
(* The configuration of the accelerometer in src/tp_smapi/hdaps.c over the *)
(* driver's life: hdaps_init with its unwinding, hdaps_probe, the stores   *)
(* and shows of the three sampling attributes, hdaps_suspend, hdaps_resume *)
(* and hdaps_exit.                                                         *)
(*                                                                         *)
(* The attributes take no lock: a store reads the driver's variables, asks *)
(* the EC, and records its own variable when the EC has answered.  Tasks   *)
(* are frozen while the system sleeps, so no store is under way then.      *)
(***************************************************************************)
EXTENDS Integers, Sequences

CONSTANTS
  Tasks,      \* processes that use the attributes
  Rates, Ratios, Orders,     \* what they store
  EcWord,     \* the EC keeps its rate modulo EcWord (2^16 in the code)
  OrderWord   \* and the filter's order modulo OrderWord (2^8)

ASSUME DeviceAssumption ==
  /\ Rates \subseteq Nat \ {0} /\ Ratios \subseteq Nat \ {0}
  /\ Orders \subseteq Int
  /\ Rates # {} /\ Ratios # {} /\ Orders # {}
  /\ EcWord \in Nat \ {0, 1} /\ OrderWord \in Nat \ {0, 1}

VARIABLES
  loader,      \* the process that loads and unloads the module
  undo,        \* what is left of its unwinding, or of hdaps_exit
  held,        \* what hdaps_init has acquired
  twice,       \* history: what was released without being held
  bound,       \* the device has its driver: hdaps_probe succeeded
  awake,
  call,        \* the attribute call of each task
  sampling_rate, oversampling_ratio, running_avg_filter_order,
  power, ecRate, ecOrder,    \* the EC
  doubt,       \* history: a lost answer or an overlap came after the last
               \* configuration that succeeded alone
  shut         \* history: how the last hdaps_device_shutdown went

loadVars == <<loader, undo, held, twice, bound>>
config == <<sampling_rate, oversampling_ratio, running_avg_filter_order>>
ec == <<power, ecRate, ecOrder>>
vars == <<loader, undo, held, twice, bound, awake, call, sampling_rate,
          oversampling_ratio, running_avg_filter_order, power, ecRate, ecOrder,
          doubt, shut>>

Idle == [op |-> "none"]
Attributes == {"rate", "ratio", "order"}
Values == [rate |-> Rates, ratio |-> Ratios, order |-> Orders]

\* What hdaps_init acquires, in its order.
Steps == <<"driver", "device", "group", "idev", "raw", "idev registered",
           "raw registered">>

\* The labels at the end of hdaps_init, from out_idev_reg_first on.
Unwinding == <<"unregister idev", "free raw", "free idev", "group", "device",
               "driver", "power off", "stop sampling">>

Exit == <<"unregister raw", "unregister idev", "power off", "stop sampling",
          "group", "device", "driver">>

Init ==
  /\ loader = "out" /\ undo = <<>> /\ held = {} /\ twice = {}
  /\ bound = FALSE /\ awake = TRUE
  /\ call = [t \in Tasks |-> Idle]
  /\ sampling_rate \in Rates /\ oversampling_ratio \in Ratios
  /\ running_avg_filter_order \in Orders
  /\ power = FALSE /\ ecRate = 0 /\ ecOrder = 1
  /\ doubt = TRUE /\ shut = "yes"

-----------------------------------------------------------------------------
(* The EC's side of hdaps_set_power and hdaps_set_ec_config.               *)

Powers(on) == power' = on /\ UNCHANGED <<ecRate, ecOrder>>

\* Mutant: the request carries the whole integers.
ConfiguresUncut(rate, order) ==
  /\ ecRate' = rate
  /\ ecOrder' = order

Configures(rate, order) ==
  /\ ecRate' = rate % EcWord
  /\ ecOrder' = order % OrderWord

-----------------------------------------------------------------------------
(* The attributes, which exist while the group does.                       *)

InFlight == {t \in Tasks : call[t].op = "store"}

\* A store before its request: the new value with the other two variables.
Store(t, a, v) ==
  /\ awake /\ "group" \in held /\ call[t] = Idle
  /\ call' =
       [call EXCEPT ![t] =
          [op |-> "store", attr |-> a, value |-> v, asked |-> FALSE,
           alone |-> TRUE,
           rate |-> (IF a = "rate" THEN v ELSE sampling_rate)
                      * (IF a = "ratio" THEN v ELSE oversampling_ratio),
           order |-> IF a = "order" THEN v ELSE running_avg_filter_order]]
  /\ UNCHANGED <<loadVars, awake, config, ec, doubt, shut>>

\* The EC takes the configuration.
Configure(t) ==
  /\ call[t].op = "store" /\ ~call[t].asked
  /\ Configures(call[t].rate, call[t].order)
  /\ call' = [call EXCEPT ![t].asked = TRUE]
  /\ shut' = IF shut = "yes" THEN "restarted" ELSE shut
  /\ UNCHANGED <<loadVars, awake, config, power, doubt>>

\* A call of t ends; the calls of the others overlapped its effect.
Ends(t) ==
  call' = [u \in Tasks |->
             IF u = t THEN Idle
             ELSE IF call[u] = Idle THEN Idle
             ELSE [call[u] EXCEPT !.alone = FALSE]]

\* The store fails: the EC refused (out of range, change pending), or its
\* answer to what it took was lost.
StoreFails(t) ==
  /\ call[t].op = "store"
  /\ IF call[t].asked THEN Ends(t) /\ doubt' = TRUE
     ELSE call' = [call EXCEPT ![t] = Idle] /\ UNCHANGED doubt
  /\ UNCHANGED <<loadVars, awake, config, ec, shut>>

\* The store records its variable; the others in flight have used the old one.
Records(t) ==
  /\ CASE call[t].attr = "rate" ->
            /\ sampling_rate' = call[t].value
            /\ UNCHANGED <<oversampling_ratio, running_avg_filter_order>>
       [] call[t].attr = "ratio" ->
            /\ oversampling_ratio' = call[t].value
            /\ UNCHANGED <<sampling_rate, running_avg_filter_order>>
       [] call[t].attr = "order" ->
            /\ running_avg_filter_order' = call[t].value
            /\ UNCHANGED <<sampling_rate, oversampling_ratio>>
  /\ Ends(t)
  /\ doubt' = ~call[t].alone
  /\ UNCHANGED <<loadVars, awake, ec, shut>>

\* Mutant: the result of hdaps_set_ec_config is not looked at.
StoreEndsAnyway(t) == call[t].op = "store" /\ Records(t)

StoreEnds(t) == call[t].op = "store" /\ call[t].asked /\ Records(t)

\* hdaps_oversampling_ratio_show: the EC's rate ...
ShowRatio(t) ==
  /\ awake /\ "group" \in held /\ call[t] = Idle
  /\ power
  /\ call' = [call EXCEPT ![t] =
                [op |-> "show", rate |-> ecRate,
                 alone |-> InFlight = {} /\ ~doubt /\ bound /\ loader = "loaded"]]
  /\ UNCHANGED <<loadVars, awake, config, ec, doubt, shut>>

\* Mutant: the EC's rate is shown as it is.
ShownRaw(t) == call[t].rate

\* ... divided by what sampling_rate is afterwards.
Shown(t) == call[t].rate \div sampling_rate

ShowEnds(t) ==
  /\ call[t].op = "show"
  /\ call' = [call EXCEPT ![t] = Idle]
  /\ UNCHANGED <<loadVars, awake, config, ec, doubt, shut>>

-----------------------------------------------------------------------------
(* The device.                                                             *)

\* hdaps_device_init, which fails at any of its requests, or at the last
\* with everything done, or loses the answer to what the EC did.
DeviceInit(good) ==
  \E done \in {"nothing", "power", "config"} :
    /\ good => done = "config"
    /\ power' = (power \/ done # "nothing")
    /\ IF done = "config"
       THEN Configures(sampling_rate * oversampling_ratio, running_avg_filter_order)
       ELSE UNCHANGED <<ecRate, ecOrder>>
    /\ doubt' = ~good

\* hdaps_device_shutdown: nothing, the power alone, or all of it.
DeviceShutdown ==
  \E done \in {"nothing", "power", "config"} :
    /\ power' = (power /\ done = "nothing")
    /\ IF done = "config" THEN Configures(0, 1) ELSE UNCHANGED <<ecRate, ecOrder>>

\* The tasks are frozen, a call each of them is in has come to its end.
Suspend ==
  /\ awake /\ loader \in {"out", "loaded"} /\ \A t \in Tasks : call[t] = Idle
  /\ awake' = FALSE
  /\ IF bound THEN DeviceShutdown ELSE UNCHANGED ec
  /\ UNCHANGED <<loadVars, call, config, doubt, shut>>

Resume ==
  /\ ~awake
  /\ awake' = TRUE
  /\ IF bound THEN \E good \in BOOLEAN : DeviceInit(good) ELSE UNCHANGED <<ec, doubt>>
  /\ UNCHANGED <<loadVars, call, config, shut>>

-----------------------------------------------------------------------------
(* Loading and unloading.                                                  *)

\* The first step that has not acquired anything yet.
NextStep ==
  Steps[CHOOSE n \in DOMAIN Steps :
          Steps[n] \notin held /\ \A i \in 1 .. n - 1 : Steps[i] \in held]

\* Mutant: one label further down for each failure.
LabelBelow(s) ==
  CASE s = "driver" -> 10 [] s = "device" -> 7 [] s = "group" -> 6
    [] s = "idev" -> 5 [] s = "raw" -> 4 [] s = "idev registered" -> 3
    [] s = "raw registered" -> 2

\* Where in Unwinding the failure of each step goes.
Label(s) ==
  CASE s = "driver" -> 9 [] s = "device" -> 6 [] s = "group" -> 5
    [] s = "idev" -> 4 [] s = "raw" -> 3 [] s = "idev registered" -> 2
    [] s = "raw registered" -> 1

Load ==
  /\ awake /\ loader = "out"
  /\ loader' = "loading"
  /\ UNCHANGED <<undo, held, twice, bound, awake, call, config, ec, doubt, shut>>

\* A step of hdaps_init succeeds.  Registering the device calls hdaps_probe,
\* whose failure leaves the device without a driver and the step succeeding.
Acquire ==
  /\ loader = "loading"
  /\ held' = held \cup {NextStep}
  /\ loader' = IF NextStep = "raw registered" THEN "loaded" ELSE "loading"
  /\ IF NextStep = "device"
     THEN \E good \in BOOLEAN : bound' = good /\ DeviceInit(good) /\ shut' = "no"
     ELSE UNCHANGED <<bound, ec, doubt, shut>>
  /\ UNCHANGED <<undo, twice, awake, call, config>>

AcquireFails ==
  /\ loader = "loading"
  /\ loader' = "leaving"
  /\ undo' = SubSeq(Unwinding, Label(NextStep), Len(Unwinding))
  /\ UNCHANGED <<held, twice, bound, awake, call, config, ec, doubt, shut>>

Unload ==
  /\ awake /\ loader = "loaded"
  /\ loader' = "leaving"
  /\ undo' = Exit
  /\ UNCHANGED <<held, twice, bound, awake, call, config, ec, doubt, shut>>

\* input_unregister_device drops the last reference to the device as well.
Releases(s) ==
  CASE s = "unregister idev" -> {"idev registered", "idev"}
    [] s = "unregister raw" -> {"raw registered", "raw"}
    [] s = "free idev" -> {"idev"}
    [] s = "free raw" -> {"raw"}
    [] OTHER -> {s}

\* The removal of the group waits for the calls of its attributes.
Release ==
  /\ loader = "leaving" /\ undo # <<>>
  /\ Head(undo) \notin {"power off", "stop sampling"}
  /\ Head(undo) = "group" => \A t \in Tasks : call[t] = Idle
  /\ undo' = Tail(undo)
  /\ held' = held \ Releases(Head(undo))
  /\ twice' = twice \cup (Releases(Head(undo)) \ held)
  /\ bound' = (bound /\ Head(undo) # "device")
  /\ UNCHANGED <<loader, awake, call, config, ec, doubt, shut>>

\* hdaps_device_shutdown, with other tasks between its two requests.
PowerOff ==
  /\ loader = "leaving" /\ undo # <<>> /\ Head(undo) = "power off"
  /\ \/ Powers(FALSE) /\ undo' = Tail(undo) /\ UNCHANGED shut
     \/ /\ Powers(FALSE) \/ UNCHANGED ec
        /\ undo' = Tail(Tail(undo)) /\ shut' = "failed"
  /\ UNCHANGED <<loader, held, twice, bound, awake, call, config, doubt>>

StopSampling ==
  /\ loader = "leaving" /\ undo # <<>> /\ Head(undo) = "stop sampling"
  /\ undo' = Tail(undo)
  /\ \/ Configures(0, 1) /\ shut' = "yes"
     \/ Configures(0, 1) /\ shut' = "failed"
     \/ UNCHANGED <<ecRate, ecOrder>> /\ shut' = "failed"
  /\ UNCHANGED <<loader, held, twice, bound, awake, call, config, power, doubt>>

Left ==
  /\ loader = "leaving" /\ undo = <<>>
  /\ loader' = "out"
  /\ UNCHANGED <<undo, held, twice, bound, awake, call, config, ec, doubt, shut>>

-----------------------------------------------------------------------------

Next ==
  \/ \E t \in Tasks :
       \/ \E a \in Attributes : \E v \in Values[a] : Store(t, a, v)
       \/ Configure(t) \/ StoreFails(t) \/ StoreEnds(t)
       \/ ShowRatio(t) \/ ShowEnds(t)
  \/ Suspend \/ Resume
  \/ Load \/ Acquire \/ AcquireFails \/ Unload
  \/ Release \/ PowerOff \/ StopSampling \/ Left

Spec == Init /\ [][Next]_vars

-----------------------------------------------------------------------------

Calls ==
  {Idle}
    \cup [op : {"store"}, attr : Attributes,
          value : Rates \cup Ratios \cup Orders, asked : BOOLEAN, alone : BOOLEAN,
          rate : Nat, order : Int]
    \cup [op : {"show"}, rate : 0 .. EcWord - 1, alone : BOOLEAN]

TypeOK ==
  /\ loader \in {"out", "loading", "loaded", "leaving"}
  /\ undo \in Seq({Unwinding[i] : i \in DOMAIN Unwinding} \cup {Exit[1]})
  /\ held \subseteq {Steps[i] : i \in DOMAIN Steps} /\ twice \subseteq {"idev", "raw"}
  /\ bound \in BOOLEAN /\ awake \in BOOLEAN /\ power \in BOOLEAN
  /\ call \in [Tasks -> Calls]
  /\ sampling_rate \in Rates /\ oversampling_ratio \in Ratios
  /\ running_avg_filter_order \in Orders
  /\ ecRate \in 0 .. EcWord - 1 /\ ecOrder \in 0 .. OrderWord - 1
  /\ doubt \in BOOLEAN /\ shut \in {"no", "yes", "restarted", "failed"}

(***************************************************************************)
(* "Normally we have ec_rate = sampling_rate * oversampling_ratio": while  *)
(* the device has its driver and no store is under way the EC runs with    *)
(* the driver's variables, also after failed stores, suspends and lost     *)
(* answers, from the next configuration that succeeds alone.               *)
(***************************************************************************)
ConfigAgrees ==
  loader = "loaded" /\ bound /\ awake /\ ~doubt /\ InFlight = {} =>
    /\ ecRate = (sampling_rate * oversampling_ratio) % EcWord
    /\ ecOrder = running_avg_filter_order % OrderWord

(***************************************************************************)
(* The oversampling_ratio attribute reads back what was stored in it,      *)
(* although it is computed from the EC's rate and from a sampling_rate     *)
(* that is read later, when no store overlaps and the EC's rate did not    *)
(* wrap around.                                                            *)
(***************************************************************************)
RatioReadsBack ==
  \A t \in Tasks :
    /\ call[t].op = "show" /\ call[t].alone
    /\ sampling_rate * oversampling_ratio < EcWord
    => Shown(t) = oversampling_ratio

\* Nothing stays acquired, and nothing is given back twice but hdaps_idev.
NothingHeld == (loader = "out" => held = {} /\ ~bound) /\ twice \subseteq {"idev"}

\* The EC is off unless it failed to be, and samples nothing unless a store
\* came between the shutdown and the removal of the attributes.
NothingRuns ==
  loader = "out" /\ shut # "failed" =>
    /\ ~power
    /\ shut # "restarted" => ecRate = 0 /\ ecOrder = 1

(***************************************************************************)
(* Whichever step of hdaps_init fails, and after hdaps_exit, a module that *)
(* is out holds nothing, has given nothing back twice, and has left the    *)
(* accelerometer off.  The exception is hdaps_idev: when the second input  *)
(* device cannot be registered, the first is unregistered and then freed   *)
(* once more.                                                              *)
(***************************************************************************)
LeavesNothing == NothingHeld /\ NothingRuns

=============================================================================
