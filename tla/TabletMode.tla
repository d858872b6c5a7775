----------------------------- MODULE TabletMode -----------------------------
(***************************************************************************)
(* src/tablet-mode/tablet-mode.c: a program that reads the SW_TABLET_MODE  *)
(* switch and repeats it as the SW_LID switch of a uinput device.  It      *)
(* opens the switch, waits ten seconds, asks for the switch's state, and   *)
(* then reads events: those that were queued since it opened, too.         *)
(***************************************************************************)
EXTENDS Naturals, Sequences, FiniteSets

CONSTANT QueueSize    \* events that evdev keeps for a reader

ASSUME QueueAssumption == QueueSize \in Nat \ {0, 1}

VARIABLES
  mode,      \* SW_TABLET_MODE
  gone,      \* the device was removed
  queue,     \* what evdev keeps for the program: values and others
  at,        \* where the program is
  sw_state,  \* what EVIOCGSW returned
  iev,       \* the event that was read last
  lid,       \* SW_LID
  dropped    \* history: evdev dropped an event that was not read

modeVars == <<mode, gone, queue, at, sw_state, iev, lid, dropped>>

Switched == {[value |-> TRUE], [value |-> FALSE]}
Other == [type |-> "EV_SYN"]
Junk == [type |-> "junk"]    \* what the stack holds before the first read

ModeInit ==
  /\ mode \in BOOLEAN /\ gone = FALSE
  /\ queue = <<>> /\ at = "openfd"
  /\ sw_state = FALSE /\ iev = Junk
  /\ lid = FALSE /\ dropped = FALSE

Opened == at \notin {"openfd", "exit"}

-----------------------------------------------------------------------------
(* The kernel.                                                             *)

\* The switch is moved: its event, and the end of the report.  When there is
\* no room evdev keeps that end only, behind SYN_DROPPED.
Switch ==
  /\ mode' = ~mode
  /\ IF ~Opened \/ gone THEN UNCHANGED <<queue, dropped>>
     ELSE IF Len(queue) + 2 <= QueueSize
     THEN queue' = queue \o <<[value |-> mode'], Other>> /\ UNCHANGED dropped
     ELSE queue' = <<Other, Other>> /\ dropped' = TRUE
  /\ UNCHANGED <<gone, at, sw_state, iev, lid>>

Removed ==
  /\ ~gone
  /\ gone' = TRUE
  /\ UNCHANGED <<mode, queue, at, sw_state, iev, lid, dropped>>

-----------------------------------------------------------------------------
(* The program.                                                            *)

\* openfd finds the switch, or the program exits.
Open ==
  /\ at = "openfd"
  /\ at' = IF gone THEN "exit" ELSE "sleep"
  /\ UNCHANGED <<mode, gone, queue, sw_state, iev, lid, dropped>>

\* sleep(10), and the uinput device is set up.
SetUp ==
  /\ at = "sleep"
  /\ at' \in {"EVIOCGSW", "exit"}
  /\ UNCHANGED <<mode, gone, queue, sw_state, iev, lid, dropped>>

\* What is left of queue q without its switch events.
Others(q) ==
  [i \in 1 .. Cardinality({j \in DOMAIN q : q[j] = Other}) |-> Other]

\* The initial state.  Some kernels take the queued switch events back, as
\* the state includes them.
GetState ==
  /\ at = "EVIOCGSW"
  /\ \/ /\ ~gone
        /\ sw_state' = mode /\ at' = "send"
        /\ queue' \in {queue, Others(queue)}
     \/ /\ gone
        /\ at' = "read" /\ UNCHANGED <<sw_state, queue>>
  /\ UNCHANGED <<mode, gone, iev, lid, dropped>>

\* Mutant: what is queued is taken for part of the initial state.
SendStateAndFlush ==
  /\ at = "send" /\ at' = "read"
  /\ lid' = sw_state
  /\ queue' = <<>>
  /\ UNCHANGED <<mode, gone, sw_state, iev, dropped>>

\* send_switch
SendState ==
  /\ at = "send" /\ at' = "read"
  /\ lid' = sw_state
  /\ UNCHANGED <<mode, gone, queue, sw_state, iev, dropped>>

\* send_switch for a switch event, and nothing for another
Repeat(e) == lid' = IF e \in Switched THEN e.value ELSE lid

ReadEvent ==
  /\ at = "read" /\ queue # <<>> /\ ~gone
  /\ iev' = Head(queue) /\ queue' = Tail(queue)
  /\ Repeat(Head(queue))
  /\ UNCHANGED <<mode, gone, at, sw_state, dropped>>

\* read returns -1, which is not less than the size of an event as a size_t:
\* the last event is sent again, at first whatever the stack has in its place.
ReadFails ==
  /\ at = "read" /\ gone
  /\ \E e \in IF iev = Junk THEN Switched \cup {Other} ELSE {iev} : Repeat(e)
  /\ UNCHANGED <<mode, gone, queue, at, sw_state, iev, dropped>>

ModeNext ==
  \/ Switch \/ Removed
  \/ Open \/ SetUp \/ GetState \/ SendState \/ ReadEvent \/ ReadFails

-----------------------------------------------------------------------------

(***************************************************************************)
(* Once the program has read what is queued, the lid is as the switch is,  *)
(* also when the switch moved during the ten seconds, or between the       *)
(* request for its state and the first read, as long as evdev had room and *)
(* the device is there.                                                    *)
(***************************************************************************)
LidFollows ==
  at = "read" /\ queue = <<>> /\ ~gone /\ ~dropped => lid = mode

=============================================================================
