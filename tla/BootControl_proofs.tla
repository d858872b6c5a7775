-------------------------- MODULE BootControl_proofs ------------------------
(***************************************************************************)
(* Proofs about BootControl, for any set of slots: the slot switch, with   *)
(* failures at any of its steps, a disk that may be full, and deaths of    *)
(* the HAL, reboots and losses of power between any two.                   *)
(***************************************************************************)
EXTENDS BootControl, TLAPS

\* A switch that is under way runs on a machine that is up and has reported
\* nothing; misc names its slot already.
CallInv ==
  /\ pc # "idle" => up /\ result = "none" /\ active = slot /\ switched = Empty
  /\ result # "none" => up

\* How far the switch is with android.cfg.
CfgInv ==
  /\ pc \in {"read", "open"} => cfg = called
  /\ pc \in {"open", "write"} => content = FindAndReplace(called, booted, slot)

\* What is lost where.  While the machine is up, an empty file is one that is
\* about to be written, or that found no room; and so is an empty text.
LostInv ==
  /\ up /\ cfg = Empty => pc = "write" \/ emptied
  /\ pc \in {"open", "write"} /\ content = Empty => emptied
  /\ pc = "write" => cfg = Empty
  /\ ~up => onDisk = {cfg}

SwitchInv ==
  /\ TypeOK /\ CallInv /\ CfgInv /\ LostInv
  /\ FirstSwitchBoots /\ FailureKeepsCfg

LEMMA SwitchInit == Init => SwitchInv
  BY SlotsAssumption
  DEF Init, SwitchInv, TypeOK, CallInv, CfgInv, LostInv, FirstSwitchBoots,
      SwitchTakes, SwitchLasts, FailureKeepsCfg

LEMMA SwitchStep == SwitchInv /\ [Next]_vars => SwitchInv'
  <1> SUFFICES ASSUME SwitchInv, [Next]_vars
               PROVE  SwitchInv'
    OBVIOUS
  <1> USE SlotsAssumption
      DEF SwitchInv, TypeOK, CallInv, CfgInv, LostInv, FirstSwitchBoots, SwitchTakes,
          SwitchLasts, FailureKeepsCfg, FindAndReplace, fileVars, miscVars, callVars,
          histVars
  <1>1. ASSUME NEW s \in Slots, SetActiveBootSlot(s)
        PROVE  SwitchInv'
    <2>1. CASE pc' = "read"
      BY <1>1, <2>1 DEF SetActiveBootSlot, Report
    <2>2. CASE pc' = "idle"
      <3>1. /\ UNCHANGED <<up, booted, cfg, onDisk, active, successful, unbootable,
                           emptied, switched>>
            /\ up /\ slot' = s /\ called' = cfg /\ content' = Empty
            /\ result' = "Operation failed"
        BY <1>1, <2>2 DEF SetActiveBootSlot, Report
      <3>2. TypeOK'
        BY <2>2, <3>1
      <3>3. CallInv' /\ CfgInv'
        BY <2>2, <3>1
      <3>4. LostInv' /\ FirstSwitchBoots' /\ FailureKeepsCfg'
        <4>1. pc = "idle"
          BY <1>1 DEF SetActiveBootSlot
        <4>2. QED
          BY <2>2, <3>1, <4>1
      <3>5. QED
        BY <3>2, <3>3, <3>4
    <2>3. QED
      BY <1>1, <2>1, <2>2 DEF SetActiveBootSlot, Report
  <1>2. ASSUME NEW s \in Slots, SetSlotAsUnbootable(s)
        PROVE  SwitchInv'
    BY <1>2 DEF SetSlotAsUnbootable
  <1>3. CASE ReadCfg
    BY <1>3 DEF ReadCfg, Report
  <1>4. CASE OpenCfg
    BY <1>4 DEF OpenCfg, Report
  <1>5. CASE WriteCfg
    <2>1. CASE cfg' = content /\ onDisk' = onDisk \cup {content} /\ emptied' = emptied
      <3>1. TypeOK'
        BY <1>5, <2>1 DEF WriteCfg, Report
      <3>2. CallInv' /\ CfgInv' /\ LostInv' /\ FailureKeepsCfg'
        BY <1>5, <2>1 DEF WriteCfg, Report
      <3>3. called = booted => content = slot
        BY <1>5 DEF WriteCfg
      <3>4. FirstSwitchBoots'
        BY <1>5, <2>1, <3>3 DEF WriteCfg, Report
      <3>5. QED
        BY <3>1, <3>2, <3>4
    <2>2. CASE emptied' = TRUE /\ UNCHANGED <<fileVars, switched>>
      BY <1>5, <2>2 DEF WriteCfg, Report
    <2>3. QED
      BY <1>5, <2>1, <2>2 DEF WriteCfg
  <1>6. CASE MarkBootSuccessful
    BY <1>6 DEF MarkBootSuccessful
  <1>7. CASE WriteBack
    BY <1>7 DEF WriteBack
  <1>8. CASE Reboot
    BY <1>8 DEF Reboot, GoDown
  <1>9. CASE LosePower
    BY <1>9 DEF LosePower, GoDown
  <1>10. CASE Boot
    BY <1>10 DEF Boot
  <1>11. CASE HalDies
    BY <1>11 DEF HalDies
  <1>12. CASE UNCHANGED vars
    BY <1>12 DEF vars
  <1>13. QED
    BY <1>1, <1>2, <1>3, <1>4, <1>5, <1>6, <1>7, <1>8, <1>9, <1>10, <1>11,
       <1>12
    DEF Next

LEMMA Switch == Spec => []SwitchInv
  BY SwitchInit, SwitchStep, PTL DEF Spec

(***************************************************************************)
(* Every variable keeps its type.                                          *)
(***************************************************************************)
THEOREM Typing == Spec => []TypeOK
  <1>1. SwitchInv => TypeOK
    BY DEF SwitchInv
  <1>2. QED
    BY Switch, <1>1, PTL

(***************************************************************************)
(* A switch that reports failure has left android.cfg as it was: it never  *)
(* gets as far as truncating the file.                                     *)
(***************************************************************************)
THEOREM FailedSwitchKeepsCfg == Spec => []FailureKeepsCfg
  <1>1. SwitchInv => FailureKeepsCfg
    BY DEF SwitchInv
  <1>2. QED
    BY Switch, <1>1, PTL

(***************************************************************************)
(* The first switch after a boot that reports success, with room for the   *)
(* file, decides what the machine boots from then on, whatever failed or   *)
(* was cut off before that boot; a loss of power undoes it only before     *)
(* the kernel has written the file back.                                   *)
(***************************************************************************)
THEOREM FirstSwitch == Spec => []FirstSwitchBoots
  <1>1. SwitchInv => FirstSwitchBoots
    BY DEF SwitchInv
  <1>2. QED
    BY Switch, <1>1, PTL

(***************************************************************************)
(* There are no more than three ways to end up with nothing to boot: the   *)
(* machine or the HAL was stopped between the truncation and the write,    *)
(* the write found no room, or power was lost before what was written had  *)
(* reached the disk.                                                       *)
(***************************************************************************)
THEOREM BootableUnlessCutOff == Spec => StaysBootable
  <1>1. SwitchInv /\ [Next]_vars =>
          [up /\ ~up' /\ cfg' = Empty =>
             \/ pc = "write"
             \/ emptied
             \/ cfg # Empty /\ onDisk # {cfg}]_vars
    <2> SUFFICES ASSUME SwitchInv, Next, up, ~up', cfg' = Empty
                 PROVE  pc = "write" \/ emptied \/ (cfg # Empty /\ onDisk # {cfg})
      OBVIOUS
    <2>1. up /\ cfg = Empty => pc = "write" \/ emptied
      BY DEF SwitchInv, LostInv
    <2>2. cfg' = cfg \/ cfg' \in onDisk
      BY DEF Next, SetActiveBootSlot, SetSlotAsUnbootable, ReadCfg, OpenCfg, WriteCfg,
             MarkBootSuccessful, HalDies, WriteBack, Reboot, LosePower, Boot
    <2>3. QED
      BY <2>1, <2>2
  <1>2. QED
    BY Switch, <1>1, PTL DEF Spec, StaysBootable

=============================================================================
